--------------------------- MODULE RegisterClients --------------------------
(***************************************************************************)
(* The handlers that read and change the registers, and who runs them:    *)
(* the main loop serves AT commands and the handheld's frames (ble_at/) and     *)
(* Modbus TCP, the Web server is a task of its own (web/mod.rs), and so are the  *)
(* RS485 ports, which serve Modbus RTU.  Each handler is the sequence of calls   *)
(* it makes, for the values that matter; what it refuses before the first call  *)
(* and what it answers are left out.                                         *)
(***************************************************************************)
EXTENDS NfcTag, ProtoImage, RegisterReads

CONSTANTS
  Main, Http, Serial,
  Requests,             \* what Modbus writes: functions from registers to values
  Reads,                \* what Modbus reads: sets of registers
  MaxCalls              \* bound: handlers begun

ASSUME TasksAssumption == Clients = {Main, Http, Serial} /\ MaxCalls \in Nat
ASSUME RequestsAssumption ==      \* the copy of the name has no address of its own
  \A b \in Requests : /\ Range(b) \subseteq Vals
                      /\ \/ \E r \in Regs \ {"rawname"} : DOMAIN b = {r}
                         \/ DOMAIN b \in (SUBSET Area) \ {{}}
ASSUME ReadsAssumption == Reads \subseteq (SUBSET Regs) \ {{}}

VARIABLES calls, calibrated     \* history: handlers begun; the calibration of this boot is over

vars == <<regVars, nfcVars, protoVars, readVars, calls, calibrated>>

Init == RegInit /\ NfcInit /\ ProtoInit /\ ReadInit /\ calls = 0 /\ calibrated = FALSE

one(r, v) == [x \in {r} |-> v]

-----------------------------------------------------------------------------
(* Modbus TCP and RTU, and frames of the handheld that carry a Modbus PDU       *)

(* FC06 and FC16                                                           *)
ModbusWrites == {Write(b) : b \in Requests}

(* FC03 and FC04                                                           *)
ModbusReads == {ReadHolding(asked) : asked \in Reads} \union {ReadInput}

(* The twelve registers of the network: saved before the answer, then reset.     *)
HandheldIp == {Write(one("ip", 1)) \o Save("config")}

(* A block of the logic table; the last one is saved before the answer.         *)
HandheldLogic ==
  LET block == Arm \o WriteOr(one("logic1", 1), Disarm) IN
  {block, block \o Save("holding") \o Success(one("logic1", 1))}

-----------------------------------------------------------------------------
(* Frames with a function of their own                                     *)

(* 0xB3 writes the logic table, and saves nothing; 0xB5 and 0xB7 write text.      *)
HandheldText == {Arm \o WriteOr(one("logic2", 1), Disarm), Write(one("text", 1))}

(* 0xB2, 0xB4 and 0xB6 read them, word by word.                              *)
ReadText == {ReadWords("logic2", "text")}

(* What the handheld shows of the device comes from one snapshot; any other        *)
(* address is passed on word by word.                                        *)
HandheldIdentity == {ReadConfig({"ip", "sn"}), ReadConfig({"name"})}
HandheldPassOn   == {ReadInput, ReadWords("range", "user")}

(* 0xC2, 0xC4, 0xC8: words; 0xC6, 0xCA, 0xCE: from one snapshot.                *)
CustomRead == {ReadWords("sn", "port1"), ReadConfig({"ip", "sn"})}

(* 0xD1: the table of devices or the parameters of a port, word by word; a        *)
(* pointer of the table is followed to where it leads by then.                 *)
RetrieveDevices == {ReadWords("logic1", "logic2")}
RetrievePort    == {ReadWords("sn", "port2")}

(* 0xC3 and 0xC5: serial number and place; 0xC9: a TCP port.                     *)
CustomWords == {Write(one("sn", 1)), Write(one("port1", 1))}

(* 0xC7: the address of the interface, saved before the reset.                  *)
CustomMac == {Write(one("sn", 1)) \o Save("config")}

(* 0xCB: the name as bytes.                                                 *)
CustomName == {Change(one("name", 1)) \o CopyName \o Flag("config")}

(* 0xCD: address, mask and gateway in three writes.                           *)
CustomNetwork == {Write(one("ip", 1)) \o Write(one("sn", 1)) \o Write(one("sn", 2)) \o Save("config")}

(* 0xD0: the table of devices in one write, saved before the answer; the         *)
(* parameters of a port; other sub-commands have keys of their own in NVS.      *)
StoreDevices ==
  LET table == [logic1 |-> 2, logic2 |-> 1] IN
  {Arm \o WriteOr(table, Disarm) \o Save("holding") \o Success(table)}
StorePort == {Write(one("sn", 2))}

-----------------------------------------------------------------------------
(* AT commands                                                             *)

(* AT+CFGSN, AT+CFGNAME (the place), AT+CFGIP, AT+CFGDHCP and AT+CFG485 change    *)
(* RAM and leave the rest to AT+CFGAPPLY.                                     *)
CfgSn    == {Change(one("sn", 1))}
CfgName  == {Change(one("sn", 2))}
CfgIp    == {Change([ip |-> 1, sn |-> 1])}
CfgDhcp  == {Change(one("sn", 1))}
Cfg485   == {Change(one("sn", 2))}

CfgBtName == {Change(one("name", v)) \o CopyName \o Flag("config") : v \in {1, 2}}

(* A new version, saved whether its flag is up or not, and applied when that      *)
(* went well.                                                               *)
CfgApply == {Change(one("sn", 2)) \o SaveAnyway("config") \o Flag("config")}

(* The factory reset does not mirror the name.                                *)
CfgReset == {Change([r \in Conf |-> Defaults[r]]) \o SaveAnyway("config") \o Flag("config")}

(* write_reg alone: no look at the other ports, nor at the address as a whole.    *)
CfgWrite ==
  {Change(one("name", 1)) \o CopyName \o Flag("config")}
    \union {Change(b) \o Flag("config") : b \in {one("port1", 1), one("ip", Magic), one("sn", 1)}}

(* AT+CFGREAD and AT+CFGINFO                                                *)
CfgRead == {ReadConfig({"sn"})}
CfgInfo == {ReadConfig({"sn", "ip", "name"})}

-----------------------------------------------------------------------------
(* Web                                                                     *)

GetSystemInfo == {ReadConfig({"sn"})}
GetNetwork    == {ReadConfig({"ip", "sn", "name"})}
GetPort       == {ReadConfig({"sn"})}
GetBle        == {ReadConfig({"name"})}
GetSensor     == {ReadStorage({"range"})}
GetIoData     == {ReadWords("range", "control")}

UpdateSystemInfo == {Change(one("sn", 1)) \o Flag("config")}

(* Network and identity in one change; the name is mirrored last.               *)
UpdateNetwork ==
  {Change([ip |-> 1, sn |-> 1]) \o Flag("config"), Change([ip |-> 0, name |-> 2]) \o Flag("config") \o CopyName}

UpdatePort   == {Change(one("sn", 2)) \o Flag("config")}
UpdateBle    == {Change(one("name", 1)) \o CopyName \o Flag("config")}
UpdateSensor == {Modify(one("range", 2)) \o Flag("holding")}

-----------------------------------------------------------------------------
HandheldFrames ==
  HandheldIp \union HandheldLogic \union HandheldText \union CustomWords \union CustomMac
    \union CustomName \union CustomNetwork \union StoreDevices \union StorePort
HandheldReads ==
  ReadText \union HandheldIdentity \union HandheldPassOn \union CustomRead \union RetrieveDevices \union RetrievePort
AtCommands ==
  CfgSn \union CfgName \union CfgIp \union CfgDhcp \union Cfg485 \union CfgBtName
    \union CfgApply \union CfgReset \union CfgWrite \union CfgRead \union CfgInfo
WebReads    == GetSystemInfo \union GetNetwork \union GetPort \union GetBle \union GetSensor \union GetIoData
WebRequests ==
  UpdateSystemInfo \union UpdateNetwork \union UpdatePort \union UpdateBle \union UpdateSensor \union WebReads

ModbusFrames == ModbusWrites \union ModbusReads

HandlersOf == [c \in Clients |-> CASE c = Main   -> HandheldFrames \union HandheldReads \union AtCommands \union ModbusFrames
                                   [] c = Http   -> WebRequests
                                   [] c = Serial -> ModbusFrames]

Begun(c) ==
  /\ todo[c] = Nothing /\ calls < MaxCalls /\ calls' = calls + 1
  /\ \E handler \in HandlersOf[c] : todo' = [todo EXCEPT ![c] = handler]
  /\ UNCHANGED <<registers, lock, commit, counts, calibrated, nfcVars, protoVars, seen>>

Called(c) ==
  /\ ReadStep(c) \/ (CallStep(c) /\ UNCHANGED seen)
  /\ UNCHANGED <<calls, calibrated, nfcVars, protoVars>>

(* The calibration samples the sensors while the services run already; a range     *)
(* that was set meanwhile stays, and the flag goes up in any case.              *)
Calibrate ==
  /\ ~calibrated /\ calibrated' = TRUE /\ lock = NoClient /\ calls > 0
  /\ reg' = [reg EXCEPT !["range"] = IF @ = 0 THEN 1 ELSE @]
  /\ dirty' = dirty \union {"holding", "nfc"}
  /\ promised' = IF reg["range"] = 0 THEN promised \union {"range"} ELSE promised
  /\ UNCHANGED <<armed, flash, writers, counts, calls, nfcVars, protoVars, seen>>

Saving  == IdleSave /\ UNCHANGED <<calls, calibrated, nfcVars, protoVars, seen>>
Posting == (\E what \in {"backup", "restore"} : Post(what)) /\ UNCHANGED <<calls, calibrated, protoVars, seen>>
Tagging == NfcStep /\ UNCHANGED <<calls, calibrated, protoVars, seen>>
Imaging == ProtoStep /\ UNCHANGED <<regVars, nfcVars, calls, calibrated, seen>>
Restart ==
  RegRestart /\ NfcRestart /\ ProtoRestart /\ ReadRestart /\ calibrated' = FALSE /\ UNCHANGED calls

Next ==
  /\ \/ \E c \in Clients : Begun(c) \/ Called(c)
     \/ Saving \/ Calibrate \/ Posting \/ Tagging \/ Imaging \/ Restart
  /\ Moments

Spec == Init /\ [][Next]_vars

-----------------------------------------------------------------------------
(* A register that must last is on its way to the flash, and to the tag, as long   *)
(* as it is not there (FlashFollows, TagFollows).                             *)
KeptOrMarked == FlashFollows /\ TagFollows

(* The name and its copy among the holding registers are the same once nobody   *)
(* is about to mirror it, whoever named the device in between and wherever the   *)
(* power went; only a factory reset leaves the old copy (backends.rs:82-107,    *)
(* 1231-1236, device/mod.rs:574-596), and a tag brings its own until the boot     *)
(* (nfc/mod.rs:1073-1090).                                                   *)
NameIsMirrored ==
  \/ reg["name"] \in {reg["rawname"], Defaults["name"]}
  \/ \E c \in Clients : "mirror" \in {s.do : s \in Range(todo[c])}
  \/ reg["rawname"] = tag["rawname"] /\ rounds > 0
=============================================================================
