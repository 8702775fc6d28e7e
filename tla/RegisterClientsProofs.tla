------------------------- MODULE RegisterClientsProofs ------------------------
(***************************************************************************)
(* For any requests, reads and bounds: one permission commits one write of    *)
(* logic, an image that is not flagged is in flash, what must last is flagged *)
(* until it is in flash and on the tag, the two copies of the name agree, and  *)
(* what an answer holds of a store was there at one moment.                  *)
(***************************************************************************)
EXTENDS RegisterClients, TLAPS

-----------------------------------------------------------------------------
(* Permissions                                                             *)

(* The lock belongs to a client that is in the middle of a write.              *)
WriterHolds ==
  /\ todo = [c \in Clients |-> todo[c]]
  /\ lock # NoClient => lock \in Clients /\ Doing(lock, "write")

(* A write under way that saw the permission has taken it over.                *)
TookOver == lock # NoClient /\ commit /\ "protect" \notin DOMAIN Arg(lock)

Counted ==
  /\ arms \in Nat /\ commits \in Nat /\ commits <= arms
  /\ armed \/ TookOver => commits + 1 <= arms

(* A step that leaves the lock and the permission alone, and is not a write.    *)
LEMMA OtherCalls ==
  ASSUME WriterHolds, Counted, UNCHANGED <<lock, commit, counts>>, armed' => armed,
         \/ UNCHANGED todo
         \/ \E c \in Clients : ~Doing(c, "write") /\ \E s : todo' = [todo EXCEPT ![c] = s]
  PROVE  WriterHolds' /\ Counted'
<1>1. /\ todo' = [c \in Clients |-> todo'[c]]
      /\ lock # NoClient => todo'[lock] = todo[lock]
  BY DEF WriterHolds
<1>2. WriterHolds'
  BY <1>1 DEF WriterHolds, Doing
<1>3. TookOver' => TookOver
  BY <1>1 DEF TookOver, Arg
<1> QED
  BY <1>2, <1>3 DEF Counted, counts

LEMMA LockCounted ==
  ASSUME WriterHolds, Counted, NEW c \in Clients, Lock(c)
  PROVE  WriterHolds' /\ Counted'
<1>1. lock = NoClient /\ lock' = c /\ UNCHANGED <<registers, todo, counts>> /\ Doing(c, "write")
  BY DEF Lock
<1>2. WriterHolds'
  BY <1>1 DEF WriterHolds, Doing
<1>3. TookOver' => armed
  BY <1>1 DEF Lock, TookOver, Arg
<1> QED
  BY <1>1, <1>2, <1>3 DEF Counted, counts, registers

(* The permission that is used up is the one the write took over or brought.    *)
LEMMA PublishCounted ==
  ASSUME WriterHolds, Counted, NEW c \in Clients, Publish(c)
  PROVE  WriterHolds' /\ Counted'
<1> DEFINE b == Arg(c)
           brings == "protect" \in DOMAIN b
           logic == DOMAIN b \cap Logic # {}
<1>1. lock = c /\ lock' = NoClient /\ c # NoClient
  BY ClientsAssumption DEF Publish
<1>2. WriterHolds'
  BY <1>1 DEF WriterHolds, Publish
<1>3. ~TookOver'
  BY <1>1 DEF TookOver
<1>4. /\ commits' = IF commit /\ logic THEN commits + 1 ELSE commits
      /\ arms' = IF brings /\ commit THEN arms + 1 ELSE arms
  BY DEF Publish
<1>5. armed' => ~Spends(b) /\ (IF brings THEN commit ELSE armed)
  BY DEF Publish
<1>6. commit /\ logic => Spends(b)
  BY DEF Spends
<1>7. commit /\ ~brings => TookOver
  BY <1>1 DEF TookOver
<1> HIDE DEF b, brings, logic
<1>8. Counted'
  BY <1>3, <1>4, <1>5, <1>6, <1>7 DEF Counted
<1> QED
  BY <1>2, <1>8

LEMMA CallsCounted ==
  ASSUME WriterHolds, Counted, NEW c \in Clients, CallStep(c)
  PROVE  WriterHolds' /\ Counted'
<1>1. CASE Refuse(c)
  <2>1. lock' = NoClient /\ UNCHANGED <<registers, counts>>
        /\ todo' = [todo EXCEPT ![c] = Head(@).or]
    BY <1>1 DEF Refuse, Refused
  <2> QED
    BY <2>1 DEF WriterHolds, Counted, TookOver, registers, counts
<1>2. CASE ArmLogicWrite(c)
  <2>1. /\ arms' = arms + 1 /\ UNCHANGED <<lock, commit, commits>>
        /\ todo' = [todo EXCEPT ![c] = Tail(@)] /\ ~Doing(c, "write")
    BY <1>2 DEF ArmLogicWrite, Done, Doing
  <2>2. lock # NoClient => todo'[lock] = todo[lock]
    BY <2>1 DEF WriterHolds
  <2>3. todo' = [d \in Clients |-> todo'[d]]
    BY <2>1 DEF WriterHolds
  <2>4. WriterHolds'
    BY <2>1, <2>2, <2>3 DEF WriterHolds, Doing
  <2> QED
    BY <2>1, <2>4 DEF Counted
<1>3. CASE DisarmLogicWrite(c)
  <2>1. /\ ~armed' /\ UNCHANGED <<lock, commit, counts>>
        /\ todo' = [todo EXCEPT ![c] = Tail(@)] /\ ~Doing(c, "write")
    BY <1>3 DEF DisarmLogicWrite, Done, Doing
  <2> QED
    BY <2>1, OtherCalls
<1>4. CASE ChangeConfig(c) \/ ModifyHolding(c) \/ Mirror(c) \/ Mark(c) \/ SaveNow(c)
           \/ NothingToSave(c) \/ Answer(c)
  <2>1. /\ UNCHANGED <<armed, lock, commit, counts>>
        /\ todo' = [todo EXCEPT ![c] = Tail(@)] /\ ~Doing(c, "write")
    BY <1>4 DEF ChangeConfig, ModifyHolding, Mirror, Mark, SaveNow, NothingToSave, Answer, Due,
      Done, Doing, registers
  <2> QED
    BY <2>1, OtherCalls
<1>5. CASE SaveFails(c)
  <2>1. /\ UNCHANGED <<armed, lock, commit, counts>>
        /\ todo' = [todo EXCEPT ![c] = Head(@).or] /\ ~Doing(c, "write")
    BY <1>5 DEF SaveFails, Due, Refused, Doing
  <2> QED
    BY <2>1, OtherCalls
<1> QED
  BY <1>1, <1>2, <1>3, <1>4, <1>5, LockCounted, PublishCounted DEF CallStep

LEMMA PermissionsCounted == WriterHolds /\ Counted /\ [Next]_vars => WriterHolds' /\ Counted'
<1> SUFFICES ASSUME WriterHolds, Counted, [Next]_vars
             PROVE  WriterHolds' /\ Counted'
  OBVIOUS
<1>1. ASSUME NEW c \in Clients, Begun(c)
      PROVE  WriterHolds' /\ Counted'
  <2>1. /\ UNCHANGED <<armed, lock, commit, counts>> /\ ~Doing(c, "write")
        /\ \E s : todo' = [todo EXCEPT ![c] = s]
    BY <1>1 DEF Begun, registers, Doing
  <2> QED
    BY <2>1, OtherCalls
<1>2. ASSUME NEW c \in Clients, ReadStep(c)
      PROVE  WriterHolds' /\ Counted'
  <2>1. /\ UNCHANGED <<armed, lock, commit, counts>> /\ ~Doing(c, "write")
        /\ todo' = [todo EXCEPT ![c] = Tail(@)]
    BY <1>2 DEF ReadStep, See, Answered, Done, registers, Doing
  <2> QED
    BY <2>1, OtherCalls
<1>3. CASE Saving \/ Calibrate
  <2>1. UNCHANGED <<armed, writers, counts>>
    BY <1>3 DEF Saving, IdleSave, Calibrate
  <2> QED
    BY <2>1, OtherCalls DEF writers
<1>4. CASE Tagging
  <2>1. UNCHANGED <<armed, writers, counts>>
    BY <1>4 DEF Tagging, NfcStep, Open, CopyRegisters, SkipBackup, WriteTag, WriteTagFails,
      RestoreRegisters, Restored, RestoreRejected, Examine, regVars, registers
  <2> QED
    BY <2>1, OtherCalls DEF writers
<1>5. CASE Posting \/ Imaging \/ UNCHANGED vars
  <2>1. UNCHANGED <<armed, writers, counts>>
    BY <1>5 DEF Posting, Post, Imaging, vars, regVars, registers
  <2> QED
    BY <2>1, OtherCalls DEF writers
<1>6. CASE Restart
  <2>1. /\ todo' = [c \in Clients |-> Nothing] /\ lock' = NoClient /\ ~armed'
        /\ arms' = 0 /\ commits' = 0
    BY <1>6 DEF Restart, RegRestart
  <2> QED
    BY <2>1 DEF WriterHolds, Counted, TookOver
<1> QED
  BY <1>1, <1>2, <1>3, <1>4, <1>5, <1>6, CallsCounted DEF Next, Called

(* One permission commits the logic of one write, whoever raises it, whoever      *)
(* uses it and however the handlers of the tasks interleave.                   *)
THEOREM OnePermissionOneCommit == Spec => []OneCommitPerPermission
<1>1. Init => WriterHolds /\ Counted
  BY DEF Init, RegInit, WriterHolds, Counted, TookOver
<1>2. Counted => OneCommitPerPermission
  BY DEF Counted, OneCommitPerPermission
<1> QED
  BY <1>1, <1>2, PermissionsCounted, PTL DEF Spec

-----------------------------------------------------------------------------
(* The protocol image                                                      *)

(* As long as no two committers met, one is at work, what it copied is the image  *)
(* unless the flag went up since, and only its commit changes what counts.       *)
OneCommitter ==
  /\ image \in Nat /\ blobs \in [1..2 -> Nat] /\ active \in 1..2
  /\ task \in [Committers -> {"idle", "commit", "switch", "clean", "reload"}]
  /\ snap \in [Committers -> Nat]
  /\ ~overlapped =>
       /\ \A t, u \in Committers : Busy(t) /\ Busy(u) => t = u
       /\ ~imageDirty => blobs[active] = image
       /\ \A t \in Committers :
            /\ task[t] \in {"commit", "switch", "clean"} /\ ~imageDirty => snap[t] = image
            /\ task[t] = "switch" => blobs[3 - active] = snap[t]
            /\ task[t] \in {"clean", "reload"} => blobs[active] = snap[t]

Asked == mailbox \in Seq({"commit", "reload"})

LEMMA CommitterTypes ==
  ASSUME OneCommitter, NEW t \in Committers
  PROVE  snap[t] \in Nat /\ blobs[active] \in Nat /\ 3 - active \in 1..2 /\ 3 - active # active
BY DEF OneCommitter

LEMMA BeginKept ==
  ASSUME OneCommitter, NEW t \in Committers, NEW what \in {"commit", "reload"}, Begin(t, what)
  PROVE  OneCommitter'
<1>1. /\ task' = [task EXCEPT ![t] = what] /\ ~Busy(t)
      /\ snap' = [snap EXCEPT ![t] = IF what = "commit" THEN image ELSE blobs[active]]
      /\ UNCHANGED <<image, imageDirty, blobs, active>>
  BY DEF Begin, Goto
<1>2. /\ task' \in [Committers -> {"idle", "commit", "switch", "clean", "reload"}]
      /\ snap' \in [Committers -> Nat]
  BY <1>1, CommitterTypes DEF OneCommitter
<1>3. ASSUME ~overlapped'
      PROVE  ~overlapped /\ \A u \in Committers \ {t} : ~Busy(u)
  BY <1>3 DEF Begin
<1>4. ASSUME ~overlapped'
      PROVE  /\ \A u \in Committers \ {t} : task'[u] = "idle"
             /\ task'[t] = what
             /\ snap'[t] = IF what = "commit" THEN image ELSE blobs[active]
  BY <1>1, <1>3, <1>4 DEF Busy, OneCommitter
<1> QED
  BY <1>1, <1>2, <1>3, <1>4 DEF OneCommitter, Busy

LEMMA CommitterKept ==
  ASSUME OneCommitter, NEW t \in Committers,
         WriteBlob(t) \/ Switch(t) \/ CommitFails(t) \/ Clean(t) \/ Reload(t)
  PROVE  OneCommitter'
<1> DEFINE Stages == {"idle", "commit", "switch", "clean", "reload"}
<1>0. Busy(t) /\ UNCHANGED <<snap, overlapped>>
  BY DEF WriteBlob, Switch, CommitFails, Clean, Reload, Busy
<1>1. ASSUME ~overlapped
      PROVE  \A u \in Committers \ {t} : task[u] = "idle"
  BY <1>0, <1>1 DEF OneCommitter, Busy
<1>2. CASE WriteBlob(t)
  <2>1. /\ task[t] = "commit" /\ task' = [task EXCEPT ![t] = "switch"]
        /\ blobs' = [blobs EXCEPT ![3 - active] = snap[t]] /\ UNCHANGED <<image, imageDirty, active>>
    BY <1>2 DEF WriteBlob, Goto
  <2>2. task' \in [Committers -> Stages] /\ blobs' \in [1..2 -> Nat]
    BY <2>1, CommitterTypes DEF OneCommitter
  <2>3. blobs'[active] = blobs[active] /\ blobs'[3 - active] = snap[t]
    BY <2>1, CommitterTypes DEF OneCommitter
  <2> QED
    BY <1>0, <1>1, <2>1, <2>2, <2>3 DEF OneCommitter, Busy
<1>3. CASE Switch(t)
  <2>1. /\ task[t] = "switch" /\ task' = [task EXCEPT ![t] = "clean"] /\ active' = 3 - active
        /\ UNCHANGED <<image, imageDirty, blobs>>
    BY <1>3 DEF Switch, Goto
  <2>2. task' \in [Committers -> Stages] /\ active' \in 1..2
    BY <2>1, CommitterTypes DEF OneCommitter
  <2> QED
    BY <1>0, <1>1, <2>1, <2>2 DEF OneCommitter, Busy
<1>4. CASE CommitFails(t)
  <2>1. task' = [task EXCEPT ![t] = "idle"] /\ UNCHANGED <<image, imageDirty, blobs, active>>
    BY <1>4 DEF CommitFails, Goto
  <2>2. task' \in [Committers -> Stages]
    BY <2>1 DEF OneCommitter
  <2> QED
    BY <1>0, <1>1, <2>1, <2>2 DEF OneCommitter, Busy
<1>5. CASE Clean(t)
  <2>1. /\ task[t] = "clean" /\ task' = [task EXCEPT ![t] = "idle"] /\ UNCHANGED <<image, blobs, active>>
        /\ ~imageDirty' => image = snap[t] \/ ~imageDirty
    BY <1>5 DEF Clean, Goto
  <2>2. task' \in [Committers -> Stages]
    BY <2>1 DEF OneCommitter
  <2> QED
    BY <1>0, <1>1, <2>1, <2>2 DEF OneCommitter, Busy
<1>6. CASE Reload(t)
  <2>1. /\ task[t] = "reload" /\ task' = [task EXCEPT ![t] = "idle"] /\ UNCHANGED <<blobs, active>>
        /\ image' = snap[t]
    BY <1>6 DEF Reload, Goto
  <2>2. task' \in [Committers -> Stages] /\ image' \in Nat
    BY <2>1, CommitterTypes DEF OneCommitter
  <2> QED
    BY <1>0, <1>1, <2>1, <2>2 DEF OneCommitter, Busy
<1> QED
  BY <1>2, <1>3, <1>4, <1>5, <1>6

LEMMA AskedKept == Asked /\ [Next]_vars => Asked'
<1> SUFFICES ASSUME Asked, [Next]_vars
             PROVE  Asked'
  OBVIOUS
<1>1. CASE UNCHANGED mailbox
  BY <1>1 DEF Asked
<1>2. CASE Request \/ Serve
  BY <1>2 DEF Asked, Request, Serve
<1>3. CASE ProtoRestart
  BY <1>3 DEF Asked, ProtoRestart
<1>4. ASSUME NEW t \in Committers, WriteBlob(t) \/ Switch(t) \/ CommitFails(t) \/ Clean(t) \/ Reload(t)
      PROVE  UNCHANGED mailbox
  BY <1>4 DEF WriteBlob, Switch, CommitFails, Clean, Reload
<1>5. CASE WriteImage \/ Command
  BY <1>1, <1>5 DEF WriteImage, Command
<1>6. CASE Next /\ ~Imaging /\ ~Restart
  BY <1>1, <1>6 DEF Next, Begun, Called, Saving, Calibrate, Posting, Tagging, protoVars
<1>7. CASE UNCHANGED vars
  BY <1>1, <1>7 DEF vars, protoVars
<1> QED
  BY <1>1, <1>2, <1>3, <1>4, <1>5, <1>6, <1>7 DEF Next, Imaging, ProtoStep, Restart

LEMMA ImageKept == Asked /\ OneCommitter /\ [Next]_vars => OneCommitter'
<1> SUFFICES ASSUME Asked, OneCommitter, [Next]_vars
             PROVE  OneCommitter'
  OBVIOUS
<1>1. CASE UNCHANGED protoVars
  BY <1>1 DEF protoVars, OneCommitter, Busy
<1>2. CASE WriteImage
  <2>1. image' \in Nat /\ imageDirty' /\ UNCHANGED <<blobs, active, task, snap, overlapped>>
    BY <1>2 DEF WriteImage, OneCommitter
  <2> QED
    BY <2>1 DEF OneCommitter, Busy
<1>3. CASE Request
  BY <1>3 DEF Request, OneCommitter, Busy
<1>4. CASE Serve \/ Command
  <2>2. mailbox # <<>> => Head(mailbox) \in {"commit", "reload"}
    BY DEF Asked
  <2>3. CASE Command
    BY <2>3, BeginKept DEF Command, Committers
  <2>4. CASE Serve
    BY <2>2, <2>4, BeginKept DEF Serve, Committers
  <2> QED
    BY <1>4, <2>3, <2>4
<1>5. CASE ProtoRestart
  <2>1. /\ image' \in Nat /\ image' = blobs[active] /\ UNCHANGED <<blobs, active>>
        /\ task' = [t \in Committers |-> "idle"] /\ snap' = [t \in Committers |-> 0]
    BY <1>5 DEF ProtoRestart, OneCommitter
  <2> QED
    BY <2>1 DEF OneCommitter, Busy
<1>6. CASE Next /\ ~Imaging /\ ~Restart
  BY <1>1, <1>6 DEF Next, Begun, Called, Saving, Calibrate, Posting, Tagging
<1> QED
  BY <1>1, <1>2, <1>3, <1>4, <1>5, <1>6, CommitterKept DEF Next, Imaging, ProtoStep, Restart, vars

(* As long as no two commits or reloads met, an image without flag is the one in   *)
(* NVS, whatever is written between the copy and the end of a commit.           *)
THEOREM CleanIsCommitted == Spec => []CleanMeansCommitted
<1>1. Init => OneCommitter /\ Asked
  BY DEF Init, ProtoInit, ProtoAtRest, OneCommitter, Asked, Busy
<1>2. OneCommitter => CleanMeansCommitted
  BY DEF OneCommitter, CleanMeansCommitted
<1> QED
  BY <1>1, <1>2, ImageKept, AskedKept, PTL DEF Spec

-----------------------------------------------------------------------------
(* How handlers are made                                                   *)

Changing == {"write", "change", "modify"}
Flagging == {"mark", "mirror", "force"}

(* A write by address does not name the copy of the name, and a batch stays within *)
(* one area.                                                                *)
Writable(b) == (\E r \in Regs \ {"rawname"} : DOMAIN b = {r}) \/ DOMAIN b \subseteq Area

Call(x) ==
  /\ x.do = "write"  => Writable(x.regs)
  /\ x.do = "change" => DOMAIN x.regs \subseteq Conf
  /\ x.do = "modify" => DOMAIN x.regs \subseteq Holding \ {"rawname", "protect"}
  /\ x.do = "mirror" => x.image = "holding"
  /\ x.do = "force"  => x.image = "config"
  /\ x.do = "save"   => x.image \in Images
  /\ x.or \in {Nothing, Disarm}

(* Of each store, a look takes all that the answer holds, or nothing of it.      *)
Stores == {Conf, Regs \ Conf}
AllOrNone(a, b) ==
  \A store \in Stores :
    DOMAIN b \cap store \subseteq DOMAIN a \/ DOMAIN b \cap store \cap DOMAIN a = {}

(* What may come later: after a change, only flags; after a save, which may fail     *)
(* and end the handler, no flag that would be lost.                           *)
MayFollow(x, y) ==
  /\ x.do = "change" => y.do \in Flagging
  /\ x.do = "save"   => y.do \notin Flagging
  /\ x.do = "force"  => y.do = "mark" /\ y.image = "config"
  /\ x.do = "write"  => y.do # "mirror"
  /\ x.do = "mirror" => y.do # "change"
  /\ x.do = "look" /\ y.do = "respond" => AllOrNone(x.regs, y.regs)
  /\ x.do = "respond" => y.do \notin {"look", "respond"}

Ordered(s) ==
  /\ \E S : s \in Seq(S)
  /\ \A i \in DOMAIN s : Call(s[i])
  /\ \A i, j \in DOMAIN s : i < j => MayFollow(s[i], s[j])

(* A handler that names the device mirrors the name, unless it resets it.        *)
Renames(x) == x.do = "change" /\ "name" \in DOMAIN x.regs /\ x.regs["name"] # Defaults["name"]
Named(s) == (\E x \in Range(s) : Renames(x)) => \E y \in Range(s) : y.do = "mirror"

Made(s) == Ordered(s) /\ Named(s)

(* What the answer holds of a store is read by one look.                        *)
LookedAt(x, y, store) == x.do = "look" /\ DOMAIN y.regs \cap store \subseteq DOMAIN x.regs
Covered(s) ==
  \A y \in Range(s) : y.do = "respond" => \A store \in Stores :
    DOMAIN y.regs \cap store = {} \/ \E x \in Range(s) : LookedAt(x, y, store)

Handler(s) == Made(s) /\ Covered(s)

LEMMA Alone ==
  ASSUME NEW x, Call(x)
  PROVE  Ordered(<<x>>) /\ Range(<<x>>) = {x}
<1>1. <<x>> \in Seq({x}) /\ DOMAIN <<x>> = {1} /\ <<x>>[1] = x
  OBVIOUS
<1>2. Range(<<x>>) = {x}
  BY <1>1 DEF Range
<1>3. \A i, j \in DOMAIN <<x>> : ~(i < j)
  BY <1>1
<1>4. \A i \in DOMAIN <<x>> : <<x>>[i] = x
  BY <1>1
<1> HIDE DEF Call
<1> QED
  BY <1>1, <1>2, <1>3, <1>4 DEF Ordered

LEMMA Empty == Ordered(<<>>) /\ Range(<<>>) = {}
<1>1. <<>> \in Seq(Nat) /\ \A i : i \notin DOMAIN <<>>
  OBVIOUS
<1> QED
  BY <1>1 DEF Ordered, Range

LEMMA Joined ==
  ASSUME NEW s, NEW t, Ordered(s), Ordered(t),
         \A x \in Range(s), y \in Range(t) : MayFollow(x, y)
  PROVE  Ordered(s \o t) /\ Range(s \o t) = Range(s) \union Range(t)
<1> DEFINE u == s \o t
           n == Len(s)
<1>1. PICK S : s \in Seq(S)
  BY DEF Ordered
<1>2. PICK T : t \in Seq(T)
  BY DEF Ordered
<1>3. s \in Seq(S \union T) /\ t \in Seq(S \union T)
  BY <1>1, <1>2
<1>4. /\ u \in Seq(S \union T) /\ n \in Nat /\ Len(t) \in Nat /\ Len(u) = n + Len(t)
      /\ DOMAIN u = 1 .. n + Len(t) /\ DOMAIN s = 1 .. n /\ DOMAIN t = 1 .. Len(t)
      /\ \A i \in 1 .. n : u[i] = s[i]
      /\ \A i \in 1 .. Len(t) : u[n + i] = t[i]
  BY <1>3
<1>5. \A i \in DOMAIN u : (i \in DOMAIN s /\ u[i] = s[i]) \/ (i > n /\ i - n \in DOMAIN t /\ u[i] = t[i - n])
  BY <1>4
<1>6. \A i \in DOMAIN s : i \in DOMAIN u /\ i <= n /\ u[i] = s[i]
  BY <1>4
<1>7. \A i \in DOMAIN t : n + i \in DOMAIN u /\ u[n + i] = t[i]
  BY <1>4
<1> HIDE DEF u, n
<1>8. Range(u) = Range(s) \union Range(t)
  BY <1>5, <1>6, <1>7 DEF Range
<1>9. \A i \in DOMAIN u : Call(u[i])
  BY <1>5 DEF Ordered
<1>10. ASSUME NEW i \in DOMAIN u, NEW j \in DOMAIN u, i < j
       PROVE  MayFollow(u[i], u[j])
  <2>0. i \in Nat /\ j \in Nat /\ n \in Nat
    BY <1>4
  <2>1. CASE i \in DOMAIN s /\ u[i] = s[i] /\ j \in DOMAIN s /\ u[j] = s[j]
    BY <1>10, <2>1 DEF Ordered
  <2>2. CASE i > n /\ i - n \in DOMAIN t /\ u[i] = t[i - n] /\ j > n /\ j - n \in DOMAIN t /\ u[j] = t[j - n]
    BY <1>10, <2>0, <2>2 DEF Ordered
  <2>3. CASE i \in DOMAIN s /\ u[i] = s[i] /\ j > n /\ j - n \in DOMAIN t /\ u[j] = t[j - n]
    BY <2>3 DEF Range
  <2>4. CASE i > n /\ j \in DOMAIN s
    BY <1>6, <1>10, <2>0, <2>4
  <2> QED
    BY <1>5, <2>1, <2>2, <2>3, <2>4
<1> QED
  BY <1>4, <1>8, <1>9, <1>10 DEF Ordered, u

(* A sequence of calls of some kinds.                                        *)
Does(s, kinds) == Ordered(s) /\ \A x \in Range(s) : x.do \in kinds

LEMMA Then ==
  ASSUME NEW s, NEW t, NEW K, NEW L, Does(s, K), Does(t, L), "force" \notin K,
         "change" \in K => L \subseteq Flagging,
         "save"   \in K => L \cap Flagging = {},
         "write"  \in K => "mirror" \notin L,
         "mirror" \in K => "change" \notin L,
         "look"   \in K => "respond" \notin L,
         "respond" \in K => L \cap {"look", "respond"} = {}
  PROVE  Does(s \o t, K \union L)
<1>1. \A x \in Range(s), y \in Range(t) : MayFollow(x, y)
  BY DEF Does, MayFollow
<1> QED
  BY <1>1, Joined DEF Does

LEMMA Quiet ==
  ASSUME NEW s, NEW K, Does(s, K), "change" \notin K, "respond" \notin K
  PROVE  Handler(s)
BY DEF Does, Handler, Covered, Made, Named, Renames

(* One call.                                                                *)
LEMMA OneStep ==
  ASSUME NEW what, NEW b, NEW imag, NEW otherwise \in {Nothing, Disarm},
         what = "write"  => Writable(b),
         what = "change" => DOMAIN b \subseteq Conf,
         what = "modify" => DOMAIN b \subseteq Holding \ {"rawname", "protect"},
         what = "mirror" => imag = "holding",
         what = "force"  => imag = "config",
         what = "save"   => imag \in Images
  PROVE  /\ Does(Step(what, b, imag, otherwise), {what})
         /\ Range(Step(what, b, imag, otherwise)) =
              {[do |-> what, regs |-> b, image |-> imag, or |-> otherwise]}
<1> DEFINE x == [do |-> what, regs |-> b, image |-> imag, or |-> otherwise]
<1>1. x.do = what /\ x.regs = b /\ x.image = imag /\ x.or = otherwise
  OBVIOUS
<1>2. Call(x)
  BY <1>1 DEF Call
<1>3. Step(what, b, imag, otherwise) = <<x>>
  BY DEF Step
<1> HIDE DEF x
<1>4. Ordered(<<x>>) /\ Range(<<x>>) = {x}
  BY <1>2, Alone
<1>5. Does(<<x>>, {what})
  BY <1>1, <1>4 DEF Does
<1> QED
  BY <1>3, <1>4, <1>5 DEF x

LEMMA Steps ==
  /\ \A b : Writable(b) => Does(Write(b), {"write"}) /\ Does(WriteOr(b, Disarm), {"write"})
  /\ Does(CopyName, {"mirror"}) /\ Does(Arm, {"arm"}) /\ Does(Disarm, {"disarm"})
  /\ \A i : Does(Flag(i), {"mark"})
  /\ \A i \in Images : Does(Save(i), {"save"})
  /\ \A b : Does(Success(b), {"success"})
  /\ \A asked : Does(Look(asked), {"look"}) /\ Does(Respond(asked), {"respond"})
<1> USE DEF Nothing
<1>1. \A b : Writable(b) => Does(Write(b), {"write"}) /\ Does(WriteOr(b, Disarm), {"write"})
  BY OneStep DEF Write, WriteOr
<1>2. Does(CopyName, {"mirror"}) /\ Does(Arm, {"arm"}) /\ Does(Disarm, {"disarm"})
  BY OneStep DEF CopyName, Arm, Disarm
<1>3. (\A i : Does(Flag(i), {"mark"})) /\ \A i \in Images : Does(Save(i), {"save"})
  BY OneStep DEF Flag, Save
<1>4. \A b : Does(Success(b), {"success"})
  BY OneStep DEF Success
<1>5. ASSUME NEW asked
      PROVE  Does(Look(asked), {"look"}) /\ Does(Respond(asked), {"respond"})
  <2>1. Does(Step("look", Blanks(asked), "none", Nothing), {"look"})
    BY OneStep
  <2>2. Does(Nothing, {"look"})
    BY Empty DEF Does
  <2>3. Does(Respond(asked), {"respond"})
    BY OneStep DEF Respond
  <2> QED
    BY <2>1, <2>2, <2>3 DEF Look
<1> QED
  BY <1>1, <1>2, <1>3, <1>4, <1>5

LEMMA OneWritable == \A r \in Regs \ {"rawname"} : \A v : Writable(one(r, v))
BY DEF one, Writable

(* Answers                                                                  *)
LEMMA LooksAlone ==
  ASSUME NEW asked
  PROVE  /\ Ordered(Look(asked)) /\ Ordered(Respond(asked))
         /\ \A x \in Range(Look(asked)) : x.do = "look" /\ DOMAIN x.regs = asked
         /\ \A y \in Range(Respond(asked)) : y.do = "respond" /\ DOMAIN y.regs = asked
         /\ asked = {} \/ \E x : x \in Range(Look(asked))
<1>1. /\ Ordered(Step("look", Blanks(asked), "none", Nothing))
      /\ Range(Step("look", Blanks(asked), "none", Nothing)) =
           {[do |-> "look", regs |-> Blanks(asked), image |-> "none", or |-> Nothing]}
  BY OneStep DEF Does
<1>2. /\ Ordered(Respond(asked))
      /\ Range(Respond(asked)) =
           {[do |-> "respond", regs |-> Blanks(asked), image |-> "none", or |-> Nothing]}
  BY OneStep DEF Does, Respond
<1>3. DOMAIN Blanks(asked) = asked
  BY DEF Blanks
<1> DEFINE x == [do |-> "look", regs |-> Blanks(asked), image |-> "none", or |-> Nothing]
           y == [do |-> "respond", regs |-> Blanks(asked), image |-> "none", or |-> Nothing]
<1>4. x.do = "look" /\ DOMAIN x.regs = asked /\ y.do = "respond" /\ DOMAIN y.regs = asked
  BY <1>3
<1>5. Ordered(Nothing) /\ Range(Nothing) = {}
  BY Empty DEF Nothing
<1>6. Ordered(<<x>>) /\ Range(Step("look", Blanks(asked), "none", Nothing)) = {x} /\ Range(Respond(asked)) = {y}
  BY <1>1, <1>2 DEF Step
<1> HIDE DEF x, y
<1> QED
  BY <1>1, <1>2, <1>4, <1>5, <1>6 DEF Look

(* A look for what nothing follows but looks and an answer.                     *)
LEMMA ReadsMade ==
  /\ \A asked : Handler(ReadConfig(asked)) /\ Handler(ReadStorage(asked)) /\ Handler(ReadHolding(asked))
  /\ \A r, t : Handler(ReadWords(r, t))
  /\ Handler(ReadInput)
<1>1. ASSUME NEW a, NEW b, NEW whole, AllOrNone(Blanks(a), Blanks(whole)), AllOrNone(Blanks(b), Blanks(whole)),
             \A store \in Stores : whole \cap store \subseteq a \/ whole \cap store \subseteq b
      PROVE  Handler(Look(a) \o Look(b) \o Respond(whole))
  <2> DEFINE u == Look(a)
             v == Look(b)
             w == Respond(whole)
  <2>1. /\ Ordered(u) /\ Ordered(v) /\ Ordered(w)
        /\ \A x \in Range(u) : x.do = "look" /\ DOMAIN x.regs = a
        /\ \A x \in Range(v) : x.do = "look" /\ DOMAIN x.regs = b
        /\ \A y \in Range(w) : y.do = "respond" /\ DOMAIN y.regs = whole
        /\ (a = {} \/ \E x : x \in Range(u)) /\ (b = {} \/ \E x : x \in Range(v))
    BY LooksAlone
  <2> HIDE DEF u, v, w
  <2>2. Ordered(u \o v) /\ Range(u \o v) = Range(u) \union Range(v)
    <3>1. \A x \in Range(u), y \in Range(v) : MayFollow(x, y)
      BY <2>1 DEF MayFollow
    <3> QED
      BY <2>1, <3>1, Joined
  <2>3. DOMAIN Blanks(a) = a /\ DOMAIN Blanks(b) = b /\ DOMAIN Blanks(whole) = whole
    BY DEF Blanks
  <2>4. \A x \in Range(u) \union Range(v), y \in Range(w) : AllOrNone(x.regs, y.regs)
    BY <1>1, <2>1, <2>3 DEF AllOrNone
  <2>5. \A x \in Range(u) \union Range(v), y \in Range(w) : MayFollow(x, y)
    BY <2>1, <2>4 DEF MayFollow
  <2>6. Ordered(u \o v \o w) /\ Range(u \o v \o w) = Range(u) \union Range(v) \union Range(w)
    BY <2>1, <2>2, <2>5, Joined
  <2>7. Covered(u \o v \o w)
    <3> SUFFICES ASSUME NEW y \in Range(u \o v \o w), y.do = "respond", NEW store \in Stores,
                        DOMAIN y.regs \cap store # {}
                 PROVE  \E x \in Range(u \o v \o w) : LookedAt(x, y, store)
      BY DEF Covered
    <3>1. DOMAIN y.regs = whole
      BY <2>1, <2>6
    <3>2. CASE whole \cap store \subseteq a
      <4>1. PICK x : x \in Range(u)
        BY <2>1, <3>1, <3>2
      <4> QED
        BY <2>1, <2>6, <3>1, <3>2, <4>1 DEF LookedAt
    <3>3. CASE whole \cap store \subseteq b
      <4>1. PICK x : x \in Range(v)
        BY <2>1, <3>1, <3>3
      <4> QED
        BY <2>1, <2>6, <3>1, <3>3, <4>1 DEF LookedAt
    <3> QED
      BY <1>1, <3>2, <3>3
  <2>8. Named(u \o v \o w)
    BY <2>1, <2>6 DEF Named, Renames
  <2> QED
    BY <2>6, <2>7, <2>8 DEF Handler, Made, u, v, w
<1>2. \A asked : DOMAIN Blanks(asked) = asked
  BY DEF Blanks
<1>3. \A asked : Handler(ReadHolding(asked))
  <2> TAKE asked
  <2>1. /\ AllOrNone(Blanks(asked \cap Conf), Blanks(asked))
        /\ AllOrNone(Blanks(asked \ Conf), Blanks(asked))
    BY <1>2 DEF AllOrNone, Stores
  <2>2. \A store \in Stores : asked \cap store \subseteq asked \cap Conf \/ asked \cap store \subseteq asked \ Conf
    BY DEF Stores
  <2> QED
    BY <1>1, <2>1, <2>2 DEF ReadHolding
<1>4. \A r, t : Handler(ReadWords(r, t))
  <2> TAKE r, t
  <2>1. AllOrNone(Blanks({r}), Blanks({})) /\ AllOrNone(Blanks({t}), Blanks({}))
    BY <1>2 DEF AllOrNone
  <2> QED
    BY <1>1, <2>1 DEF ReadWords
<1>5. \A asked : Handler(Look(asked) \o Respond(asked))
  <2> TAKE asked
  <2>1. AllOrNone(Blanks(asked), Blanks(asked)) /\ AllOrNone(Blanks({}), Blanks(asked))
    BY <1>2 DEF AllOrNone
  <2>2. Handler(Look({}) \o Look(asked) \o Respond(asked))
    BY <1>1, <2>1
  <2>3. Look({}) = <<>> /\ \E S : Look(asked) \in Seq(S)
    BY LooksAlone DEF Look, Nothing, Ordered
  <2>4. Look({}) \o Look(asked) = Look(asked)
    BY <2>3
  <2> QED
    BY <2>2, <2>4
<1> QED
  BY <1>3, <1>4, <1>5 DEF ReadConfig, ReadStorage, ReadInput

(* Writes by address, with or without permission, saved or not                  *)
LEMMA WritesMade ==
  ASSUME NEW b, Writable(b)
  PROVE  /\ Does(Write(b), {"write"}) /\ Handler(Write(b))
         /\ \A i \in Images : Handler(Write(b) \o Save(i))
         /\ Does(Arm \o WriteOr(b, Disarm), {"arm", "write"}) /\ Handler(Arm \o WriteOr(b, Disarm))
         /\ \A c : Handler(Arm \o WriteOr(b, Disarm) \o Save("holding") \o Success(c))
<1>1. Does(Write(b), {"write"}) /\ Does(WriteOr(b, Disarm), {"write"})
  BY Steps
<1>2. \A i \in Images : Does(Write(b) \o Save(i), {"write"} \union {"save"})
  BY <1>1, Steps, Then
<1>3. Does(Arm \o WriteOr(b, Disarm), {"arm"} \union {"write"})
  BY <1>1, Steps, Then
<1>4. {"arm"} \union {"write"} = {"arm", "write"}
  OBVIOUS
<1>5. Does(Arm \o WriteOr(b, Disarm) \o Save("holding"), {"arm", "write"} \union {"save"})
  BY <1>3, <1>4, Steps, Then DEF Images
<1>6. \A c : Does(Arm \o WriteOr(b, Disarm) \o Save("holding") \o Success(c),
                  ({"arm", "write"} \union {"save"}) \union {"success"})
  BY <1>5, Steps, Then DEF Flagging
<1> QED
  BY <1>1, <1>2, <1>3, <1>4, <1>6, Quiet

(* Changes by closure                                                        *)
LEMMA ChangesMade ==
  ASSUME NEW b, DOMAIN b \subseteq Conf
  PROVE  /\ "name" \notin DOMAIN b => Handler(Change(b)) /\ Handler(Change(b) \o Flag("config"))
         /\ Handler(Change(b) \o CopyName \o Flag("config"))
         /\ Handler(Change(b) \o Flag("config") \o CopyName)
         /\ ("name" \in DOMAIN b => b["name"] = Defaults["name"]) =>
              Handler(Change(b) \o SaveAnyway("config") \o Flag("config"))
<1> DEFINE x == [do |-> "change", regs |-> b, image |-> "config", or |-> Nothing]
<1>0. x.do = "change" /\ x.regs = b
  OBVIOUS
<1> HIDE DEF x
<1>1. Ordered(Change(b)) /\ Range(Change(b)) = {x}
  BY OneStep DEF Change, Does, x
<1>2. /\ Ordered(CopyName) /\ Ordered(Flag("config"))
      /\ \A y \in Range(CopyName) : y.do = "mirror"
      /\ \A y \in Range(Flag("config")) : y.do = "mark" /\ y.image = "config"
      /\ \E y : y \in Range(CopyName)
  <2>1. Ordered(CopyName) /\ \A y \in Range(CopyName) : y.do = "mirror"
    BY Steps DEF Does
  <2>2. Range(CopyName) = {[do |-> "mirror", regs |-> Nothing, image |-> "holding", or |-> Nothing]}
    BY OneStep DEF CopyName
  <2>3. Ordered(Flag("config")) /\ \A y \in Range(Flag("config")) : y.do = "mark"
    BY Steps DEF Does
  <2>4. Range(Flag("config")) = {[do |-> "mark", regs |-> Nothing, image |-> "config", or |-> Nothing]}
    BY OneStep DEF Flag
  <2>5. \A y \in Range(Flag("config")) : y.image = "config"
    BY <2>4
  <2>6. \E y : y \in Range(CopyName)
    BY <2>2
  <2> QED
    BY <2>1, <2>3, <2>5, <2>6
<1>3. Ordered(SaveAnyway("config")) /\ \A y \in Range(SaveAnyway("config")) : y.do = "force"
  BY OneStep DEF SaveAnyway, Does
<1>4. ASSUME NEW s, NEW t, Ordered(s), Ordered(t), \A y \in Range(s) : y.do \in {"change", "mark", "mirror"},
             \A z \in Range(t) : z.do \in {"mark", "mirror", "force"}
      PROVE  Ordered(s \o t) /\ Range(s \o t) = Range(s) \union Range(t)
  <2>1. \A y \in Range(s), z \in Range(t) : MayFollow(y, z)
    BY <1>4 DEF MayFollow, Flagging
  <2> QED
    BY <1>4, <2>1, Joined
<1>5. /\ Ordered(Change(b) \o Flag("config"))
      /\ Range(Change(b) \o Flag("config")) = {x} \union Range(Flag("config"))
  BY <1>0, <1>1, <1>2, <1>4
<1>6. /\ Ordered(Change(b) \o CopyName)
      /\ Range(Change(b) \o CopyName) = {x} \union Range(CopyName)
  BY <1>0, <1>1, <1>2, <1>4
<1>7. Handler(Change(b) \o CopyName \o Flag("config"))
  <2>1. /\ Ordered(Change(b) \o CopyName \o Flag("config"))
        /\ Range(Change(b) \o CopyName \o Flag("config")) =
             ({x} \union Range(CopyName)) \union Range(Flag("config"))
    BY <1>0, <1>2, <1>4, <1>6
  <2>2. Covered(Change(b) \o CopyName \o Flag("config"))
    BY <1>0, <1>2, <2>1 DEF Covered
  <2> QED
    BY <1>2, <2>1, <2>2 DEF Handler, Made, Named
<1>8. Handler(Change(b) \o Flag("config") \o CopyName)
  <2>1. /\ Ordered(Change(b) \o Flag("config") \o CopyName)
        /\ Range(Change(b) \o Flag("config") \o CopyName) =
             ({x} \union Range(Flag("config"))) \union Range(CopyName)
    BY <1>0, <1>2, <1>4, <1>5
  <2>2. Covered(Change(b) \o Flag("config") \o CopyName)
    BY <1>0, <1>2, <2>1 DEF Covered
  <2> QED
    BY <1>2, <2>1, <2>2 DEF Handler, Made, Named
<1>9. ASSUME "name" \notin DOMAIN b
      PROVE  Handler(Change(b)) /\ Handler(Change(b) \o Flag("config"))
  BY <1>0, <1>1, <1>2, <1>5, <1>9 DEF Handler, Covered, Made, Named, Renames
<1>10. ASSUME "name" \in DOMAIN b => b["name"] = Defaults["name"]
       PROVE  Handler(Change(b) \o SaveAnyway("config") \o Flag("config"))
  <2>1. /\ Ordered(Change(b) \o SaveAnyway("config"))
        /\ Range(Change(b) \o SaveAnyway("config")) = {x} \union Range(SaveAnyway("config"))
    BY <1>0, <1>1, <1>3, <1>4
  <2>2. \A y \in {x} \union Range(SaveAnyway("config")), z \in Range(Flag("config")) : MayFollow(y, z)
    BY <1>0, <1>2, <1>3 DEF MayFollow, Flagging
  <2>3. /\ Ordered(Change(b) \o SaveAnyway("config") \o Flag("config"))
        /\ Range(Change(b) \o SaveAnyway("config") \o Flag("config")) =
             ({x} \union Range(SaveAnyway("config"))) \union Range(Flag("config"))
    BY <1>2, <2>1, <2>2, Joined
  <2> QED
    BY <1>0, <1>2, <1>3, <1>10, <2>3 DEF Handler, Covered, Made, Named, Renames
<1> QED
  BY <1>7, <1>8, <1>9, <1>10

(* Every handler                                                            *)
LEMMA FramesMade == \A h \in HandheldFrames : Handler(h)
<1>1. \A r \in Regs \ {"rawname"} : \A v : Writable(one(r, v))
  BY OneWritable
<1>2. {"ip", "sn", "port1", "text", "logic1", "logic2"} \subseteq Regs \ {"rawname"}
  BY DEF Regs, Conf, Holding, Logic, Text
<1>3. \A h \in HandheldIp \union CustomMac : Handler(h)
  BY <1>1, <1>2, WritesMade DEF HandheldIp, CustomMac, Images
<1>4. \A h \in HandheldLogic : Handler(h)
  BY <1>1, <1>2, WritesMade DEF HandheldLogic
<1>5. \A h \in HandheldText \union CustomWords \union StorePort : Handler(h)
  BY <1>1, <1>2, WritesMade DEF HandheldText, CustomWords, StorePort
<1>6. \A h \in CustomName : Handler(h)
  <2>1. DOMAIN one("name", 1) \subseteq Conf
    BY DEF one, Conf
  <2> QED
    BY <2>1, ChangesMade DEF CustomName
<1>7. \A h \in CustomNetwork : Handler(h)
  <2> DEFINE a == Write(one("ip", 1))
             b == Write(one("sn", 1))
             c == Write(one("sn", 2))
  <2>1. Does(a, {"write"}) /\ Does(b, {"write"}) /\ Does(c, {"write"}) /\ Does(Save("config"), {"save"})
    BY <1>1, <1>2, Steps DEF Images
  <2> HIDE DEF a, b, c
  <2>2. Does(a \o b, {"write"} \union {"write"})
    BY <2>1, Then
  <2>3. Does(a \o b \o c, ({"write"} \union {"write"}) \union {"write"})
    BY <2>1, <2>2, Then
  <2>4. Does(a \o b \o c \o Save("config"), (({"write"} \union {"write"}) \union {"write"}) \union {"save"})
    BY <2>1, <2>3, Then
  <2>5. Handler(a \o b \o c \o Save("config"))
    BY <2>4, Quiet
  <2> QED
    BY <2>5 DEF CustomNetwork, a, b, c
<1>8. \A h \in StoreDevices : Handler(h)
  <2> DEFINE table == [logic1 |-> 2, logic2 |-> 1]
  <2>1. Writable(table)
    BY DEF Writable, Area, Holding, Logic
  <2> QED
    BY <2>1, WritesMade DEF StoreDevices
<1> QED
  BY <1>3, <1>4, <1>5, <1>6, <1>7, <1>8 DEF HandheldFrames

LEMMA CommandsMade == \A h \in AtCommands : Handler(h)
<1>1. \A r \in Conf : \A v : DOMAIN one(r, v) = {r}
  BY DEF one
<1>2. "sn" \in Conf /\ "ip" \in Conf /\ "port1" \in Conf /\ "name" \in Conf
  BY DEF Conf
<1>3. \A h \in CfgSn \union CfgName \union CfgDhcp \union Cfg485 : Handler(h)
  BY <1>1, <1>2, ChangesMade DEF CfgSn, CfgName, CfgDhcp, Cfg485
<1>4. \A h \in CfgIp : Handler(h)
  <2>1. DOMAIN [ip |-> 1, sn |-> 1] = {"ip", "sn"}
    OBVIOUS
  <2> QED
    BY <1>2, <2>1, ChangesMade DEF CfgIp
<1>5. \A h \in CfgBtName : Handler(h)
  BY <1>1, <1>2, ChangesMade DEF CfgBtName
<1>6. \A h \in CfgApply : Handler(h)
  <2> DEFINE b == one("sn", 2)
  <2>1. "name" \notin DOMAIN b /\ DOMAIN b \subseteq Conf
    BY <1>1, <1>2
  <2> HIDE DEF b
  <2>2. Handler(Change(b) \o SaveAnyway("config") \o Flag("config"))
    BY <2>1, ChangesMade
  <2> QED
    BY <2>2 DEF CfgApply, b
<1>7. \A h \in CfgReset : Handler(h)
  <2> DEFINE b == [r \in Conf |-> Defaults[r]]
  <2>1. DOMAIN b = Conf /\ b["name"] = Defaults["name"]
    BY <1>2
  <2> HIDE DEF b
  <2>2. Handler(Change(b) \o SaveAnyway("config") \o Flag("config"))
    BY <2>1, ChangesMade
  <2> QED
    BY <2>2 DEF CfgReset, b
<1>8. \A h \in CfgWrite : Handler(h)
  BY <1>1, <1>2, ChangesMade DEF CfgWrite
<1>9. \A h \in CfgRead \union CfgInfo : Handler(h)
  BY ReadsMade DEF CfgRead, CfgInfo
<1> QED
  BY <1>3, <1>4, <1>5, <1>6, <1>7, <1>8, <1>9 DEF AtCommands

LEMMA PagesMade == \A h \in WebRequests : Handler(h)
<1>1. \A r \in Conf : \A v : DOMAIN one(r, v) = {r}
  BY DEF one
<1>2. "sn" \in Conf /\ "ip" \in Conf /\ "name" \in Conf
  BY DEF Conf
<1>3. \A h \in WebReads : Handler(h)
  BY ReadsMade DEF WebReads, GetSystemInfo, GetNetwork, GetPort, GetBle, GetSensor, GetIoData
<1>4. \A h \in UpdateSystemInfo \union UpdatePort \union UpdateBle : Handler(h)
  BY <1>1, <1>2, ChangesMade DEF UpdateSystemInfo, UpdatePort, UpdateBle
<1>5. \A h \in UpdateNetwork : Handler(h)
  <2>1. DOMAIN [ip |-> 1, sn |-> 1] = {"ip", "sn"} /\ DOMAIN [ip |-> 0, name |-> 2] = {"ip", "name"}
    OBVIOUS
  <2> QED
    BY <1>2, <2>1, ChangesMade DEF UpdateNetwork
<1>6. \A h \in UpdateSensor : Handler(h)
  <2>1. DOMAIN one("range", 2) \subseteq Holding \ {"rawname", "protect"}
    BY DEF one, Holding
  <2>2. Does(Modify(one("range", 2)), {"modify"})
    BY <2>1, OneStep DEF Modify
  <2>3. Does(Modify(one("range", 2)) \o Flag("holding"), {"modify"} \union {"mark"})
    BY <2>2, Steps, Then
  <2> QED
    BY <2>3, Quiet DEF UpdateSensor
<1> QED
  BY <1>3, <1>4, <1>5, <1>6 DEF WebRequests

LEMMA HandlersMade == \A c \in Clients : \A h \in HandlersOf[c] : Handler(h)
<1>1. \A b \in Requests : Writable(b)
  BY RequestsAssumption DEF Writable
<1>2. \A h \in ModbusFrames : Handler(h)
  BY <1>1, WritesMade, ReadsMade DEF ModbusFrames, ModbusWrites, ModbusReads
<1>3. \A h \in HandheldReads : Handler(h)
  BY ReadsMade DEF HandheldReads, ReadText, HandheldIdentity, HandheldPassOn, CustomRead,
    RetrieveDevices, RetrievePort
<1>4. \A c \in Clients : HandlersOf[c] \subseteq
        HandheldFrames \union HandheldReads \union AtCommands \union ModbusFrames \union WebRequests
  BY TasksAssumption DEF HandlersOf
<1> QED
  BY <1>2, <1>3, <1>4, FramesMade, CommandsMade, PagesMade

(* What is left of a handler is made like one.                                 *)
LEMMA TailFacts ==
  ASSUME NEW s, Ordered(s), s # <<>>
  PROVE  /\ \E S : Tail(s) \in Seq(S)
         /\ 1 \in DOMAIN s /\ Head(s) = s[1]
         /\ \A i \in DOMAIN Tail(s) : i + 1 \in DOMAIN s /\ i \in Nat \ {0} /\ Tail(s)[i] = s[i + 1]
         /\ \A i \in DOMAIN s : i \in Nat /\ (i = 1 \/ (i > 1 /\ i - 1 \in DOMAIN Tail(s) /\ Tail(s)[i - 1] = s[i]))
         /\ Range(s) = {Head(s)} \union Range(Tail(s))
         /\ \A y \in Range(Tail(s)) : MayFollow(Head(s), y)
<1>1. PICK S : s \in Seq(S)
  BY DEF Ordered
<1>2. /\ Tail(s) \in Seq(S) /\ Len(s) \in Nat /\ Len(s) > 0 /\ DOMAIN s = 1 .. Len(s)
      /\ DOMAIN Tail(s) = 1 .. Len(s) - 1
  BY <1>1
<1>3. 1 \in DOMAIN s /\ Head(s) = s[1]
  BY <1>1, <1>2
<1>4. \A i \in DOMAIN Tail(s) : i + 1 \in DOMAIN s /\ i \in Nat \ {0} /\ Tail(s)[i] = s[i + 1]
  BY <1>1, <1>2
<1>5. \A i \in DOMAIN s : i \in Nat /\ (i = 1 \/ (i > 1 /\ i - 1 \in DOMAIN Tail(s) /\ Tail(s)[i - 1] = s[i]))
  BY <1>1, <1>2
<1>6. Range(s) = {Head(s)} \union Range(Tail(s))
  <2>1. \A x \in Range(s) : x \in {Head(s)} \union Range(Tail(s))
    BY <1>3, <1>5 DEF Range
  <2>2. \A x \in Range(Tail(s)) : x \in Range(s)
    BY <1>4 DEF Range
  <2>3. Head(s) \in Range(s)
    BY <1>3 DEF Range
  <2> QED
    BY <2>1, <2>2, <2>3
<1>7. \A y \in Range(Tail(s)) : MayFollow(Head(s), y)
  <2> SUFFICES ASSUME NEW i \in DOMAIN Tail(s)
               PROVE  MayFollow(Head(s), Tail(s)[i])
    BY DEF Range
  <2>1. i + 1 \in DOMAIN s /\ Tail(s)[i] = s[i + 1] /\ 1 < i + 1
    BY <1>4
  <2> QED
    BY <1>3, <2>1 DEF Ordered
<1> QED
  BY <1>2, <1>3, <1>4, <1>5, <1>6, <1>7

LEMMA TailMade ==
  ASSUME NEW s, Made(s), s # <<>>
  PROVE  Made(Tail(s))
<1> DEFINE t == Tail(s)
<1>0. Ordered(s)
  BY DEF Made
<1>1. /\ \E S : t \in Seq(S)
      /\ \A i \in DOMAIN t : i + 1 \in DOMAIN s /\ i \in Nat \ {0} /\ t[i] = s[i + 1]
  BY <1>0, TailFacts
<1>2. Range(s) = {Head(s)} \union Range(t) /\ \A y \in Range(t) : MayFollow(Head(s), y)
  BY <1>0, TailFacts
<1> HIDE DEF t
<1>3. Ordered(t)
  <2>1. \A i \in DOMAIN t : Call(t[i])
    BY <1>0, <1>1 DEF Ordered
  <2>2. ASSUME NEW i \in DOMAIN t, NEW j \in DOMAIN t, i < j
        PROVE  MayFollow(t[i], t[j])
    <3>1. i + 1 \in DOMAIN s /\ j + 1 \in DOMAIN s /\ i + 1 < j + 1
      BY <1>1, <2>2
    <3> QED
      BY <1>0, <1>1, <3>1 DEF Ordered
  <2> QED
    BY <1>1, <2>1, <2>2 DEF Ordered
<1>4. Named(t)
  <2>1. SUFFICES ASSUME NEW x \in Range(t), Renames(x)
                 PROVE  \E y \in Range(t) : y.do = "mirror"
    BY DEF Named
  <2>2. PICK y \in Range(s) : y.do = "mirror"
    BY <1>2, <2>1 DEF Made, Named
  <2>3. y # Head(s)
    BY <1>2, <2>1, <2>2 DEF MayFollow, Renames
  <2> QED
    BY <1>2, <2>2, <2>3
<1> QED
  BY <1>3, <1>4 DEF Made, t

LEMMA OtherwiseMade ==
  ASSUME NEW s, Made(s), s # <<>>
  PROVE  Made(Head(s).or)
<1>1. Head(s).or \in {Nothing, Disarm}
  BY TailFacts DEF Made, Ordered, Call
<1>2. Does(Disarm, {"disarm"})
  BY Steps
<1>3. Does(Nothing, {"disarm"})
  BY Empty DEF Does, Nothing
<1> QED
  BY <1>1, <1>2, <1>3, Quiet DEF Handler

LEMMA MarksAfterDoes == \A b : Does(MarksAfter(b), {"mark"})
<1> SUFFICES ASSUME NEW b PROVE Does(MarksAfter(b), {"mark"})
  OBVIOUS
<1>1. \A i : Does(Flag(i), {"mark"})
  BY Steps
<1>2. Does(Nothing, {"mark"})
  BY Empty DEF Does, Nothing
<1>3. \A u, v : Does(u, {"mark"}) /\ Does(v, {"mark"}) => Does(u \o v, {"mark"})
  <2>1. ASSUME NEW u, NEW v, Does(u, {"mark"}), Does(v, {"mark"})
        PROVE  Does(u \o v, {"mark"} \union {"mark"})
    BY <2>1, Then
  <2>2. {"mark"} \union {"mark"} = {"mark"}
    OBVIOUS
  <2> QED
    BY <2>1, <2>2
<1>4. Does(ConfigMarks(b), {"mark"})
  <2>1. /\ Does(IF DOMAIN b \cap Conf # {} THEN Flag("config") ELSE Nothing, {"mark"})
        /\ Does(IF "name" \in DOMAIN b THEN Flag("holding") ELSE Nothing, {"mark"})
    BY <1>1, <1>2
  <2> QED
    BY <1>3, <2>1 DEF ConfigMarks
<1> QED
  BY <1>1, <1>2, <1>4 DEF MarksAfter

LEMMA MarksMade ==
  ASSUME NEW s, NEW b, Made(s), s # <<>>
  PROVE  Made(MarksAfter(b) \o Tail(s))
         /\ Range(MarksAfter(b) \o Tail(s)) = Range(MarksAfter(b)) \union Range(Tail(s))
<1>1. Made(Tail(s)) /\ Ordered(Tail(s))
  BY TailMade DEF Made
<1>2. Ordered(MarksAfter(b)) /\ \A x \in Range(MarksAfter(b)) : x.do = "mark"
  BY MarksAfterDoes DEF Does
<1>3. \A x \in Range(MarksAfter(b)), y \in Range(Tail(s)) : MayFollow(x, y)
  BY <1>2 DEF MayFollow
<1>4. /\ Ordered(MarksAfter(b) \o Tail(s))
      /\ Range(MarksAfter(b) \o Tail(s)) = Range(MarksAfter(b)) \union Range(Tail(s))
  BY <1>1, <1>2, <1>3, Joined
<1> QED
  BY <1>1, <1>2, <1>4 DEF Made, Named, Renames

LEMMA MadeKept ==
  ASSUME WriterHolds, \A c \in Clients : Made(todo[c]), [Next]_vars
  PROVE  \A c \in Clients : Made(todo'[c])
<1>0. todo = [d \in Clients |-> todo[d]]
  BY DEF WriterHolds
<1>1. ASSUME NEW c \in Clients, NEW s, Made(s), todo' = [todo EXCEPT ![c] = s]
      PROVE  \A d \in Clients : Made(todo'[d])
  BY <1>0, <1>1
<1>2. ASSUME NEW c \in Clients, Begun(c)
      PROVE  \A d \in Clients : Made(todo'[d])
  BY <1>1, <1>2, HandlersMade DEF Begun, Handler
<1>3. ASSUME NEW c \in Clients, Done(c), todo[c] # Nothing
      PROVE  \A d \in Clients : Made(todo'[d])
  BY <1>1, <1>3, TailMade DEF Done, Nothing
<1>4. ASSUME NEW c \in Clients, Refused(c), todo[c] # Nothing
      PROVE  \A d \in Clients : Made(todo'[d])
  BY <1>1, <1>4, OtherwiseMade DEF Refused, Nothing
<1>5. ASSUME NEW c \in Clients, Publish(c)
      PROVE  \A d \in Clients : Made(todo'[d])
  <2>1. lock = c /\ todo' = [todo EXCEPT ![c] = MarksAfter(Arg(c)) \o Tail(todo[c])]
    BY <1>0, <1>5 DEF Publish
  <2>2. todo[c] # <<>>
    BY <2>1, ClientsAssumption DEF WriterHolds, Doing, Nothing
  <2> QED
    BY <1>1, <2>1, <2>2, MarksMade
<1>6. ASSUME NEW c \in Clients, CallStep(c)
      PROVE  \A d \in Clients : Made(todo'[d])
  <2>1. CASE Lock(c)
    BY <2>1 DEF Lock
  <2>2. CASE Refuse(c)
    <3>1. Refused(c) /\ todo[c] # Nothing
      BY <2>2, ClientsAssumption DEF Refuse, WriterHolds, Doing
    <3> QED
      BY <1>4, <3>1
  <2>3. CASE SaveFails(c)
    BY <1>4, <2>3 DEF SaveFails, Due, Doing
  <2>4. CASE ArmLogicWrite(c) \/ DisarmLogicWrite(c) \/ ChangeConfig(c) \/ ModifyHolding(c)
             \/ Mirror(c) \/ Mark(c) \/ SaveNow(c) \/ NothingToSave(c) \/ Answer(c)
    <3>1. Done(c) /\ todo[c] # Nothing
      BY <2>4 DEF ArmLogicWrite, DisarmLogicWrite, ChangeConfig, ModifyHolding, Mirror, Mark,
        SaveNow, NothingToSave, Answer, Due, Doing
    <3> QED
      BY <1>3, <3>1
  <2> QED
    BY <1>5, <1>6, <2>1, <2>2, <2>3, <2>4 DEF CallStep
<1>7. ASSUME NEW c \in Clients, ReadStep(c)
      PROVE  \A d \in Clients : Made(todo'[d])
  <2>1. Done(c) /\ todo[c] # Nothing
    BY <1>7 DEF ReadStep, See, Answered, Doing
  <2> QED
    BY <1>3, <2>1
<1>8. CASE UNCHANGED todo
  BY <1>8
<1>9. CASE Saving \/ Calibrate \/ Posting \/ Tagging \/ Imaging \/ UNCHANGED vars
  BY <1>8, <1>9 DEF Saving, IdleSave, Calibrate, Posting, Post, Tagging, NfcStep, Open, CopyRegisters,
    SkipBackup, WriteTag, WriteTagFails, RestoreRegisters, Restored, RestoreRejected, Examine,
    Imaging, vars, regVars, writers
<1>10. CASE Restart
  <2>1. Made(Nothing)
    BY Empty DEF Made, Named, Nothing
  <2> QED
    BY <1>10, <2>1 DEF Restart, RegRestart
<1> QED
  BY <1>2, <1>6, <1>7, <1>9, <1>10 DEF Next, Called

-----------------------------------------------------------------------------
(* The flags that are owed                                                  *)

OwedBy(s) ==
  {s[i].image : i \in {i \in DOMAIN s :
     s[i].do \in Flagging /\ \A j \in 1..i : s[j].do \notin Changing}}

LEMMA OwedIs == \A c : Owed(c) = OwedBy(todo[c])
BY DEF Owed, OwedBy, Flagging, Changing

LEMMA OwesNothing == OwedBy(Nothing) = {} /\ OwedBy(Disarm) = {}
<1>1. \A i : i \notin DOMAIN Nothing
  BY DEF Nothing
<1>2. Does(Disarm, {"disarm"})
  BY Steps
<1>3. \A i \in DOMAIN Disarm : Disarm[i].do = "disarm"
  BY <1>2 DEF Does, Range
<1> QED
  BY <1>1, <1>3 DEF OwedBy, Flagging

LEMMA OwedFacts ==
  ASSUME NEW s, Made(s), s # <<>>
  PROVE  /\ Head(s).do \in Changing \union {"save"} => OwedBy(s) = {}
         /\ Head(s).do = "force" => OwedBy(s) \subseteq {"config"}
         /\ OwedBy(s) \subseteq (IF Head(s).do \in Flagging THEN {Head(s).image} ELSE {}) \union OwedBy(Tail(s))
         /\ Head(s).do = "change" =>
              \A x \in Range(Tail(s)) : x.do \in Flagging /\ x.image \in OwedBy(Tail(s))
         /\ OwedBy(Head(s).or) = {}
<1> DEFINE t == Tail(s)
<1>0. Ordered(s) /\ Ordered(t)
  BY TailMade DEF Made
<1>1. /\ 1 \in DOMAIN s /\ Head(s) = s[1]
      /\ \A i \in DOMAIN t : i + 1 \in DOMAIN s /\ i \in Nat \ {0} /\ t[i] = s[i + 1]
      /\ \A i \in DOMAIN s : i \in Nat /\ (i = 1 \/ (i > 1 /\ i - 1 \in DOMAIN t /\ t[i - 1] = s[i]))
      /\ \A y \in Range(t) : MayFollow(Head(s), y)
  BY <1>0, TailFacts
<1> HIDE DEF t
<1>2. Call(Head(s)) /\ \A i \in DOMAIN t : MayFollow(Head(s), t[i])
  BY <1>0, <1>1 DEF Ordered, Range
<1>3. ASSUME NEW i \in DOMAIN s, s[i].do \in Flagging, \A j \in 1..i : s[j].do \notin Changing
      PROVE  /\ Head(s).do \notin Changing \union {"save"}
             /\ Head(s).do = "force" => s[i].image = "config"
             /\ s[i].image \in (IF Head(s).do \in Flagging THEN {Head(s).image} ELSE {}) \union OwedBy(t)
  <2>1. i \in Nat /\ i >= 1 /\ Head(s).do \notin Changing
    BY <1>1, <1>3
  <2>2. CASE i = 1
    BY <1>1, <1>2, <1>3, <2>1, <2>2 DEF Call, Flagging
  <2>3. CASE i > 1 /\ i - 1 \in DOMAIN t /\ t[i - 1] = s[i]
    <3>1. \A j \in 1 .. i - 1 : j + 1 \in 1 .. i /\ j \in DOMAIN t /\ t[j] = s[j + 1]
      <4>1. \E S : t \in Seq(S)
        BY <1>0 DEF Ordered
      <4>2. i - 1 \in 1 .. Len(t) /\ DOMAIN t = 1 .. Len(t) /\ Len(t) \in Nat
        BY <2>3, <4>1
      <4> QED
        BY <1>1, <2>1, <4>2
    <3>2. s[i].image \in OwedBy(t)
      BY <1>3, <2>3, <3>1 DEF OwedBy
    <3> QED
      BY <1>2, <1>3, <2>1, <2>3, <3>2 DEF MayFollow
  <2> QED
    BY <1>1, <2>2, <2>3
<1>4. Head(s).do = "change" =>
        \A x \in Range(t) : x.do \in Flagging /\ x.image \in OwedBy(t)
  <2> SUFFICES ASSUME Head(s).do = "change", NEW i \in DOMAIN t
               PROVE  t[i].do \in Flagging /\ t[i].image \in OwedBy(t)
    BY DEF Range
  <2>1. \A j \in DOMAIN t : t[j].do \in Flagging
    BY <1>2 DEF MayFollow
  <2>2. \A j \in 1 .. i : j \in DOMAIN t
    <3>1. \E S : t \in Seq(S)
      BY <1>0 DEF Ordered
    <3> QED
      BY <3>1
  <2>3. \A j \in 1 .. i : t[j].do \notin Changing
    BY <2>1, <2>2 DEF Flagging, Changing
  <2> QED
    BY <2>1, <2>3 DEF OwedBy
<1>5. OwedBy(Head(s).or) = {}
  BY <1>2, OwesNothing DEF Call
<1>6. \A img \in OwedBy(s) : \E i \in DOMAIN s :
        img = s[i].image /\ s[i].do \in Flagging /\ \A j \in 1..i : s[j].do \notin Changing
  BY DEF OwedBy
<1> QED
  BY <1>3, <1>4, <1>5, <1>6 DEF t

(* What a handler flags at once, and what it goes on with                      *)
LEMMA OwedFirst ==
  ASSUME NEW s, NEW t, Does(s, {"mark"}), Ordered(t)
  PROVE  \A x \in Range(s) : x.image \in OwedBy(s \o t)
<1> SUFFICES ASSUME NEW i \in DOMAIN s
             PROVE  s[i].image \in OwedBy(s \o t)
  BY DEF Range
<1>1. PICK S : s \in Seq(S)
  BY DEF Does, Ordered
<1>2. PICK T : t \in Seq(T)
  BY DEF Ordered
<1>3. s \in Seq(S \union T) /\ t \in Seq(S \union T)
  BY <1>1, <1>2
<1>4. /\ \A j \in DOMAIN s : j \in DOMAIN (s \o t) /\ (s \o t)[j] = s[j] /\ s[j].do = "mark"
      /\ \A j \in 1 .. i : j \in DOMAIN s
  BY <1>3 DEF Does, Range
<1>5. (s \o t)[i].do \in Flagging /\ \A j \in 1 .. i : (s \o t)[j].do \notin Changing
  BY <1>4 DEF Flagging, Changing
<1> QED
  BY <1>4, <1>5 DEF OwedBy

-----------------------------------------------------------------------------
(* What is written and not yet saved                                          *)

IsMarked(img) == img \in dirty \/ \E c \in Clients : img \in OwedBy(todo[c])
TagMarked == "nfc" \in dirty \/ \E c \in Clients : "holding" \in OwedBy(todo[c])

Registered ==
  /\ promised \subseteq Regs \ {"protect"}
  /\ reg = [r \in Regs |-> reg[r]] /\ flash = [r \in Regs |-> flash[r]]

Sound == WriterHolds /\ Registered /\ \A c \in Clients : Made(todo[c])

(* A step that saves nothing: the flags stay up, and the new owner of what was       *)
(* changed has raised its flag, or owes it.                                    *)
Keeping ==
  /\ flash' = flash /\ dirty \subseteq dirty' /\ Registered'
  /\ \A c \in Clients :
       /\ OwedBy(todo[c]) \subseteq dirty' \union OwedBy(todo'[c])
       /\ "holding" \in OwedBy(todo[c]) => "nfc" \in dirty' \/ "holding" \in OwedBy(todo'[c])
  /\ \A r \in promised' :
       \/ r \in promised /\ reg'[r] = reg[r]
       \/ IsMarked(ImageOf(r))' /\ (r \in Holding => TagMarked')

LEMMA Places ==
  /\ \A r \in Conf : ImageOf(r) = "config" /\ r \notin Holding
  /\ \A r \in Holding : ImageOf(r) = "holding"
  /\ ImageOf("text") = "text" /\ ImageOf("control") = "legacy"
  /\ \A r \in Regs : ImageOf(r) \in Images /\ (r \in Holding => ImageOf(r) = "holding")
  /\ InTag \subseteq Holding \ {"protect"} /\ Holding \subseteq Regs /\ Conf \subseteq Regs \ {"protect"}
  /\ "nfc" \notin Images
<1>1. \A r \in Conf : ImageOf(r) = "config" /\ r \notin Holding
  BY DEF ImageOf, Conf, Holding, Logic, Text, Legacy
<1>2. \A r \in Holding : ImageOf(r) = "holding"
  BY DEF ImageOf, Conf, Holding, Logic, Text, Legacy
<1>3. ImageOf("text") = "text" /\ ImageOf("control") = "legacy"
  BY DEF ImageOf, Conf, Holding, Logic, Text, Legacy
<1>4. \A r \in Regs : ImageOf(r) \in Images
  BY <1>1, <1>2, <1>3 DEF Regs, Text, Legacy, Images
<1>5. /\ InTag \subseteq Holding \ {"protect"} /\ Holding \subseteq Regs
      /\ Conf \subseteq Regs \ {"protect"} /\ "nfc" \notin Images
  BY DEF InTag, Holding, Logic, Conf, Regs, Images
<1> QED
  BY <1>1, <1>2, <1>3, <1>4, <1>5

(* What a write by address marks                                              *)
LEMMA FlagMarks == \A i : \E x \in Range(Flag(i)) : x.image = i
<1> SUFFICES ASSUME NEW i PROVE \E x \in Range(Flag(i)) : x.image = i
  OBVIOUS
<1> DEFINE x == [do |-> "mark", regs |-> Nothing, image |-> i, or |-> Nothing]
<1>1. x.image = i
  OBVIOUS
<1>2. Range(Flag(i)) = {x}
  BY OneStep DEF Flag
<1> HIDE DEF x
<1> QED
  BY <1>1, <1>2

LEMMA ConfigMarked ==
  ASSUME NEW b
  PROVE  /\ DOMAIN b \cap Conf # {} => \E x \in Range(ConfigMarks(b)) : x.image = "config"
         /\ "name" \in DOMAIN b => \E x \in Range(ConfigMarks(b)) : x.image = "holding"
<1> DEFINE u == IF DOMAIN b \cap Conf # {} THEN Flag("config") ELSE Nothing
           v == IF "name" \in DOMAIN b THEN Flag("holding") ELSE Nothing
<1>1. \A i : Does(Flag(i), {"mark"})
  BY Steps
<1>2. Does(Nothing, {"mark"})
  BY Empty DEF Does, Nothing
<1>3. Does(u, {"mark"}) /\ Does(v, {"mark"})
  BY <1>1, <1>2
<1>4. /\ DOMAIN b \cap Conf # {} => \E x \in Range(u) : x.image = "config"
      /\ "name" \in DOMAIN b => \E x \in Range(v) : x.image = "holding"
  BY FlagMarks
<1> HIDE DEF u, v
<1>5. \A x \in Range(u), y \in Range(v) : MayFollow(x, y)
  BY <1>3 DEF Does, MayFollow
<1>6. Range(u \o v) = Range(u) \union Range(v)
  BY <1>3, <1>5, Joined DEF Does
<1>7. Range(ConfigMarks(b)) = Range(u) \union Range(v)
  BY <1>6 DEF ConfigMarks, u, v
<1> QED
  BY <1>4, <1>7

LEMMA FreshMarked ==
  ASSUME NEW b, Writable(b), NEW r \in Lasting(b) \union Mirrored(b)
  PROVE  /\ r \in Regs \ {"protect"}
         /\ ImageOf(r) \in MarksInside(b) \/ \E x \in Range(MarksAfter(b)) : x.image = ImageOf(r)
<1>1. CASE DOMAIN b \subseteq Text
  <2>1. r = "text" /\ MarksAfter(b) = Flag("text")
    BY <1>1 DEF Lasting, Mirrored, Text, MarksAfter
  <2> QED
    BY <2>1, FlagMarks, Places DEF Regs, Text
<1>2. CASE ~(DOMAIN b \subseteq Text)
  <2>1. /\ DOMAIN b \subseteq Regs \ {"rawname"} /\ "text" \notin DOMAIN b
    BY <1>2, TasksAssumption DEF Writable, Text, Area, Regs, Conf, Holding, Logic, Legacy
  <2>2. \A img : (\E x \in Range(ConfigMarks(b)) : x.image = img) =>
          img \in MarksInside(b) \/ \E x \in Range(MarksAfter(b)) : x.image = img
    <3>1. CASE Single(b)
      BY <3>1 DEF MarksInside
    <3>2. CASE ~Single(b)
      BY <1>2, <3>2 DEF MarksAfter
    <3> QED
      BY <3>1, <3>2
  <2>3. CASE r \in Mirrored(b)
    <3>1. "name" \in DOMAIN b /\ r = "rawname"
      BY <2>3 DEF Mirrored
    <3>2. r \in Holding /\ r \in Regs /\ r # "protect"
      BY <3>1 DEF Holding, Regs
    <3> QED
      BY <2>2, <3>1, <3>2, ConfigMarked, Places
  <2>4. CASE r \in Lasting(b)
    <3>1. r \in DOMAIN b /\ r \in Regs /\ r \notin {"range", "protect", "text", "rawname"} /\ (r \in Logic => commit)
      BY <2>1, <2>4 DEF Lasting
    <3>2. CASE r \in Conf
      BY <2>2, <3>1, <3>2, ConfigMarked, Places
    <3>3. CASE r \in Logic
      <4>1. r \in Holding
        BY <3>3 DEF Holding
      <4>2. "holding" \in MarksInside(b)
        BY <3>1, <3>3 DEF MarksInside, LogicMarks
      <4> QED
        BY <3>1, <4>1, <4>2, Places
    <3>4. CASE r \in Legacy \union {"user", "mcast"}
      <4>1. ImageOf(r) \in MarksInside(b)
        BY <3>1, <3>4 DEF MarksInside
      <4> QED
        BY <3>1, <4>1
    <3> QED
      BY <3>1, <3>2, <3>3, <3>4 DEF Regs, Holding, Text
  <2> QED
    BY <2>3, <2>4
<1> QED
  BY <1>1, <1>2

(* The steps that save nothing                                                *)
LEMMA Unmoved ==
  ASSUME Sound, UNCHANGED <<reg, flash, promised, dirty, todo>>
  PROVE  Keeping
BY DEF Sound, Keeping, Registered

LEMMA Moved ==
  ASSUME Sound, flash' = flash, dirty \subseteq dirty', Registered', NEW c \in Clients, NEW s,
         todo' = [todo EXCEPT ![c] = s],
         OwedBy(todo[c]) \subseteq dirty' \union OwedBy(s),
         "holding" \in OwedBy(todo[c]) => "nfc" \in dirty' \/ "holding" \in OwedBy(s),
         \A r \in promised' : \/ r \in promised /\ reg'[r] = reg[r]
                              \/ /\ ImageOf(r) \in dirty' \union OwedBy(s)
                                 /\ r \in Holding => "nfc" \in dirty' \/ "holding" \in OwedBy(s)
  PROVE  Keeping
<1>1. todo'[c] = s /\ \A d \in Clients \ {c} : todo'[d] = todo[d]
  BY DEF Sound, WriterHolds
<1>2. \A d \in Clients :
       /\ OwedBy(todo[d]) \subseteq dirty' \union OwedBy(todo'[d])
       /\ "holding" \in OwedBy(todo[d]) => "nfc" \in dirty' \/ "holding" \in OwedBy(todo'[d])
  BY <1>1
<1>3. \A r \in promised' :
       \/ r \in promised /\ reg'[r] = reg[r]
       \/ IsMarked(ImageOf(r))' /\ (r \in Holding => TagMarked')
  BY <1>1 DEF IsMarked, TagMarked
<1> QED
  BY <1>2, <1>3 DEF Keeping

LEMMA Passing ==
  ASSUME Sound, NEW c \in Clients, todo[c] # Nothing, Done(c), Head(todo[c]).do \notin Flagging,
         UNCHANGED <<reg, flash, promised, dirty>>
  PROVE  Keeping
<1>1. todo' = [todo EXCEPT ![c] = Tail(todo[c])]
  BY DEF Done, Sound, WriterHolds
<1>2. OwedBy(todo[c]) \subseteq OwedBy(Tail(todo[c]))
  BY OwedFacts DEF Sound, Nothing
<1>3. Registered'
  BY DEF Sound, Registered
<1> QED
  BY <1>1, <1>2, <1>3, Moved DEF Sound, Registered

LEMMA BegunKeeps ==
  ASSUME Sound, NEW c \in Clients, Begun(c)
  PROVE  Keeping
<1>1. PICK s : todo' = [todo EXCEPT ![c] = s]
  BY DEF Begun
<1>2. OwedBy(todo[c]) = {}
  BY OwesNothing DEF Begun
<1>3. UNCHANGED <<reg, flash, promised, dirty>>
  BY DEF Begun, registers
<1>4. Registered'
  BY <1>3 DEF Sound, Registered
<1> QED
  BY <1>1, <1>2, <1>3, <1>4, Moved

LEMMA RefuseKeeps ==
  ASSUME Sound, NEW c \in Clients, Refuse(c)
  PROVE  Keeping
<1>1. /\ todo' = [todo EXCEPT ![c] = Head(todo[c]).or] /\ UNCHANGED <<reg, flash, promised, dirty>>
      /\ Doing(c, "write") /\ todo[c] # <<>>
  BY ClientsAssumption DEF Refuse, Refused, Sound, WriterHolds, registers, Doing, Nothing
<1>2. OwedBy(todo[c]) = {}
  BY <1>1, OwedFacts DEF Sound, Doing, Changing
<1>3. Registered'
  BY <1>1 DEF Sound, Registered
<1> QED
  BY <1>1, <1>2, <1>3, Moved

LEMMA PublishKeeps ==
  ASSUME Sound, NEW c \in Clients, Publish(c)
  PROVE  Keeping
<1> DEFINE b == Arg(c)
           s == MarksAfter(b) \o Tail(todo[c])
<1>1. /\ lock = c /\ Doing(c, "write") /\ todo[c] # <<>>
      /\ todo' = [todo EXCEPT ![c] = s] /\ UNCHANGED flash
  BY ClientsAssumption DEF Publish, Sound, WriterHolds, Doing, Nothing
<1>2. Made(todo[c])
  BY DEF Sound
<1>3. Writable(b)
  BY <1>1, <1>2, TailFacts DEF Made, Ordered, Call, Doing, Arg
<1>4. OwedBy(todo[c]) = {}
  BY <1>1, <1>2, OwedFacts DEF Doing, Changing
<1>5. \A x \in Range(MarksAfter(b)) : x.image \in OwedBy(s)
  BY <1>1, <1>2, MarksAfterDoes, TailMade, OwedFirst DEF Made
<1>6. /\ dirty' = dirty \union WithTag(MarksInside(b))
      /\ promised' = (promised \ DOMAIN b) \union Lasting(b) \union Mirrored(b)
  BY DEF Publish
<1>7. MarksInside(b) \subseteq dirty' /\ ("holding" \in MarksInside(b) => "nfc" \in dirty')
  BY <1>6 DEF WithTag
<1>8. /\ reg' = [r \in Regs |-> reg'[r]]
      /\ \A r \in Regs \ {"protect"} : r \notin DOMAIN b /\ r \notin Mirrored(b) => reg'[r] = reg[r]
  BY DEF Publish, Written
<1>9. \A r \in Lasting(b) \union Mirrored(b) :
        /\ r \in Regs \ {"protect"}
        /\ ImageOf(r) \in MarksInside(b) \/ \E x \in Range(MarksAfter(b)) : x.image = ImageOf(r)
  BY <1>3, FreshMarked
<1>10. Registered'
  BY <1>1, <1>6, <1>8, <1>9 DEF Sound, Registered
<1> HIDE DEF b, s
<1>11. ASSUME NEW r \in promised'
       PROVE  \/ r \in promised /\ reg'[r] = reg[r]
              \/ /\ ImageOf(r) \in dirty' \union OwedBy(s)
                 /\ r \in Holding => "nfc" \in dirty' \/ "holding" \in OwedBy(s)
  <2>1. CASE r \in Lasting(b) \union Mirrored(b)
    <3>1. ImageOf(r) \in MarksInside(b) \/ ImageOf(r) \in OwedBy(s)
      BY <1>5, <1>9, <2>1
    <3>2. r \in Holding => ImageOf(r) = "holding"
      BY Places
    <3> QED
      BY <1>7, <3>1, <3>2
  <2>2. CASE r \in promised \ DOMAIN b /\ r \notin Mirrored(b)
    BY <1>8, <2>2 DEF Sound, Registered
  <2> QED
    BY <1>6, <1>11, <2>1, <2>2
<1> QED
  BY <1>1, <1>4, <1>6, <1>10, <1>11, Moved

LEMMA ChangeKeeps ==
  ASSUME Sound, NEW c \in Clients, ChangeConfig(c)
  PROVE  Keeping
<1> DEFINE b == Arg(c)
           t == Tail(todo[c])
           later == {x.image : x \in {x \in Range(todo[c]) : x.do \in {"mark", "force"}}}
<1>1. /\ Doing(c, "change") /\ todo[c] # <<>> /\ todo' = [todo EXCEPT ![c] = t]
      /\ UNCHANGED <<dirty, flash>> /\ reg' = Written(b)
  BY DEF ChangeConfig, Done, Doing, Sound, WriterHolds, registers, Nothing
<1>2. promised' = IF "config" \in later THEN promised \union DOMAIN b ELSE promised \ DOMAIN b
  BY DEF ChangeConfig
<1>3. Made(todo[c])
  BY DEF Sound
<1>4. DOMAIN b \subseteq Conf
  BY <1>1, <1>3, TailFacts DEF Made, Ordered, Call, Doing, Arg
<1>5. OwedBy(todo[c]) = {}
  BY <1>1, <1>3, OwedFacts DEF Doing, Changing
<1>6. "config" \in later => "config" \in OwedBy(t)
  <2>1. Range(todo[c]) = {Head(todo[c])} \union Range(t)
    BY <1>1, <1>3, TailFacts DEF Made
  <2>2. \A x \in Range(t) : x.image \in OwedBy(t)
    BY <1>1, <1>3, OwedFacts DEF Doing
  <2> QED
    BY <1>1, <2>1, <2>2 DEF Doing
<1>7. reg' = [r \in Regs |-> reg'[r]] /\ \A r \in Regs \ DOMAIN b : reg'[r] = reg[r]
  BY <1>1 DEF Written
<1> HIDE DEF b, t, later
<1>8. Registered'
  BY <1>1, <1>2, <1>4, <1>7, Places DEF Sound, Registered
<1>9. \A r \in promised' : \/ r \in promised /\ reg'[r] = reg[r]
                           \/ ImageOf(r) \in OwedBy(t) /\ r \notin Holding
  BY <1>2, <1>4, <1>6, <1>7, Places DEF Sound, Registered
<1> QED
  BY <1>1, <1>5, <1>8, <1>9, Moved

LEMMA ModifyKeeps ==
  ASSUME Sound, NEW c \in Clients, ModifyHolding(c)
  PROVE  Keeping
<1> DEFINE b == Arg(c)
           t == Tail(todo[c])
<1>1. /\ Doing(c, "modify") /\ todo[c] # <<>> /\ todo' = [todo EXCEPT ![c] = t]
      /\ UNCHANGED flash /\ reg' = Written(b) /\ dirty' = dirty \union {"holding", "nfc"}
      /\ promised' = promised \union DOMAIN b
  BY DEF ModifyHolding, Done, Doing, Sound, WriterHolds, Nothing
<1>2. DOMAIN b \subseteq Holding \ {"rawname", "protect"} /\ OwedBy(todo[c]) = {}
  <2>1. Made(todo[c])
    BY DEF Sound
  <2> QED
    BY <1>1, <2>1, TailFacts, OwedFacts DEF Made, Ordered, Call, Doing, Arg, Changing
<1>3. reg' = [r \in Regs |-> reg'[r]] /\ \A r \in Regs \ DOMAIN b : reg'[r] = reg[r]
  BY <1>1 DEF Written
<1> HIDE DEF b, t
<1>4. Registered'
  BY <1>1, <1>2, <1>3, Places DEF Sound, Registered
<1>5. \A r \in promised' : (r \in promised /\ reg'[r] = reg[r]) \/ ImageOf(r) \in dirty'
  BY <1>1, <1>2, <1>3, Places DEF Sound, Registered
<1> QED
  BY <1>1, <1>2, <1>4, <1>5, Moved

LEMMA MirrorKeeps ==
  ASSUME Sound, NEW c \in Clients, Mirror(c)
  PROVE  Keeping
<1> DEFINE t == Tail(todo[c])
<1>1. /\ Doing(c, "mirror") /\ todo[c] # <<>> /\ todo' = [todo EXCEPT ![c] = t]
      /\ UNCHANGED <<flash, promised>> /\ reg' = [reg EXCEPT !["rawname"] = reg["name"]]
      /\ dirty' = dirty \union {"holding", "nfc"}
  BY DEF Mirror, Done, Doing, Sound, WriterHolds, Nothing
<1>2. OwedBy(todo[c]) \subseteq {"holding"} \union OwedBy(t)
  <2>1. Made(todo[c])
    BY DEF Sound
  <2>2. OwedBy(todo[c]) \subseteq
          (IF Head(todo[c]).do \in Flagging THEN {Head(todo[c]).image} ELSE {}) \union OwedBy(t)
    BY <1>1, <2>1, OwedFacts
  <2>3. Ordered(todo[c]) /\ Head(todo[c]) = todo[c][1] /\ 1 \in DOMAIN todo[c]
    BY <1>1, <2>1, TailFacts DEF Made
  <2>4. Head(todo[c]).do = "mirror" /\ Call(Head(todo[c]))
    BY <1>1, <2>3 DEF Ordered, Doing
  <2>5. Head(todo[c]).image = "holding"
    BY <2>4 DEF Call
  <2> QED
    BY <2>2, <2>5
<1> HIDE DEF t
<1>3. Registered' /\ \A r \in Regs \ {"rawname"} : reg'[r] = reg[r]
  BY <1>1 DEF Sound, Registered
<1>4. ImageOf("rawname") = "holding"
  BY Places DEF Holding
<1>5. \A r \in promised' : (r \in promised /\ reg'[r] = reg[r]) \/ ImageOf(r) \in dirty'
  BY <1>1, <1>3, <1>4 DEF Sound, Registered
<1> QED
  BY <1>1, <1>2, <1>3, <1>5, Moved

LEMMA MarkKeeps ==
  ASSUME Sound, NEW c \in Clients, Mark(c)
  PROVE  Keeping
<1> DEFINE img == Head(todo[c]).image
           t == Tail(todo[c])
<1>1. /\ Doing(c, "mark") /\ todo[c] # <<>> /\ todo' = [todo EXCEPT ![c] = t]
      /\ UNCHANGED <<flash, reg>> /\ promised' = Keeps(img)
      /\ dirty' = dirty \union WithTag({img})
  BY DEF Mark, Done, Doing, Sound, WriterHolds, Nothing
<1>2. OwedBy(todo[c]) \subseteq {img} \union OwedBy(t)
  BY <1>1, OwedFacts DEF Sound, Doing
<1>3. img \in dirty' /\ (img = "holding" => "nfc" \in dirty') /\ dirty \subseteq dirty'
  BY <1>1 DEF WithTag
<1> HIDE DEF t, img
<1>4. Registered'
  BY <1>1, Places DEF Sound, Registered, Keeps
<1>5. \A r \in promised' : (r \in promised /\ reg'[r] = reg[r]) \/ (ImageOf(r) \in dirty' /\ r \notin Holding)
  BY <1>1, <1>3, Places DEF Keeps
<1> QED
  BY <1>1, <1>2, <1>3, <1>4, <1>5, Moved

LEMMA SaveFailsKeeps ==
  ASSUME Sound, NEW c \in Clients, SaveFails(c)
  PROVE  Keeping
<1> DEFINE img == Head(todo[c]).image
           t == Head(todo[c]).or
<1>1. /\ Doing(c, "save") \/ Doing(c, "force")
      /\ todo[c] # <<>> /\ todo' = [todo EXCEPT ![c] = t]
      /\ UNCHANGED <<flash, reg>> /\ promised' = Keeps(img)
      /\ dirty' = dirty \union {img}
  BY DEF SaveFails, Due, Refused, Doing, Sound, WriterHolds, Nothing
<1>2. OwedBy(todo[c]) \subseteq {img} /\ "holding" \notin OwedBy(todo[c])
  <2>1. Made(todo[c])
    BY DEF Sound
  <2>2. Doing(c, "force") => img = "config"
    BY <2>1, <1>1, TailFacts DEF Made, Ordered, Call, Doing
  <2> QED
    BY <1>1, <2>1, <2>2, OwedFacts DEF Doing
<1> HIDE DEF t, img
<1>4. Registered'
  BY <1>1, Places DEF Sound, Registered, Keeps
<1>5. \A r \in promised' : (r \in promised /\ reg'[r] = reg[r]) \/ (ImageOf(r) \in dirty' /\ r \notin Holding)
  BY <1>1, Places DEF Keeps
<1> QED
  BY <1>1, <1>2, <1>4, <1>5, Moved

LEMMA CalibrateKeeps ==
  ASSUME Sound, Calibrate
  PROVE  Keeping
<1>1. /\ UNCHANGED <<flash, todo>> /\ dirty' = dirty \union {"holding", "nfc"}
      /\ promised' = IF reg["range"] = 0 THEN promised \union {"range"} ELSE promised
      /\ reg' = [reg EXCEPT !["range"] = IF @ = 0 THEN 1 ELSE @]
  BY DEF Calibrate, writers
<1>2. ImageOf("range") = "holding" /\ "range" \in Regs \ {"protect"}
  BY Places DEF Holding, Regs
<1>3. Registered' /\ \A r \in Regs \ {"range"} : reg'[r] = reg[r]
  BY <1>1, <1>2 DEF Sound, Registered
<1>4. \A r \in promised' : (r \in promised /\ reg'[r] = reg[r]) \/ ImageOf(r) \in dirty'
  BY <1>1, <1>2, <1>3 DEF Sound, Registered
<1> QED
  BY <1>1, <1>3, <1>4 DEF Keeping, IsMarked, TagMarked

LEMMA RestoreKeeps ==
  ASSUME Sound, RestoreRegisters
  PROVE  Keeping
<1>1. /\ UNCHANGED <<flash, todo>> /\ dirty' = dirty \union {"holding", "nfc"}
      /\ promised' = promised \union InTag
      /\ reg' = [r \in Regs |-> IF r \in InTag THEN tag[r] ELSE reg[r]]
  BY DEF RestoreRegisters, writers
<1>2. Registered' /\ \A r \in Regs \ InTag : reg'[r] = reg[r]
  BY <1>1, Places DEF Sound, Registered
<1>3. \A r \in promised' : (r \in promised /\ reg'[r] = reg[r]) \/ ImageOf(r) \in dirty'
  BY <1>1, <1>2, Places DEF Sound, Registered
<1> QED
  BY <1>1, <1>2, <1>3 DEF Keeping, IsMarked, TagMarked

(* Every call but the save                                                    *)
LEMMA CallKeeps ==
  ASSUME Sound, NEW c \in Clients, CallStep(c), ~SaveNow(c)
  PROVE  Keeping
<1>1. CASE Lock(c)
  BY <1>1, Unmoved DEF Lock, registers
<1>2. CASE ArmLogicWrite(c) \/ DisarmLogicWrite(c) \/ NothingToSave(c) \/ Answer(c)
  <2>1. /\ Done(c) /\ todo[c] # Nothing /\ Head(todo[c]).do \notin Flagging
        /\ UNCHANGED <<reg, flash, promised, dirty>>
    BY <1>2 DEF ArmLogicWrite, DisarmLogicWrite, NothingToSave, Answer, Doing, registers, Flagging
  <2> QED
    BY <2>1, Passing
<1> QED
  BY <1>1, <1>2, RefuseKeeps, PublishKeeps, ChangeKeeps, ModifyKeeps, MirrorKeeps, MarkKeeps,
    SaveFailsKeeps DEF CallStep

LEMMA ReadKeeps ==
  ASSUME Sound, NEW c \in Clients, ReadStep(c)
  PROVE  Keeping
<1>1. /\ Done(c) /\ todo[c] # Nothing /\ Head(todo[c]).do \notin Flagging
      /\ UNCHANGED <<reg, flash, promised, dirty>>
  BY DEF ReadStep, See, Answered, Doing, registers, Flagging
<1> QED
  BY <1>1, Passing

-----------------------------------------------------------------------------
(* The flash                                                                *)

FlashMarked == \A r \in promised : reg[r] # flash[r] => IsMarked(ImageOf(r))

(* A save takes down the flag of its own image only.                           *)
Saves ==
  \E img \in Images :
    /\ flash' = Saved(img) /\ reg' = reg /\ dirty' = dirty \ {img}
    /\ promised' \subseteq Keeps(img) /\ Registered'
    /\ \A c \in Clients :
         /\ OwedBy(todo[c]) \subseteq {img} \union OwedBy(todo'[c])
         /\ "holding" \in OwedBy(todo[c]) => "holding" \in OwedBy(todo'[c])

LEMMA KeepsMarks ==
  ASSUME Keeping
  PROVE  (\A img : IsMarked(img) => IsMarked(img)') /\ (TagMarked => TagMarked')
BY DEF Keeping, IsMarked, TagMarked

LEMMA FlashOfKeeping ==
  ASSUME FlashMarked, Keeping
  PROVE  FlashMarked'
BY KeepsMarks DEF FlashMarked, Keeping

LEMMA FlashOfSaves ==
  ASSUME Sound, FlashMarked, Saves
  PROVE  FlashMarked'
<1>1. PICK img \in Images :
        /\ flash' = Saved(img) /\ reg' = reg /\ dirty' = dirty \ {img}
        /\ promised' \subseteq Keeps(img) /\ Registered'
        /\ \A c \in Clients : OwedBy(todo[c]) \subseteq {img} \union OwedBy(todo'[c])
  BY DEF Saves
<1>2. ASSUME NEW r \in promised', reg'[r] # flash'[r]
      PROVE  IsMarked(ImageOf(r))'
  <2>1. r \in Regs
    BY <1>1 DEF Registered
  <2>2. ImageOf(r) # img /\ flash'[r] = flash[r]
    BY <1>1, <1>2, <2>1 DEF Saved
  <2>3. r \in promised
    BY <1>1, <2>2, Places DEF Keeps
  <2>4. IsMarked(ImageOf(r))
    BY <1>1, <1>2, <2>2, <2>3 DEF FlashMarked
  <2> QED
    BY <1>1, <2>2, <2>4 DEF IsMarked
<1> QED
  BY <1>2 DEF FlashMarked

LEMMA SaveNowSaves ==
  ASSUME Sound, NEW c \in Clients, SaveNow(c)
  PROVE  Saves
<1> DEFINE img == Head(todo[c]).image
           t == Tail(todo[c])
<1>1. /\ Doing(c, "save") \/ Doing(c, "force")
      /\ todo[c] # <<>> /\ todo' = [todo EXCEPT ![c] = t]
      /\ reg' = reg /\ promised' = Keeps(img) /\ flash' = Saved(img)
      /\ dirty' = dirty \ {img}
  BY DEF SaveNow, Due, Done, Doing, Sound, WriterHolds, Nothing
<1>2. img \in Images /\ OwedBy(todo[c]) \subseteq {img} /\ "holding" \notin OwedBy(todo[c])
  <2>1. Made(todo[c])
    BY DEF Sound
  <2>2. (Doing(c, "force") => img = "config") /\ (Doing(c, "save") => img \in Images)
    BY <2>1, <1>1, TailFacts DEF Made, Ordered, Call, Doing
  <2> QED
    BY <1>1, <2>1, <2>2, OwedFacts DEF Doing, Images
<1> HIDE DEF t, img
<1>3. Registered'
  BY <1>1, Places DEF Sound, Registered, Keeps, Saved
<1>4. todo'[c] = t /\ \A d \in Clients \ {c} : todo'[d] = todo[d]
  BY <1>1 DEF Sound, WriterHolds
<1> QED
  BY <1>1, <1>2, <1>3, <1>4 DEF Saves

LEMMA IdleSaveSaves ==
  ASSUME Sound, IdleSave
  PROVE  Saves
<1>1. PICK img \in dirty \cap Images :
        /\ flash' = Saved(img) /\ dirty' = dirty \ {img}
        /\ UNCHANGED <<reg, armed, promised, writers, counts>>
  BY DEF IdleSave
<1>2. Registered' /\ UNCHANGED todo
  BY <1>1 DEF Sound, Registered, Saved, writers
<1> QED
  BY <1>1, <1>2 DEF Saves, Keeps

(* Every step is one of these, but those that take the flag of the tag down.      *)
LEMMA StepKeeps ==
  ASSUME Sound, [Next]_vars
  PROVE  Keeping \/ Saves \/ (Tagging /\ (Open \/ Restored)) \/ Restart
<1>1. ASSUME NEW c \in Clients, Begun(c) \/ Called(c)
      PROVE  Keeping \/ Saves
  BY <1>1, BegunKeeps, CallKeeps, ReadKeeps, SaveNowSaves DEF Called
<1>2. CASE Saving
  BY <1>2, IdleSaveSaves DEF Saving
<1>3. CASE Calibrate
  BY <1>3, CalibrateKeeps
<1>4. CASE Posting \/ Imaging \/ UNCHANGED vars
  <2>1. UNCHANGED <<reg, flash, promised, dirty, todo>>
    BY <1>4 DEF Posting, Post, Imaging, vars, regVars, registers, writers
  <2> QED
    BY <2>1, Unmoved
<1>5. CASE Tagging
  <2>1. CASE CopyRegisters \/ SkipBackup \/ WriteTag \/ RestoreRejected \/ Examine
    <3>1. UNCHANGED <<reg, flash, promised, dirty, todo>>
      BY <2>1 DEF CopyRegisters, SkipBackup, WriteTag, RestoreRejected, Examine, regVars, registers, writers
    <3> QED
      BY <3>1, Unmoved
  <2>2. CASE WriteTagFails
    <3>1. UNCHANGED <<reg, flash, promised, todo>> /\ dirty' = dirty \union {"nfc"}
      BY <2>2 DEF WriteTagFails, writers
    <3>2. Registered'
      BY <3>1 DEF Sound, Registered
    <3> QED
      BY <3>1, <3>2 DEF Keeping
  <2> QED
    BY <1>5, <2>1, <2>2, RestoreKeeps DEF Tagging, NfcStep
<1> QED
  BY <1>1, <1>2, <1>3, <1>4, <1>5 DEF Next

(* The flag of the tag is not one of an image.                                  *)
LEMMA TagFlagTaken ==
  ASSUME Sound, Open \/ Restored
  PROVE  /\ UNCHANGED <<reg, flash, promised, todo>> /\ Registered'
         /\ \A img \in Images : IsMarked(img) => IsMarked(img)'
<1>1. UNCHANGED <<reg, flash, promised, todo>> /\ dirty \ {"nfc"} \subseteq dirty'
  BY DEF Open, Restored, writers
<1> QED
  BY <1>1, Places DEF Sound, Registered, IsMarked

LEMMA RestartFacts ==
  ASSUME Sound, Restart
  PROVE  /\ Registered' /\ FlashMarked'
         /\ \A r \in Regs : reg'[r] = IF r = "rawname" THEN flash["name"] ELSE flash[r]
<1>1. /\ reg' = [flash EXCEPT !["rawname"] = flash["name"]] /\ UNCHANGED flash
      /\ dirty' = IF flash["rawname"] # flash["name"] THEN {"holding", "nfc"} ELSE {}
      /\ promised' = Regs \ {"protect"}
  BY DEF Restart, RegRestart
<1>2. flash = [r \in Regs |-> flash[r]] /\ "rawname" \in Regs
  BY DEF Sound, Registered, Regs, Holding
<1>3. \A r \in Regs : reg'[r] = IF r = "rawname" THEN flash["name"] ELSE flash[r]
  BY <1>1, <1>2
<1>4. Registered'
  BY <1>1, <1>2 DEF Registered
<1>5. ImageOf("rawname") = "holding"
  BY Places DEF Holding
<1>6. FlashMarked'
  BY <1>1, <1>3, <1>5 DEF FlashMarked, IsMarked
<1> QED
  BY <1>3, <1>4, <1>6

LEMMA SoundKept == Sound /\ Counted /\ [Next]_vars => Sound' /\ Counted'
<1> SUFFICES ASSUME Sound, Counted, [Next]_vars
             PROVE  Sound' /\ Counted'
  OBVIOUS
<1>1. Registered'
  BY StepKeeps, TagFlagTaken, RestartFacts DEF Keeping, Saves
<1> QED
  BY <1>1, PermissionsCounted, MadeKept DEF Sound

LEMMA FlashKept == Sound /\ FlashMarked /\ [Next]_vars => FlashMarked'
<1> SUFFICES ASSUME Sound, FlashMarked, [Next]_vars
             PROVE  FlashMarked'
  OBVIOUS
<1>1. CASE Open \/ Restored
  BY <1>1, TagFlagTaken, Places DEF FlashMarked, Sound, Registered
<1> QED
  BY <1>1, StepKeeps, FlashOfKeeping, FlashOfSaves, RestartFacts

-----------------------------------------------------------------------------
(* The tag                                                                  *)

TagKnown ==
  /\ tag = [r \in InTag |-> tag[r]] /\ copy = [r \in InTag |-> copy[r]]
  /\ follows => crc = tag
  /\ nfc = "restored" => ~follows
  /\ nfc = "write" => \A r \in promised \cap InTag : reg[r] # copy[r] => TagMarked
  /\ follows => \A r \in promised \cap InTag : reg[r] # tag[r] =>
       TagMarked \/ nfc = "copy" \/ (nfc = "write" /\ copy[r] = reg[r] /\ copy # crc)

LEMMA TagOfOthers ==
  ASSUME TagKnown, UNCHANGED nfcVars, TagMarked => TagMarked',
         \A r \in promised' \cap InTag : (r \in promised /\ reg'[r] = reg[r]) \/ TagMarked'
  PROVE  TagKnown'
BY DEF TagKnown, nfcVars

LEMMA TagOfTask ==
  ASSUME Sound, TagKnown, NfcStep
  PROVE  TagKnown'
<1>1. CASE Open
  <2>1. /\ UNCHANGED <<tag, crc, copy, follows, reg, promised, todo>> /\ nfc = "idle"
        /\ nfc' \in {"copy", "restore", "examine"} /\ (nfc' # "copy" => UNCHANGED dirty)
    BY <1>1 DEF Open, writers
  <2> QED
    BY <2>1 DEF TagKnown, TagMarked
<1>2. CASE CopyRegisters
  <2>1. /\ UNCHANGED <<tag, crc, follows, reg, promised, todo, dirty>> /\ nfc' = "write"
        /\ copy' = [r \in InTag |-> reg[r]]
    BY <1>2 DEF CopyRegisters, Ram, regVars, registers, writers
  <2> QED
    BY <2>1 DEF TagKnown, TagMarked
<1>3. CASE SkipBackup \/ WriteTag
  <2>1. /\ UNCHANGED <<copy, reg, promised, todo, dirty>> /\ nfc = "write" /\ nfc' = "idle"
        /\ crc' = copy /\ (follows' => tag' = copy) /\ (tag' = tag \/ tag' = copy)
    BY <1>3 DEF SkipBackup, WriteTag, NfcEnds, TagKnown, regVars, registers, writers
  <2> QED
    BY <2>1 DEF TagKnown, TagMarked
<1>4. CASE WriteTagFails
  <2>1. PICK written \in SUBSET InTag :
          /\ tag' = [r \in InTag |-> IF r \in written THEN copy[r] ELSE tag[r]]
          /\ follows' = (follows /\ written = {}) /\ nfc' = "idle"
          /\ "nfc" \in dirty' /\ UNCHANGED <<crc, copy, reg, promised, todo>>
    BY <1>4 DEF WriteTagFails, NfcEnds, writers
  <2> QED
    BY <2>1 DEF TagKnown, TagMarked
<1>5. CASE RestoreRegisters
  BY <1>5 DEF RestoreRegisters, TagKnown
<1>6. CASE Restored
  <2>1. ~follows' /\ nfc' = "idle" /\ UNCHANGED <<tag, copy>>
    BY <1>6 DEF Restored, NfcEnds, TagKnown
  <2> QED
    BY <2>1 DEF TagKnown
<1>7. CASE RestoreRejected \/ Examine
  <2>1. /\ UNCHANGED <<tag, copy, follows, reg, promised, todo, dirty>> /\ crc' \in {crc, tag}
        /\ nfc \notin {"copy", "write"} /\ nfc' = "idle"
    BY <1>7 DEF RestoreRejected, Examine, NfcEnds, regVars, registers, writers
  <2> QED
    BY <2>1 DEF TagKnown, TagMarked
<1> QED
  BY <1>1, <1>2, <1>3, <1>4, <1>5, <1>6, <1>7 DEF NfcStep

LEMMA TagKept == Sound /\ TagKnown /\ [Next]_vars => TagKnown'
<1> SUFFICES ASSUME Sound, TagKnown, [Next]_vars
             PROVE  TagKnown'
  OBVIOUS
<1>1. CASE Tagging
  BY <1>1, TagOfTask DEF Tagging
<1>2. CASE Restart
  <2>1. nfc' = "idle" /\ ~follows' /\ UNCHANGED tag /\ copy' = Blank
    BY <1>2 DEF Restart, NfcRestart
  <2> QED
    BY <2>1 DEF TagKnown, Blank
<1>3. CASE Posting
  <2>1. UNCHANGED <<tag, crc, nfc, copy, follows, reg, promised, dirty, todo>>
    BY <1>3 DEF Posting, Post, regVars, registers, writers
  <2> QED
    BY <2>1 DEF TagKnown, TagMarked
<1>4. CASE ~Tagging /\ ~Restart /\ ~Posting
  <2>1. UNCHANGED nfcVars
    BY <1>4 DEF Next, Begun, Called, Saving, Calibrate, Imaging, vars
  <2>2. CASE Keeping
    <3>1. \A r \in promised' \cap InTag : (r \in promised /\ reg'[r] = reg[r]) \/ TagMarked'
      BY <2>2, Places DEF Keeping
    <3> QED
      BY <2>1, <2>2, <3>1, KeepsMarks, TagOfOthers
  <2>3. CASE Saves
    <3>1. TagMarked => TagMarked'
      BY <2>3, Places DEF Saves, TagMarked
    <3>2. \A r \in promised' \cap InTag : r \in promised /\ reg'[r] = reg[r]
      BY <2>3, Places DEF Saves, Keeps
    <3> QED
      BY <2>1, <3>1, <3>2, TagOfOthers
  <2> QED
    BY <1>4, <2>2, <2>3, StepKeeps
<1> QED
  BY <1>1, <1>2, <1>3, <1>4

LEMMA AtInit ==
  ASSUME Init
  PROVE  Sound /\ Counted /\ FlashMarked /\ TagKnown
<1>1. WriterHolds /\ Counted
  BY DEF Init, RegInit, WriterHolds, Counted, TookOver
<1>2. Made(Nothing)
  BY Empty DEF Made, Named, Nothing
<1>3. Registered
  BY DEF Init, RegInit, Registered, Defaults
<1>4. TagKnown
  BY DEF Init, NfcInit, TagKnown, Blank
<1> QED
  BY <1>1, <1>2, <1>3, <1>4 DEF Init, RegInit, Sound, FlashMarked

(* Whatever way a register that must last is written, alone or in a batch, by       *)
(* address, by closure, as the mirror of the name or from the tag, and wherever     *)
(* the power goes: its flag is up, or about to be, until flash and tag have it.     *)
THEOREM WrittenIsKept == Spec => []KeptOrMarked
<1>1. Init => Sound /\ Counted /\ FlashMarked /\ TagKnown
  BY AtInit
<1>2. FlashMarked /\ TagKnown => KeptOrMarked
  BY OwedIs DEF FlashMarked, TagKnown, KeptOrMarked, FlashFollows, TagFollows, IsMarked, TagMarked
<1> QED
  BY <1>1, <1>2, SoundKept, FlashKept, TagKept, PTL DEF Spec

-----------------------------------------------------------------------------
(* The name and its copy                                                      *)

NameOK == reg["name"] \in {reg["rawname"], Defaults["name"]}
Mirrors(s) == \E x \in Range(s) : x.do = "mirror"
MirrorComes == \E c \in Clients : Mirrors(todo[c])

NameKnown ==
  /\ rounds \in Nat /\ (nfc # "idle" => rounds > 0)
  /\ NameOK \/ MirrorComes \/ (reg["rawname"] = tag["rawname"] /\ rounds > 0)
  /\ nfc = "write" => NameOK \/ MirrorComes \/ copy["rawname"] = reg["rawname"]

(* A step that leaves the copy of a name nobody is about to mirror.               *)
Naming ==
  \/ NameOK' \/ MirrorComes'
  \/ ~NameOK /\ ~MirrorComes /\ reg'["rawname"] = reg["rawname"]

LEMMA SameNames ==
  ASSUME MirrorComes => MirrorComes', reg'["name"] = reg["name"], reg'["rawname"] = reg["rawname"]
  PROVE  Naming
BY DEF Naming, NameOK

LEMMA MirrorStays ==
  ASSUME Sound, NEW c \in Clients, NEW s, todo' = [todo EXCEPT ![c] = s],
         Mirrors(todo[c]) => Mirrors(s)
  PROVE  MirrorComes => MirrorComes'
<1>1. todo'[c] = s /\ \A d \in Clients \ {c} : todo'[d] = todo[d]
  BY DEF Sound, WriterHolds
<1> QED
  BY <1>1 DEF MirrorComes

(* The rest of a handler mirrors the name if the handler does, but for the mirror     *)
(* itself, and what is given up never does.                                    *)
LEMMA MirrorFacts ==
  ASSUME NEW s, Made(s), s # <<>>
  PROVE  /\ Head(s).do # "mirror" /\ Mirrors(s) => Mirrors(Tail(s))
         /\ Head(s).do \in {"write", "save", "force"} => ~Mirrors(s)
         /\ Renames(Head(s)) => Mirrors(Tail(s))
<1>1. Ordered(s)
  BY DEF Made
<1>2. Range(s) = {Head(s)} \union Range(Tail(s)) /\ \A y \in Range(Tail(s)) : MayFollow(Head(s), y)
  BY <1>1, TailFacts
<1>3. Head(s).do # "mirror" /\ Mirrors(s) => Mirrors(Tail(s))
  BY <1>2 DEF Mirrors
<1>4. ASSUME Head(s).do \in {"write", "save", "force"}
      PROVE  ~Mirrors(s)
  <2>1. \A y \in Range(Tail(s)) : y.do # "mirror"
    BY <1>2, <1>4 DEF MayFollow, Flagging
  <2> QED
    BY <1>2, <1>4, <2>1 DEF Mirrors
<1>5. ASSUME Renames(Head(s))
      PROVE  Mirrors(s) /\ Head(s).do = "change"
  BY <1>2, <1>5 DEF Made, Named, Mirrors, Renames
<1> QED
  BY <1>3, <1>4, <1>5

LEMMA PublishNames ==
  ASSUME Sound, NEW c \in Clients, Publish(c)
  PROVE  Naming
<1> DEFINE b == Arg(c)
           s == MarksAfter(b) \o Tail(todo[c])
<1>1. /\ lock = c /\ Doing(c, "write") /\ todo[c] # <<>> /\ Made(todo[c])
      /\ todo' = [todo EXCEPT ![c] = s]
  BY ClientsAssumption DEF Publish, Sound, WriterHolds, Doing, Nothing
<1>2. "rawname" \notin DOMAIN b
  BY <1>1, TailFacts DEF Made, Ordered, Call, Doing, Arg, Writable, Area
<1>3. ~Mirrors(todo[c])
  BY <1>1, MirrorFacts DEF Doing
<1>4. /\ "name" \in Regs /\ "rawname" \in Regs
      /\ "name" # "rawname" /\ "name" # "protect" /\ "rawname" # "protect"
  BY DEF Regs, Conf, Holding
<1>5. CASE "name" \in DOMAIN b
  <2>1. Mirrored(b) = {"rawname"}
    BY <1>5 DEF Mirrored
  <2>2. reg' = [r \in Regs |-> CASE r = "protect" /\ Spends(b) -> 0
                                 [] r \in Mirrored(b) -> b["name"]
                                 [] OTHER -> Written(b)[r]]
    BY DEF Publish
  <2>3. reg'["rawname"] = b["name"]
    BY <1>4, <2>1, <2>2
  <2>4. reg'["name"] = Written(b)["name"]
    BY <1>4, <2>1, <2>2
  <2>5. Written(b)["name"] = b["name"]
    BY <1>4, <1>5 DEF Written
  <2> QED
    BY <2>3, <2>4, <2>5 DEF Naming, NameOK
<1>6. CASE "name" \notin DOMAIN b
  <2>1. Mirrored(b) = {}
    BY <1>6 DEF Mirrored
  <2>2. reg'["name"] = reg["name"] /\ reg'["rawname"] = reg["rawname"]
    BY <1>2, <1>4, <1>6, <2>1 DEF Publish, Written
  <2> HIDE DEF s, b
  <2> QED
    BY <1>1, <1>3, <2>2, MirrorStays, SameNames
<1> QED
  BY <1>5, <1>6

LEMMA ChangeNames ==
  ASSUME Sound, NEW c \in Clients, ChangeConfig(c)
  PROVE  Naming
<1> DEFINE b == Arg(c)
           t == Tail(todo[c])
<1>1. /\ Doing(c, "change") /\ todo[c] # <<>> /\ Made(todo[c])
      /\ todo' = [todo EXCEPT ![c] = t] /\ reg' = Written(b)
  BY DEF ChangeConfig, Done, Doing, Sound, WriterHolds, Nothing
<1>2. DOMAIN b \subseteq Conf
  BY <1>1, TailFacts DEF Made, Ordered, Call, Doing, Arg
<1>3. "name" \in Regs /\ "rawname" \in Regs /\ "rawname" \notin Conf
  BY DEF Regs, Conf, Holding
<1>4. reg'["rawname"] = reg["rawname"]
  BY <1>1, <1>2, <1>3 DEF Written
<1>5. CASE Renames(Head(todo[c]))
  <2>1. Mirrors(t)
    BY <1>1, <1>5, MirrorFacts
  <2> HIDE DEF t
  <2>2. todo'[c] = t
    BY <1>1 DEF Sound, WriterHolds
  <2> QED
    BY <2>1, <2>2 DEF Naming, MirrorComes
<1>6. CASE ~Renames(Head(todo[c])) /\ "name" \in DOMAIN b
  <2>1. b["name"] = Defaults["name"]
    BY <1>1, <1>6 DEF Renames, Doing, Arg
  <2>2. reg'["name"] = Defaults["name"]
    BY <1>1, <1>3, <1>6, <2>1 DEF Written
  <2> QED
    BY <2>2 DEF Naming, NameOK
<1>7. CASE "name" \notin DOMAIN b
  <2>1. reg'["name"] = reg["name"]
    BY <1>1, <1>3, <1>7 DEF Written
  <2>2. Mirrors(todo[c]) => Mirrors(t)
    BY <1>1, MirrorFacts DEF Doing
  <2> HIDE DEF t, b
  <2> QED
    BY <1>1, <1>4, <2>1, <2>2, MirrorStays, SameNames
<1> QED
  BY <1>5, <1>6, <1>7

LEMMA CallNames ==
  ASSUME Sound, NEW c \in Clients, CallStep(c) \/ ReadStep(c)
  PROVE  Naming
<1>0. "name" \in Regs /\ "rawname" \in Regs /\ "name" \notin Holding /\ "name" # "rawname"
  BY DEF Regs, Conf, Holding, Logic
<1>1. CASE Lock(c)
  <2>1. UNCHANGED <<reg, todo>>
    BY <1>1 DEF Lock, registers
  <2> QED
    BY <2>1, SameNames DEF MirrorComes
<1>2. CASE Refuse(c) \/ SaveFails(c)
  <2>1. /\ Head(todo[c]).do \in {"write", "save", "force"} /\ todo[c] # <<>> /\ Made(todo[c])
        /\ todo' = [todo EXCEPT ![c] = Head(todo[c]).or] /\ UNCHANGED reg
    BY <1>2, ClientsAssumption DEF Refuse, SaveFails, Due, Refused, Sound, WriterHolds, registers, Doing, Nothing
  <2>2. ~Mirrors(todo[c])
    BY <2>1, MirrorFacts
  <2> QED
    BY <2>1, <2>2, MirrorStays, SameNames
<1>3. CASE Mirror(c)
  <2>1. reg' = [reg EXCEPT !["rawname"] = reg["name"]]
    BY <1>3 DEF Mirror
  <2>2. reg'["rawname"] = reg'["name"]
    BY <1>0, <2>1 DEF Sound, Registered
  <2> QED
    BY <2>2 DEF Naming, NameOK
<1>4. CASE ModifyHolding(c)
  <2>1. /\ Head(todo[c]).do = "modify" /\ todo[c] # <<>> /\ Made(todo[c])
        /\ todo' = [todo EXCEPT ![c] = Tail(todo[c])] /\ reg' = Written(Arg(c))
    BY <1>4 DEF ModifyHolding, Done, Doing, Sound, WriterHolds, Nothing
  <2>2. DOMAIN Arg(c) \subseteq Holding \ {"rawname", "protect"}
    BY <2>1, TailFacts DEF Made, Ordered, Call, Arg
  <2>3. reg'["name"] = reg["name"] /\ reg'["rawname"] = reg["rawname"]
    BY <1>0, <2>1, <2>2 DEF Written
  <2>4. Mirrors(todo[c]) => Mirrors(Tail(todo[c]))
    BY <2>1, MirrorFacts
  <2> QED
    BY <2>1, <2>3, <2>4, MirrorStays, SameNames
<1>5. CASE \/ ArmLogicWrite(c) \/ DisarmLogicWrite(c) \/ Mark(c) \/ SaveNow(c) \/ NothingToSave(c)
           \/ Answer(c) \/ ReadStep(c)
  <2>1. /\ Head(todo[c]).do # "mirror" /\ todo[c] # <<>> /\ Made(todo[c])
        /\ todo' = [todo EXCEPT ![c] = Tail(todo[c])] /\ UNCHANGED reg
    BY <1>5 DEF ArmLogicWrite, DisarmLogicWrite, Mark, SaveNow, NothingToSave, Answer, ReadStep, See,
      Answered, Due, Done, Doing, Sound, WriterHolds, registers, Nothing
  <2>2. Mirrors(todo[c]) => Mirrors(Tail(todo[c]))
    BY <2>1, MirrorFacts
  <2> QED
    BY <2>1, <2>2, MirrorStays, SameNames
<1> QED
  BY <1>1, <1>2, <1>3, <1>4, <1>5, PublishNames, ChangeNames DEF CallStep

LEMMA NameOfOthers ==
  ASSUME NameKnown, UNCHANGED nfcVars, Naming
  PROVE  NameKnown'
BY DEF NameKnown, Naming, nfcVars

LEMMA NameOfTask ==
  ASSUME Sound, TagKnown, NameKnown, NfcStep
  PROVE  NameKnown'
<1>0. "rawname" \in InTag
  BY DEF InTag
<1>1. CASE RestoreRegisters
  <2>1. /\ reg' = [r \in Regs |-> IF r \in InTag THEN tag[r] ELSE reg[r]]
        /\ nfc = "restore" /\ nfc' = "restored" /\ UNCHANGED <<tag, rounds>>
    BY <1>1 DEF RestoreRegisters
  <2>2. reg'["rawname"] = tag'["rawname"] /\ rounds' > 0 /\ rounds' \in Nat
    BY <1>0, <2>1 DEF NameKnown, Regs, Holding
  <2> QED
    BY <2>1, <2>2 DEF NameKnown
<1>2. CASE ~RestoreRegisters
  <2>1. UNCHANGED <<reg, todo>>
    BY <1>2 DEF NfcStep, Open, CopyRegisters, SkipBackup, WriteTag, WriteTagFails, Restored,
      RestoreRejected, Examine, regVars, registers, writers
  <2>2. /\ NameOK' = NameOK /\ MirrorComes' = MirrorComes
    BY <2>1 DEF NameOK, MirrorComes
  <2>3. CASE Open
    <3>1. rounds' = rounds + 1 /\ nfc' # "write" /\ UNCHANGED tag
      BY <2>3 DEF Open
    <3> QED
      BY <2>1, <2>2, <3>1 DEF NameKnown
  <2>4. CASE CopyRegisters
    <3>1. UNCHANGED <<tag, rounds>> /\ nfc = "copy" /\ copy' = [r \in InTag |-> reg[r]]
      BY <2>4 DEF CopyRegisters, Ram
    <3> QED
      BY <1>0, <2>1, <2>2, <3>1 DEF NameKnown
  <2>5. CASE WriteTag
    <3>1. tag' = copy /\ nfc = "write" /\ nfc' = "idle" /\ UNCHANGED rounds
      BY <2>5 DEF WriteTag, NfcEnds
    <3> QED
      BY <2>1, <2>2, <3>1 DEF NameKnown
  <2>6. CASE WriteTagFails
    <3>1. PICK written \in SUBSET InTag : tag' = [r \in InTag |-> IF r \in written THEN copy[r] ELSE tag[r]]
      BY <2>6 DEF WriteTagFails
    <3>2. nfc = "write" /\ nfc' = "idle" /\ UNCHANGED rounds
      BY <2>6 DEF WriteTagFails, NfcEnds
    <3>3. tag'["rawname"] \in {copy["rawname"], tag["rawname"]}
      BY <1>0, <3>1
    <3> QED
      BY <2>1, <2>2, <3>2, <3>3 DEF NameKnown
  <2>7. CASE SkipBackup \/ Restored \/ RestoreRejected \/ Examine
    <3>1. UNCHANGED <<tag, rounds>> /\ nfc' = "idle"
      BY <2>7 DEF SkipBackup, Restored, RestoreRejected, Examine, NfcEnds
    <3> QED
      BY <2>1, <2>2, <3>1 DEF NameKnown
  <2> QED
    BY <1>2, <2>3, <2>4, <2>5, <2>6, <2>7 DEF NfcStep
<1> QED
  BY <1>1, <1>2

LEMMA NameKept == Sound /\ TagKnown /\ NameKnown /\ [Next]_vars => NameKnown'
<1> SUFFICES ASSUME Sound, TagKnown, NameKnown, [Next]_vars
             PROVE  NameKnown'
  OBVIOUS
<1>0. "name" \in Regs /\ "rawname" \in Regs /\ "name" # "range" /\ "rawname" # "range" /\ "name" # "rawname"
  BY DEF Regs, Conf, Holding
<1>1. CASE Tagging
  BY <1>1, NameOfTask DEF Tagging
<1>2. CASE Restart
  <2>1. reg'["rawname"] = reg'["name"]
    BY <1>0, <1>2, RestartFacts
  <2>2. nfc' = "idle" /\ UNCHANGED rounds
    BY <1>2 DEF Restart, NfcRestart
  <2> QED
    BY <2>1, <2>2 DEF NameKnown, NameOK
<1>3. CASE Posting
  <2>1. UNCHANGED <<tag, nfc, copy, rounds, reg, todo>>
    BY <1>3 DEF Posting, Post, regVars, registers, writers
  <2> QED
    BY <2>1 DEF NameKnown, NameOK, MirrorComes
<1>4. ASSUME NEW c \in Clients, Begun(c)
      PROVE  Naming
  <2>1. PICK s : todo' = [todo EXCEPT ![c] = s]
    BY <1>4 DEF Begun
  <2>2. ~Mirrors(todo[c]) /\ UNCHANGED reg
    BY <1>4, Empty DEF Begun, Mirrors, Nothing, registers
  <2> QED
    BY <2>1, <2>2, MirrorStays, SameNames
<1>5. CASE Saving \/ Imaging \/ UNCHANGED vars
  <2>1. UNCHANGED <<reg, todo>>
    BY <1>5 DEF Saving, IdleSave, Imaging, vars, regVars, registers, writers
  <2> QED
    BY <2>1, <1>5, NameOfOthers, SameNames DEF MirrorComes, Saving, Imaging, vars
<1>6. CASE Calibrate
  <2>1. reg' = [reg EXCEPT !["range"] = IF @ = 0 THEN 1 ELSE @] /\ UNCHANGED <<todo, nfcVars>>
    BY <1>6 DEF Calibrate, writers
  <2>2. reg'["name"] = reg["name"] /\ reg'["rawname"] = reg["rawname"]
    BY <1>0, <2>1 DEF Sound, Registered
  <2> QED
    BY <2>1, <2>2, NameOfOthers, SameNames DEF MirrorComes
<1>7. ASSUME NEW c \in Clients, Begun(c) \/ Called(c)
      PROVE  NameKnown'
  <2>1. UNCHANGED nfcVars
    BY <1>7 DEF Begun, Called
  <2>2. Naming
    BY <1>4, <1>7, CallNames DEF Called
  <2> QED
    BY <2>1, <2>2, NameOfOthers
<1> QED
  BY <1>1, <1>2, <1>3, <1>5, <1>6, <1>7 DEF Next

(* Whoever names the device, in whatever order and however it fails, the copy of     *)
(* the name is the name again once the handlers are through, but for a factory      *)
(* reset and a name that came with a tag.                                        *)
THEOREM CopyOfTheName == Spec => []NameIsMirrored
<1>1. Init => Sound /\ Counted /\ TagKnown /\ NameKnown
  <2> SUFFICES ASSUME Init PROVE Sound /\ Counted /\ TagKnown /\ NameKnown
    OBVIOUS
  <2>1. Sound /\ Counted /\ TagKnown
    BY AtInit
  <2>2. reg["name"] = Defaults["name"] /\ nfc = "idle" /\ rounds = 0
    BY DEF Init, RegInit, NfcInit
  <2> QED
    BY <2>1, <2>2 DEF NameKnown, NameOK
<1>2. NameKnown => NameIsMirrored
  <2>1. \A c : Mirrors(todo[c]) => "mirror" \in {s.do : s \in Range(todo[c])}
    BY DEF Mirrors
  <2> QED
    BY <2>1 DEF NameKnown, NameOK, MirrorComes, NameIsMirrored
<1> QED
  BY <1>1, <1>2, SoundKept, TagKept, NameKept, PTL DEF Spec

-----------------------------------------------------------------------------

-----------------------------------------------------------------------------
(* What an answer holds                                                      *)

(* What the answer will hold of a store is still to be looked at, all of it, or was *)
(* seen at one moment.                                                       *)
SeenTogether(c, y, store) ==
  \E then \in since[c] : \A r \in DOMAIN y.regs \cap store : r \in DOMAIN seen[c] /\ seen[c][r] = then[r]
Reader(c) ==
  \A y \in Range(todo[c]) : y.do = "respond" =>
    /\ since[c] # {}
    /\ \A store \in Stores : (\E x \in Range(todo[c]) : LookedAt(x, y, store)) \/ SeenTogether(c, y, store)

ReadKnown == seen = [c \in Clients |-> seen[c]] /\ \A c \in Clients : Reader(c)

LEMMA MomentsGrow ==
  ASSUME Next, NEW c \in Clients, NEW y \in Range(todo'[c]), y.do = "respond"
  PROVE  since'[c] = since[c] \union {reg'}
<1>1. Moments
  BY DEF Next
<1>2. Reading(c)'
  BY DEF Reading
<1> QED
  BY <1>1, <1>2 DEF Moments

(* A step that looks at nothing for this client.                                *)
LEMMA ReaderStays ==
  ASSUME Next, NEW c \in Clients, Reader(c), seen'[c] = seen[c],
         \A y \in Range(todo'[c]) : y.do = "respond" => y \in Range(todo[c]),
         \A x \in Range(todo[c]) : x.do = "look" => x \in Range(todo'[c])
  PROVE  Reader(c)'
<1> SUFFICES ASSUME NEW y \in Range(todo'[c]), y.do = "respond"
             PROVE  /\ since'[c] # {}
                    /\ \A store \in Stores : (\E x \in Range(todo'[c]) : LookedAt(x, y, store))
                                               \/ SeenTogether(c, y, store)'
  BY DEF Reader, Stores, LookedAt
<1>1. since'[c] = since[c] \union {reg'}
  BY MomentsGrow
<1>2. y \in Range(todo[c])
  OBVIOUS
<1>3. ASSUME NEW store \in Stores
      PROVE  (\E x \in Range(todo'[c]) : LookedAt(x, y, store)) \/ SeenTogether(c, y, store)'
  <2>1. CASE \E x \in Range(todo[c]) : LookedAt(x, y, store)
    BY <2>1 DEF LookedAt
  <2>2. CASE SeenTogether(c, y, store)
    BY <1>1, <2>2 DEF SeenTogether
  <2> QED
    BY <1>2, <2>1, <2>2 DEF Reader
<1> QED
  BY <1>1, <1>3

LEMMA OthersRead ==
  ASSUME Next, WriterHolds, ReadKnown, NEW c \in Clients, NEW d \in Clients \ {c},
         \/ UNCHANGED seen
         \/ \E f : seen' = [seen EXCEPT ![c] = f],
         \/ UNCHANGED todo
         \/ \E s : todo' = [todo EXCEPT ![c] = s]
  PROVE  Reader(d)'
<1>1. todo'[d] = todo[d] /\ seen'[d] = seen[d]
  BY DEF WriterHolds, ReadKnown
<1> QED
  BY <1>1, ReaderStays DEF ReadKnown

LEMMA BegunReads ==
  ASSUME Next, WriterHolds, NEW c \in Clients, Begun(c)
  PROVE  Reader(c)'
<1>1. PICK h \in HandlersOf[c] : todo' = [todo EXCEPT ![c] = h]
  BY DEF Begun
<1>2. todo'[c] = h /\ Covered(h)
  BY <1>1, HandlersMade DEF WriterHolds, Handler
<1> SUFFICES ASSUME NEW y \in Range(h), y.do = "respond"
             PROVE  /\ since'[c] # {}
                    /\ \A store \in Stores : (\E x \in Range(h) : LookedAt(x, y, store))
                                               \/ SeenTogether(c, y, store)'
  BY <1>2 DEF Reader, Stores, LookedAt
<1>3. since'[c] = since[c] \union {reg'}
  BY <1>2, MomentsGrow
<1>4. ASSUME NEW store \in Stores, DOMAIN y.regs \cap store = {}
      PROVE  SeenTogether(c, y, store)'
  BY <1>3, <1>4 DEF SeenTogether
<1> QED
  BY <1>2, <1>3, <1>4 DEF Covered

LEMMA SeeReads ==
  ASSUME Next, Sound, ReadKnown, NEW c \in Clients, See(c)
  PROVE  Reader(c)'
<1> DEFINE s == todo[c]
           x0 == Head(s)
           t == Tail(s)
<1>1. s # <<>> /\ x0.do = "look" /\ todo' = [todo EXCEPT ![c] = t] /\ UNCHANGED reg /\ Made(s)
  BY DEF See, Done, Doing, registers, Nothing, Sound
<1>2. todo'[c] = t
  BY <1>1 DEF Sound, WriterHolds
<1>3. Range(s) = {x0} \union Range(t) /\ \A y \in Range(t) : MayFollow(x0, y)
  BY <1>1, TailFacts DEF Made
<1>4. /\ DOMAIN seen'[c] = DOMAIN seen[c] \union DOMAIN x0.regs
      /\ \A r \in DOMAIN seen'[c] : seen'[c][r] = IF r \in DOMAIN x0.regs THEN reg[r] ELSE seen[c][r]
  <2>1. seen'[c] = [r \in DOMAIN seen[c] \union DOMAIN x0.regs |-> IF r \in DOMAIN x0.regs THEN reg[r] ELSE seen[c][r]]
    BY DEF See, Arg, ReadKnown
  <2> QED
    BY <2>1
<1> HIDE DEF s, x0, t
<1> SUFFICES ASSUME NEW y \in Range(t), y.do = "respond"
             PROVE  /\ since'[c] # {}
                    /\ \A store \in Stores : (\E x \in Range(t) : LookedAt(x, y, store))
                                               \/ SeenTogether(c, y, store)'
  BY <1>2 DEF Reader, Stores, LookedAt
<1>5. since'[c] = since[c] \union {reg}
  BY <1>1, <1>2, MomentsGrow
<1>6. y \in Range(todo[c]) /\ AllOrNone(x0.regs, y.regs) /\ Reader(c)
  BY <1>1, <1>3 DEF s, MayFollow, ReadKnown
<1>7. ASSUME NEW store \in Stores
      PROVE  (\E x \in Range(t) : LookedAt(x, y, store)) \/ SeenTogether(c, y, store)'
  <2>1. CASE DOMAIN y.regs \cap store \subseteq DOMAIN x0.regs
    <3>1. reg \in since'[c] /\ \A r \in DOMAIN y.regs \cap store : r \in DOMAIN seen'[c] /\ seen'[c][r] = reg[r]
      BY <1>4, <1>5, <2>1
    <3> QED
      BY <3>1 DEF SeenTogether
  <2>2. CASE DOMAIN y.regs \cap store \cap DOMAIN x0.regs = {} /\ ~(DOMAIN y.regs \cap store \subseteq DOMAIN x0.regs)
    <3>1. CASE \E x \in Range(s) : LookedAt(x, y, store)
      BY <1>3, <2>2, <3>1 DEF LookedAt
    <3>2. CASE SeenTogether(c, y, store)
      <4>1. PICK then \in since[c] : \A r \in DOMAIN y.regs \cap store : r \in DOMAIN seen[c] /\ seen[c][r] = then[r]
        BY <3>2 DEF SeenTogether
      <4>2. then \in since'[c] /\ \A r \in DOMAIN y.regs \cap store : r \in DOMAIN seen'[c] /\ seen'[c][r] = then[r]
        BY <1>4, <1>5, <2>2, <4>1
      <4> QED
        BY <4>2 DEF SeenTogether
    <3> QED
      BY <1>6, <3>1, <3>2 DEF Reader, s
  <2> QED
    BY <1>6, <2>1, <2>2 DEF AllOrNone
<1> QED
  BY <1>5, <1>7

(* Any other call: the looks that are left stay.                               *)
LEMMA CallReads ==
  ASSUME Next, Sound, ReadKnown, NEW c \in Clients, CallStep(c), UNCHANGED seen
  PROVE  Reader(c)'
<1>1. todo = [d \in Clients |-> todo[d]] /\ Made(todo[c]) /\ Reader(c)
  BY DEF Sound, WriterHolds, ReadKnown
<1>2. ASSUME Done(c), todo[c] # Nothing, Head(todo[c]).do # "look"
      PROVE  Reader(c)'
  <2>1. todo'[c] = Tail(todo[c])
    BY <1>1, <1>2 DEF Done
  <2>2. Range(todo[c]) = {Head(todo[c])} \union Range(todo'[c])
    BY <1>1, <1>2, <2>1, TailFacts DEF Made, Nothing
  <2> QED
    BY <1>1, <1>2, <2>2, ReaderStays
<1>3. ASSUME Refused(c), todo[c] # Nothing
      PROVE  Reader(c)'
  <2>1. todo'[c] \in {Nothing, Disarm}
    BY <1>1, <1>3, TailFacts DEF Refused, Made, Ordered, Call, Nothing
  <2>2. \A y \in Range(Disarm) : y.do = "disarm"
    BY Steps DEF Does
  <2>3. Range(Nothing) = {}
    BY Empty DEF Nothing
  <2> QED
    BY <2>1, <2>2, <2>3 DEF Reader
<1>4. CASE Publish(c)
  <2>1. lock = c /\ todo' = [todo EXCEPT ![c] = MarksAfter(Arg(c)) \o Tail(todo[c])]
    BY <1>1, <1>4 DEF Publish
  <2>2. todo[c] # <<>> /\ Head(todo[c]).do = "write"
    BY <2>1, ClientsAssumption DEF Sound, WriterHolds, Doing, Nothing
  <2>3. /\ Range(todo'[c]) = Range(MarksAfter(Arg(c))) \union Range(Tail(todo[c]))
        /\ \A x \in Range(MarksAfter(Arg(c))) : x.do = "mark"
    BY <1>1, <2>1, <2>2, MarksMade, MarksAfterDoes DEF Does
  <2>4. Range(todo[c]) = {Head(todo[c])} \union Range(Tail(todo[c]))
    BY <1>1, <2>2, TailFacts DEF Made
  <2> QED
    BY <1>1, <2>2, <2>3, <2>4, ReaderStays
<1>5. CASE Lock(c)
  BY <1>1, <1>5, ReaderStays DEF Lock
<1>6. CASE Refuse(c)
  <2>1. Refused(c) /\ todo[c] # Nothing
    BY <1>6, ClientsAssumption DEF Refuse, Sound, WriterHolds, Doing
  <2> QED
    BY <1>3, <2>1
<1>7. CASE SaveFails(c)
  BY <1>3, <1>7 DEF SaveFails, Due, Doing
<1>8. CASE ArmLogicWrite(c) \/ DisarmLogicWrite(c) \/ ChangeConfig(c) \/ ModifyHolding(c)
           \/ Mirror(c) \/ Mark(c) \/ SaveNow(c) \/ NothingToSave(c) \/ Answer(c)
  <2>1. Done(c) /\ todo[c] # Nothing /\ Head(todo[c]).do # "look"
    BY <1>8 DEF ArmLogicWrite, DisarmLogicWrite, ChangeConfig, ModifyHolding, Mirror, Mark,
      SaveNow, NothingToSave, Answer, Due, Doing
  <2> QED
    BY <1>2, <2>1
<1> QED
  BY <1>4, <1>5, <1>6, <1>7, <1>8 DEF CallStep

LEMMA AnsweredReads ==
  ASSUME Sound, NEW c \in Clients, Answered(c)
  PROVE  Reader(c)'
<1>1. todo[c] # <<>> /\ Head(todo[c]).do = "respond" /\ Made(todo[c]) /\ todo'[c] = Tail(todo[c])
  BY DEF Answered, Done, Doing, Nothing, Sound, WriterHolds
<1>2. \A y \in Range(Tail(todo[c])) : MayFollow(Head(todo[c]), y)
  BY <1>1, TailFacts DEF Made
<1> QED
  BY <1>1, <1>2 DEF Reader, MayFollow

LEMMA ReadKnownKept == Sound /\ ReadKnown /\ [Next]_vars => ReadKnown'
<1> SUFFICES ASSUME Sound, ReadKnown, [Next]_vars
             PROVE  ReadKnown'
  OBVIOUS
<1>1. CASE UNCHANGED vars
  <2>1. UNCHANGED <<todo, seen, since>>
    BY <1>1 DEF vars, regVars, writers, readVars
  <2> QED
    BY <2>1 DEF ReadKnown, Reader, SeenTogether
<1>2. ASSUME Next, NEW c \in Clients, Begun(c) \/ Called(c)
      PROVE  ReadKnown'
  <2>1. /\ UNCHANGED seen \/ \E f : seen' = [seen EXCEPT ![c] = f]
        /\ UNCHANGED todo \/ \E s : todo' = [todo EXCEPT ![c] = s]
    <3>1. CASE Begun(c)
      BY <3>1 DEF Begun
    <3>2. CASE See(c)
      <4>1. \E f : seen' = [seen EXCEPT ![c] = f]
        BY <3>2 DEF See, ReadKnown
      <4> QED
        BY <3>2, <4>1 DEF See, Done
    <3>3. CASE Answered(c)
      BY <3>3 DEF Answered, Done
    <3>4. CASE CallStep(c) /\ UNCHANGED seen
      BY <3>4 DEF CallStep, Lock, Refuse, Refused, Publish, SaveFails, ArmLogicWrite, DisarmLogicWrite, ChangeConfig,
        ModifyHolding, Mirror, Mark, SaveNow, NothingToSave, Answer, Done
    <3> QED
      BY <1>2, <3>1, <3>2, <3>3, <3>4 DEF Called, ReadStep
  <2>2. seen' = [d \in Clients |-> seen'[d]]
    BY <2>1 DEF ReadKnown
  <2>3. \A d \in Clients \ {c} : Reader(d)'
    BY <1>2, <2>1, OthersRead DEF Sound
  <2>4. Reader(c)'
    BY <1>2, BegunReads, SeeReads, AnsweredReads, CallReads DEF Called, ReadStep, Sound
  <2> QED
    BY <2>2, <2>3, <2>4 DEF ReadKnown
<1>3. CASE Next /\ (Saving \/ Calibrate \/ Posting \/ Tagging \/ Imaging)
  <2>1. UNCHANGED <<todo, seen>>
    BY <1>3 DEF Saving, IdleSave, Calibrate, Posting, Post, Tagging, NfcStep, Open, CopyRegisters,
      SkipBackup, WriteTag, WriteTagFails, RestoreRegisters, Restored, RestoreRejected, Examine,
      Imaging, regVars, writers
  <2>2. \A c \in Clients : Reader(c)'
    BY <1>3, <2>1, ReaderStays DEF ReadKnown
  <2> QED
    BY <2>1, <2>2 DEF ReadKnown
<1>4. CASE Restart
  <2>1. /\ seen' = [c \in Clients |-> Nothing]
        /\ \A c \in Clients : todo'[c] = Nothing
    BY <1>4 DEF Restart, RegRestart, ReadRestart
  <2>2. Range(Nothing) = {}
    BY Empty DEF Nothing
  <2> QED
    BY <2>1, <2>2 DEF ReadKnown, Reader
<1> QED
  BY <1>1, <1>2, <1>3, <1>4 DEF Next

(* An answer holds of each store what its registers were at one moment since the   *)
(* request came (backends.rs:547-579): every handler takes what its answer holds of *)
(* a store from one snapshot, whatever is published between two looks.           *)
THEOREM AnswersAreOfOneMoment == Spec => []ReadsOneMoment
<1>1. Init => Sound /\ Counted /\ ReadKnown
  <2> SUFFICES ASSUME Init PROVE Sound /\ Counted /\ ReadKnown
    OBVIOUS
  <2>1. Sound /\ Counted
    BY AtInit
  <2>2. seen = [c \in Clients |-> Nothing] /\ \A c \in Clients : todo[c] = Nothing
    BY DEF Init, ReadInit, RegInit
  <2>3. Range(Nothing) = {}
    BY Empty DEF Nothing
  <2> QED
    BY <2>1, <2>2, <2>3 DEF ReadKnown, Reader
<1>2. Sound /\ ReadKnown => ReadsOneMoment
  <2> SUFFICES ASSUME Sound, ReadKnown, NEW c \in Clients, Doing(c, "respond"), NEW store \in {Conf, Regs \ Conf}
               PROVE  \E then \in since[c] : \A r \in DOMAIN Arg(c) \cap store : seen[c][r] = then[r]
    BY DEF ReadsOneMoment
  <2> DEFINE y == Head(todo[c])
  <2>1. todo[c] # <<>> /\ y.do = "respond" /\ Made(todo[c])
    BY DEF Doing, Nothing, Sound
  <2>2. Range(todo[c]) = {y} \union Range(Tail(todo[c])) /\ \A z \in Range(Tail(todo[c])) : MayFollow(y, z)
    BY <2>1, TailFacts DEF Made
  <2>3. \A x \in Range(todo[c]) : x.do # "look"
    BY <2>1, <2>2 DEF MayFollow
  <2>4. SeenTogether(c, y, store)
    BY <2>1, <2>2, <2>3 DEF ReadKnown, Reader, LookedAt, Stores
  <2> QED
    BY <2>4 DEF SeenTogether, Arg
<1> QED
  BY <1>1, <1>2, SoundKept, ReadKnownKept, PTL DEF Spec
=============================================================================
