------------------------- MODULE ControlLogicProofs -------------------------
(***************************************************************************)
(* The control logic, for any tasks, tables, outputs and bounds: the parsed  *)
(* table follows the configuration, whoever changes and parses it, and an    *)
(* output that a pulse switched on has the end of the pulse in the schedule. *)
(***************************************************************************)
EXTENDS ControlLogic, FiniteSetTheorems, TLAPS

-----------------------------------------------------------------------------
(* The inductive invariant                                                 *)

Held  == {"recheck", "parse", "publish", "stamp"}
Steps == Held \union {"idle", "mark", "look", "compare", "lock", "use", "commands", "walk"}

(* Types of the part of the state that decides over the table; only clients  *)
(* change the configuration, and the lock is held between Recheck and Stamp.  *)
Typed ==
  /\ {storage, config_gen, table, table_gen} \subseteq Nat
  /\ pc \in [Tasks -> Steps] /\ pc[Main] \notin {"idle", "mark"}
  /\ seen \in [Tasks -> Nat] /\ parsed \in [Tasks -> Nat] /\ mine \in [Clients -> Nat]
  /\ \A t \in Tasks : pc[t] \in Held <=> refresher = t

(* The generation is behind the configuration by the changes that wait to be  *)
(* marked.                                                                 *)
Marking == {c \in Clients : pc[c] = "mark"}

Counted == storage = config_gen + Cardinality(Marking)

(* Nothing is ahead of the configuration, the stamp is not ahead of the       *)
(* table, and what a task has parsed under the lock is not older than either.  *)
Ordered ==
  /\ table_gen <= config_gen /\ table <= storage /\ table_gen <= table
  /\ \A t \in Tasks :
       /\ seen[t] <= config_gen /\ parsed[t] <= storage
       /\ pc[t] \in {"publish", "stamp"} => seen[t] <= parsed[t] /\ table <= parsed[t]
       /\ pc[t] = "stamp" => table = parsed[t]
  /\ \A c \in Clients : mine[c] <= storage

(* G[c] is the generation with which c has marked its last change: whatever   *)
(* carries that generation or a later one holds the change.                  *)
Holds(G, c) ==
  /\ G[c] <= config_gen
  /\ table_gen >= G[c] => table >= mine[c]
  /\ \A t \in Tasks :
       pc[t] \in {"publish", "stamp"} /\ seen[t] >= G[c] => parsed[t] >= mine[c]

Follows(G) ==
  \A c \in Clients :
    /\ pc[c] # "mark" => Holds(G, c)
    /\ pc[c] \in {"compare", "parse", "publish", "stamp"} => seen[c] >= G[c]
    /\ pc[c] = "use" => table >= mine[c]

Base == Typed /\ Counted /\ Ordered

IInv == Base /\ \E G \in [Clients -> Nat] : Follows(G)

-----------------------------------------------------------------------------
(* The changes that wait to be marked                                      *)

LEMMA MarkingFacts ==
  /\ IsFiniteSet(Marking) /\ Cardinality(Marking) \in Nat
  /\ Marking = {} <=> Cardinality(Marking) = 0
<1>1. IsFiniteSet(Marking)
  BY TasksAssumption, FS_Subset DEF Marking
<1> QED
  BY <1>1, FS_CardinalityType, FS_EmptySet

LEMMA SameMarking ==
  ASSUME Typed, NEW t \in Tasks, NEW s \in Steps \ {"mark"}, pc[t] # "mark", Goto(t, s)
  PROVE  Marking' = Marking
BY DEF Typed, Goto, Marking, Tasks

LEMMA MoreMarking ==
  ASSUME Typed, NEW c \in Clients, pc[c] = "idle", Goto(c, "mark")
  PROVE  Cardinality(Marking') = Cardinality(Marking) + 1
<1>1. Marking' = Marking \union {c} /\ c \notin Marking
  BY DEF Typed, Goto, Marking, Tasks
<1> QED
  BY <1>1, MarkingFacts, FS_AddElement

LEMMA LessMarking ==
  ASSUME Typed, NEW c \in Clients, pc[c] = "mark", Goto(c, "idle")
  PROVE  Cardinality(Marking') = Cardinality(Marking) - 1
<1>1. Marking' = Marking \ {c} /\ c \in Marking
  BY DEF Typed, Goto, Marking, Tasks
<1> QED
  BY <1>1, MarkingFacts, FS_RemoveElement

(* The configuration is not behind its generation.                          *)
LEMMA GenerationIsBehind == Base => config_gen <= storage
BY MarkingFacts DEF Base, Typed, Counted

-----------------------------------------------------------------------------
(* Initial states                                                          *)

LEMMA InitIInv == Init => IInv
<1> SUFFICES ASSUME Init PROVE IInv
  OBVIOUS
<1>1. Typed
  BY TasksAssumption DEF Init, Typed, Tasks, Steps, Held
<1>2. Counted
  <2>1. Marking = {}
    BY TasksAssumption DEF Init, Marking, Tasks
  <2> QED
    BY <2>1, FS_EmptySet DEF Init, Counted
<1>3. Ordered
  BY TasksAssumption DEF Init, Ordered, Tasks
<1>4. Follows([c \in Clients |-> 0])
  BY TasksAssumption DEF Init, Follows, Holds, Tasks
<1>5. [c \in Clients |-> 0] \in [Clients -> Nat]
  OBVIOUS
<1> QED
  BY <1>1, <1>2, <1>3, <1>4, <1>5 DEF IInv, Base

-----------------------------------------------------------------------------
(* refresh_table                                                           *)

LEMMA LookStep ==
  ASSUME Base, NEW t \in Tasks, Look(t)
  PROVE  /\ Base'
         /\ \A G \in [Clients -> Nat] : Follows(G) => Follows(G)'
<1>1. Typed'
  BY TasksAssumption DEF Base, Typed, Look, Goto, config, refresh, Steps, Held
<1>2. Counted'
  BY SameMarking DEF Base, Typed, Counted, Look, config, Steps, Held
<1>3. Ordered'
  BY DEF Base, Typed, Ordered, Look, Goto, config, refresh
<1>4. ASSUME NEW G \in [Clients -> Nat], Follows(G) PROVE Follows(G)'
  BY <1>4 DEF Base, Typed, Ordered, Follows, Holds, Look, Goto, config, refresh, Tasks
<1> QED
  BY <1>1, <1>2, <1>3, <1>4 DEF Base

LEMMA CompareStep ==
  ASSUME Base, NEW t \in Tasks, Compare(t)
  PROVE  /\ Base'
         /\ \A G \in [Clients -> Nat] : Follows(G) => Follows(G)'
<1> DEFINE step == IF table_gen = seen[t] THEN "use" ELSE "lock"
<1>0. /\ step \in {"use", "lock"} /\ (step = "use" => table_gen = seen[t])
      /\ pc[t] = "compare" /\ Goto(t, step) /\ UNCHANGED <<config, refresh, seen>>
  BY DEF Compare
<1> HIDE DEF step
<1>1. Typed'
  BY <1>0, TasksAssumption DEF Base, Typed, Goto, config, refresh, Steps, Held
<1>2. Counted'
  BY <1>0, SameMarking DEF Base, Typed, Counted, config, Steps, Held
<1>3. Ordered'
  BY <1>0 DEF Base, Typed, Ordered, Goto, config, refresh
<1>4. ASSUME NEW G \in [Clients -> Nat], Follows(G) PROVE Follows(G)'
  BY <1>0, <1>4 DEF Base, Typed, Ordered, Follows, Holds, Goto, config, refresh, Tasks
<1> QED
  BY <1>1, <1>2, <1>3, <1>4 DEF Base

LEMMA LockStep ==
  ASSUME Base, NEW t \in Tasks, Lock(t)
  PROVE  /\ Base'
         /\ \A G \in [Clients -> Nat] : Follows(G) => Follows(G)'
<1>1. Typed'
  BY TasksAssumption DEF Base, Typed, Lock, Goto, config, Steps, Held
<1>2. Counted'
  BY SameMarking DEF Base, Typed, Counted, Lock, config, Steps, Held
<1>3. Ordered'
  BY DEF Base, Typed, Ordered, Lock, Goto, config
<1>4. ASSUME NEW G \in [Clients -> Nat], Follows(G) PROVE Follows(G)'
  BY <1>4 DEF Base, Typed, Ordered, Follows, Holds, Lock, Goto, config, Tasks
<1> QED
  BY <1>1, <1>2, <1>3, <1>4 DEF Base

(* The generation is taken before the configuration is read, and it is not    *)
(* behind the one with which any change was marked.                         *)
LEMMA RecheckStep ==
  ASSUME Base, NEW t \in Tasks, Recheck(t)
  PROVE  /\ Base'
         /\ \A G \in [Clients -> Nat] : Follows(G) => Follows(G)'
<1>0. /\ pc[t] = "recheck" /\ seen' = [seen EXCEPT ![t] = config_gen]
      /\ UNCHANGED <<config, table, table_gen, parsed>>
  BY DEF Recheck
<1>1. CASE table_gen = config_gen
  <2>0. Goto(t, "use") /\ refresher' = NoTask
    BY <1>1 DEF Recheck
  <2>1. Typed'
    BY <1>0, <2>0, TasksAssumption DEF Base, Typed, Goto, config, Steps, Held, Tasks
  <2>2. Counted'
    BY <1>0, <2>0, SameMarking DEF Base, Typed, Counted, config, Steps, Held
  <2>3. Ordered'
    BY <1>0, <2>0 DEF Base, Typed, Ordered, Goto, config
  <2>4. ASSUME NEW G \in [Clients -> Nat], Follows(G) PROVE Follows(G)'
    BY <1>0, <1>1, <2>0, <2>4 DEF Base, Typed, Ordered, Follows, Holds, Goto, config, Tasks
  <2> QED
    BY <2>1, <2>2, <2>3, <2>4 DEF Base
<1>2. CASE table_gen # config_gen
  <2>0. Goto(t, "parse") /\ refresher' = refresher
    BY <1>2 DEF Recheck
  <2>1. Typed'
    BY <1>0, <2>0, TasksAssumption DEF Base, Typed, Goto, config, Steps, Held, Tasks
  <2>2. Counted'
    BY <1>0, <2>0, SameMarking DEF Base, Typed, Counted, config, Steps, Held
  <2>3. Ordered'
    BY <1>0, <2>0 DEF Base, Typed, Ordered, Goto, config
  <2>4. ASSUME NEW G \in [Clients -> Nat], Follows(G) PROVE Follows(G)'
    BY <1>0, <2>0, <2>4 DEF Base, Typed, Ordered, Follows, Holds, Goto, config, Tasks
  <2> QED
    BY <2>1, <2>2, <2>3, <2>4 DEF Base
<1> QED
  BY <1>1, <1>2

(* What is parsed now holds every change so far, marked or not.              *)
LEMMA ParseStep ==
  ASSUME Base, NEW t \in Tasks, Parse(t)
  PROVE  /\ Base'
         /\ \A G \in [Clients -> Nat] : Follows(G) => Follows(G)'
<1>1. Typed'
  BY TasksAssumption DEF Base, Typed, Parse, Goto, config, Steps, Held
<1>2. Counted'
  BY SameMarking DEF Base, Typed, Counted, Parse, config, Steps, Held
<1>3. Ordered'
  BY GenerationIsBehind DEF Base, Typed, Ordered, Parse, Goto, config
<1>4. ASSUME NEW G \in [Clients -> Nat], Follows(G) PROVE Follows(G)'
  BY <1>4 DEF Base, Typed, Ordered, Follows, Holds, Parse, Goto, config, Tasks
<1> QED
  BY <1>1, <1>2, <1>3, <1>4 DEF Base

(* Under the lock nobody else has parsed: the table only becomes newer.       *)
LEMMA OneParser ==
  ASSUME Typed, NEW t \in Tasks, pc[t] \in Held
  PROVE  \A u \in Tasks : pc[u] \in Held => u = t
BY DEF Typed

LEMMA PublishStep ==
  ASSUME Base, NEW t \in Tasks, Publish(t)
  PROVE  /\ Base'
         /\ \A G \in [Clients -> Nat] : Follows(G) => Follows(G)'
<1>0. \A u \in Tasks : pc[u] \in Held => u = t
  BY OneParser DEF Base, Publish, Held
<1>1. Typed'
  BY TasksAssumption DEF Base, Typed, Publish, Goto, config, Steps, Held
<1>2. Counted'
  BY SameMarking DEF Base, Typed, Counted, Publish, config, Steps, Held
<1>3. Ordered'
  BY <1>0 DEF Base, Typed, Ordered, Publish, Goto, config, Held
<1>4. ASSUME NEW G \in [Clients -> Nat], Follows(G) PROVE Follows(G)'
  BY <1>4 DEF Base, Typed, Ordered, Follows, Holds, Publish, Goto, config, Tasks
<1> QED
  BY <1>1, <1>2, <1>3, <1>4 DEF Base

LEMMA StampStep ==
  ASSUME Base, NEW t \in Tasks, Stamp(t)
  PROVE  /\ Base'
         /\ \A G \in [Clients -> Nat] : Follows(G) => Follows(G)'
<1>1. Typed'
  BY TasksAssumption DEF Base, Typed, Stamp, Goto, config, Steps, Held, Tasks
<1>2. Counted'
  BY SameMarking DEF Base, Typed, Counted, Stamp, config, Steps, Held
<1>3. Ordered'
  BY DEF Base, Typed, Ordered, Stamp, Goto, config
<1>4. ASSUME NEW G \in [Clients -> Nat], Follows(G) PROVE Follows(G)'
  BY <1>4 DEF Base, Typed, Ordered, Follows, Holds, Stamp, Goto, config, Tasks
<1> QED
  BY <1>1, <1>2, <1>3, <1>4 DEF Base

LEMMA RefreshStep ==
  ASSUME IInv, NEW t \in Tasks, Refresh(t)
  PROVE  IInv'
<1>1. Base' /\ \A G \in [Clients -> Nat] : Follows(G) => Follows(G)'
  BY LookStep, CompareStep, LockStep, RecheckStep, ParseStep, PublishStep, StampStep
  DEF IInv, Refresh
<1>2. PICK G \in [Clients -> Nat] : Follows(G)
  BY DEF IInv
<1>3. Follows(G)'
  BY <1>1, <1>2
<1> QED
  BY <1>1, <1>3 DEF IInv

-----------------------------------------------------------------------------
(* Changes of the configuration                                            *)

LEMMA ChangeStep ==
  ASSUME IInv, NEW c \in Clients, ChangeConfig(c), pc[c] = "idle"
  PROVE  IInv'
<1>0. /\ Goto(c, "mark") /\ storage' = storage + 1 /\ mine' = [mine EXCEPT ![c] = storage + 1]
      /\ UNCHANGED <<config_gen, refresh, seen>>
  BY DEF ChangeConfig
<1>1. Typed'
  BY <1>0, TasksAssumption DEF IInv, Base, Typed, Goto, refresh, Steps, Held, Tasks
<1>2. Counted'
  BY <1>0, MoreMarking, MarkingFacts DEF IInv, Base, Typed, Counted
<1>3. Ordered'
  BY <1>0 DEF IInv, Base, Typed, Ordered, Goto, refresh, Tasks
<1>4. PICK G \in [Clients -> Nat] : Follows(G)
  BY DEF IInv
<1>5. Follows(G)'
  BY <1>0, <1>4 DEF IInv, Base, Typed, Ordered, Follows, Holds, Goto, refresh, Tasks
<1> QED
  BY <1>1, <1>2, <1>3, <1>5 DEF IInv, Base

(* Nothing carries the new generation yet.                                   *)
LEMMA MarkStep ==
  ASSUME IInv, NEW c \in Clients, ChangeConfig(c), pc[c] = "mark"
  PROVE  IInv'
<1>0. /\ Goto(c, "idle") /\ config_gen' = config_gen + 1
      /\ UNCHANGED <<storage, mine, refresh, seen>>
  BY DEF ChangeConfig
<1>1. Typed'
  BY <1>0, TasksAssumption DEF IInv, Base, Typed, Goto, refresh, Steps, Held, Tasks
<1>2. Counted'
  BY <1>0, LessMarking, MarkingFacts DEF IInv, Base, Typed, Counted
<1>3. Ordered'
  BY <1>0 DEF IInv, Base, Typed, Ordered, Goto, refresh, Tasks
<1>4. PICK G \in [Clients -> Nat] : Follows(G)
  BY DEF IInv
<1>5. PICK H \in [Clients -> Nat] : H = [G EXCEPT ![c] = config_gen + 1]
  <2>1. [G EXCEPT ![c] = config_gen + 1] \in [Clients -> Nat]
    BY DEF IInv, Base, Typed
  <2> QED
    BY <2>1
<1>6. H[c] = config_gen + 1 /\ \A d \in Clients \ {c} : H[d] = G[d]
  BY <1>5
<1>7. Holds(H, c)'
  BY <1>0, <1>6 DEF IInv, Base, Typed, Ordered, Holds, Goto, refresh, Tasks
<1>8. ASSUME NEW d \in Clients \ {c}, pc[d] # "mark" PROVE Holds(H, d)'
  BY <1>0, <1>4, <1>6, <1>8 DEF IInv, Base, Typed, Follows, Holds, Goto, refresh, Tasks
<1>9. Follows(H)'
  BY <1>0, <1>4, <1>6, <1>7, <1>8 DEF IInv, Base, Typed, Follows, Goto, refresh, Tasks
<1> QED
  BY <1>1, <1>2, <1>3, <1>9 DEF IInv, Base

-----------------------------------------------------------------------------
(* All other steps                                                         *)

(* They leave alone what the invariant speaks of, but for tasks that go on    *)
(* and are neither in refresh_table nor in a change.                         *)
Elsewhere == {"idle", "look", "commands", "walk"}

LEMMA ElsewhereStep ==
  ASSUME IInv, UNCHANGED <<config, refresh, seen>>,
         \/ UNCHANGED pc
         \/ \E t \in Tasks, s \in Elsewhere :
              /\ pc[t] \notin Held \union {"mark"}
              /\ t = Main => s # "idle"
              /\ Goto(t, s)
  PROVE  IInv'
<1>1. CASE UNCHANGED pc
  <2>1. Base'
    BY <1>1 DEF IInv, Base, Typed, Counted, Ordered, Marking, config, refresh
  <2>2. PICK G \in [Clients -> Nat] : Follows(G)
    BY DEF IInv
  <2>3. Follows(G)'
    BY <1>1, <2>2 DEF Follows, Holds, config, refresh
  <2> QED
    BY <2>1, <2>3 DEF IInv
<1>2. ASSUME NEW t \in Tasks, NEW s \in Elsewhere,
             pc[t] \notin Held \union {"mark"}, t = Main => s # "idle", Goto(t, s)
      PROVE  IInv'
  <2>1. s \in Steps \ {"mark"} /\ s \notin Held \union {"mark", "compare", "use"}
    BY <1>2 DEF Elsewhere, Steps, Held
  <2>2. Typed'
    BY <1>2, <2>1, TasksAssumption DEF IInv, Base, Typed, Goto, config, refresh, Tasks
  <2>3. Counted'
    BY <1>2, <2>1, SameMarking DEF IInv, Base, Counted, config
  <2>4. Ordered'
    BY <1>2, <2>1 DEF IInv, Base, Typed, Ordered, Goto, config, refresh, Held
  <2>5. PICK G \in [Clients -> Nat] : Follows(G)
    BY DEF IInv
  <2>6. Follows(G)'
    BY <1>2, <2>1, <2>5 DEF IInv, Base, Typed, Follows, Holds, Goto, config, refresh, Held, Tasks
  <2> QED
    BY <2>2, <2>3, <2>4, <2>6 DEF IInv, Base
<1> QED
  BY <1>1, <1>2

LEMMA InductiveStep == IInv /\ [Next]_vars => IInv'
<1> SUFFICES ASSUME IInv, [Next]_vars PROVE IInv'
  OBVIOUS
<1>0. Main \in Tasks /\ Clients \subseteq Tasks /\ Main \notin Clients
  BY TasksAssumption DEF Tasks
<1>1. ASSUME NEW c \in Clients, ChangeConfig(c) PROVE IInv'
  BY <1>1, ChangeStep, MarkStep DEF ChangeConfig
<1>2. ASSUME NEW c \in Clients, NEW l \in Logics, WriteWord(c, l) PROVE IInv'
  <2>1. /\ UNCHANGED <<config, refresh, seen>>
        /\ pc[c] \notin Held \union {"mark"} /\ "look" \in Elsewhere /\ Goto(c, "look")
    BY <1>2 DEF WriteWord, Held, Elsewhere
  <2> QED
    BY <1>0, <2>1, ElsewhereStep
<1>3. ASSUME NEW c \in Clients, Refresh(c) PROVE IInv'
  BY <1>0, <1>3, RefreshStep
<1>4. ASSUME NEW c \in Clients, Enqueue(c) PROVE IInv'
  <2>1. /\ UNCHANGED <<config, refresh, seen>>
        /\ pc[c] \notin Held \union {"mark"} /\ "idle" \in Elsewhere /\ Goto(c, "idle")
    BY <1>4 DEF Enqueue, Held, Elsewhere
  <2> QED
    BY <1>0, <2>1, ElsewhereStep
<1>5. CASE Refresh(Main)
  BY <1>0, <1>5, RefreshStep
<1>6. CASE BeginCommands
  <2>1. /\ UNCHANGED <<config, refresh, seen>>
        /\ pc[Main] \notin Held \union {"mark"} /\ "commands" \in Elsewhere
        /\ Goto(Main, "commands")
    BY <1>6 DEF BeginCommands, Held, Elsewhere
  <2> QED
    BY <1>0, <2>1, ElsewhereStep
<1>7. CASE BeginWalk
  <2>1. /\ UNCHANGED <<config, refresh, seen>>
        /\ pc[Main] \notin Held \union {"mark"} /\ "walk" \in Elsewhere /\ Goto(Main, "walk")
    BY <1>7 DEF BeginWalk, Held, Elsewhere
  <2> QED
    BY <1>0, <2>1, ElsewhereStep
<1>8. CASE EndWalk
  <2>1. /\ UNCHANGED <<config, refresh, seen>>
        /\ pc[Main] \notin Held \union {"mark"} /\ "look" \in Elsewhere /\ Goto(Main, "look")
    BY <1>8 DEF EndWalk, Held, Elsewhere
  <2> QED
    BY <1>0, <2>1, ElsewhereStep
<1>9. CASE TakeCommand \/ Apply \/ NotYet \/ Time \/ UNCHANGED vars
  <2>1. UNCHANGED <<config, refresh, seen, pc>>
    BY <1>9 DEF TakeCommand, Apply, NotYet, Time, vars
  <2> QED
    BY <2>1, ElsewhereStep
<1> QED
  BY <1>1, <1>2, <1>3, <1>4, <1>5, <1>6, <1>7, <1>8, <1>9 DEF Next, MainStep

-----------------------------------------------------------------------------
(* The results                                                             *)

(* The invariant of the table and its generations holds in every reachable    *)
(* state.                                                                  *)
THEOREM Invariant == Spec => []IInv
BY InitIInv, InductiveStep, PTL DEF Spec

(* A table whose generation is the configuration's, when no change waits to   *)
(* be marked, is the parse of the stored configuration, whoever parsed it.    *)
THEOREM TableIsCurrent == Spec => []TableCurrent
<1>1. IInv => TableCurrent
  <2> SUFFICES ASSUME IInv, table_gen = config_gen, \A c \in Clients : pc[c] # "mark"
               PROVE  table = storage
    BY DEF TableCurrent
  <2>1. Marking = {}
    BY DEF Marking
  <2>2. storage = config_gen
    BY <2>1, MarkingFacts DEF IInv, Base, Typed, Counted
  <2> QED
    BY <2>2 DEF IInv, Base, Typed, Ordered
<1> QED
  BY <1>1, Invariant, PTL

(* The command of a client's control word is taken from a table at least as   *)
(* new as the client's own last change of the configuration.                 *)
THEOREM OwnConfigIsUsed == Spec => []OwnConfig
<1>1. IInv => OwnConfig
  BY DEF IInv, Follows, OwnConfig
<1> QED
  BY <1>1, Invariant, PTL

-----------------------------------------------------------------------------
(* The schedule: a pulse has its end                                         *)

(* Sequences with some of their places left out                              *)
LEMMA Ranked ==
  ASSUME NEW S, NEW s \in Seq(S), NEW kept, kept \subseteq DOMAIN s
  PROVE  /\ Retain(s, kept) \in Seq(S) /\ Len(Retain(s, kept)) = Cardinality(kept)
         /\ \A n \in DOMAIN Retain(s, kept) : \E i \in kept : Retain(s, kept)[n] = s[i]
         /\ \A i \in kept : \E n \in DOMAIN Retain(s, kept) : Retain(s, kept)[n] = s[i]
<1> DEFINE upto(i) == {j \in kept : j <= i}
           N == Cardinality(kept)
           rank == [i \in kept |-> Cardinality(upto(i))]
<1>0. kept \subseteq Nat /\ IsFiniteSet(kept) /\ N \in Nat
  <2>1. Len(s) \in Nat /\ DOMAIN s = 1 .. Len(s)
    OBVIOUS
  <2>2. IsFiniteSet(1 .. Len(s))
    BY <2>1, FS_Interval
  <2> QED
    BY <2>1, <2>2, FS_Subset, FS_CardinalityType
<1>1. \A i \in kept : IsFiniteSet(upto(i)) /\ Cardinality(upto(i)) \in 1 .. N
  <2> TAKE i \in kept
  <2>1. upto(i) \in SUBSET kept /\ i \in upto(i)
    BY <1>0
  <2>2. IsFiniteSet(upto(i)) /\ Cardinality(upto(i)) <= N
    BY <1>0, <2>1, FS_Subset
  <2>3. Cardinality(upto(i)) \in Nat /\ Cardinality(upto(i)) # 0
    BY <2>1, <2>2, FS_CardinalityType, FS_EmptySet
  <2> HIDE DEF upto, N
  <2> QED
    BY <1>0, <2>2, <2>3
<1>2. \A i, j \in kept : i < j => Cardinality(upto(i)) # Cardinality(upto(j))
  <2> SUFFICES ASSUME NEW i \in kept, NEW j \in kept, i < j, Cardinality(upto(i)) = Cardinality(upto(j))
               PROVE  FALSE
    OBVIOUS
  <2>1. upto(i) \in SUBSET upto(j) /\ j \in upto(j) /\ j \notin upto(i)
    BY <1>0
  <2>2. IsFiniteSet(upto(j))
    BY <1>1
  <2> HIDE DEF upto
  <2> QED
    BY <2>1, <2>2, FS_Subset
<1>3. rank \in Injection(kept, 1 .. N)
  <2>1. rank \in [kept -> 1 .. N]
    BY <1>1
  <2>2. ASSUME NEW i \in kept, NEW j \in kept, rank[i] = rank[j]
        PROVE  i = j
    <3>1. Cardinality(upto(i)) = Cardinality(upto(j)) /\ i \in Nat /\ j \in Nat
      BY <1>0, <2>2
    <3>2. ~(i < j) /\ ~(j < i)
      BY <1>2, <3>1
    <3> QED
      BY <3>1, <3>2
  <2> HIDE DEF rank
  <2> QED
    BY <2>1, <2>2 DEF Injection, IsInjective
<1>4. IsFiniteSet(1 .. N) /\ Cardinality(1 .. N) = N
  <2> HIDE DEF N
  <2> QED
    BY <1>0, FS_Interval
<1>5. rank \in Surjection(kept, 1 .. N)
  <2> HIDE DEF rank
  <2> QED
    BY <1>3, <1>4, FS_Injection DEF N
<1>6. \A n \in 1 .. N : \E i \in kept : Cardinality(upto(i)) = n
  BY <1>5 DEF Surjection
<1> DEFINE at(n) == CHOOSE i \in kept : Cardinality(upto(i)) = n
<1>7. \A n \in 1 .. N : at(n) \in kept /\ Cardinality(upto(at(n))) = n
  BY <1>6
<1>8. \A i \in kept : at(Cardinality(upto(i))) = i
  <2> TAKE i \in kept
  <2>1. at(Cardinality(upto(i))) \in kept
        /\ Cardinality(upto(at(Cardinality(upto(i))))) = Cardinality(upto(i))
    BY <1>1, <1>7
  <2> HIDE DEF at, upto
  <2> QED
    BY <1>0, <1>2, <2>1
<1>9. Retain(s, kept) = [n \in 1 .. N |-> s[at(n)]]
  BY DEF Retain
<1>10. \A i \in kept : s[i] \in S
  OBVIOUS
<1> HIDE DEF at, upto, rank, N
<1>11. [n \in 1 .. N |-> s[at(n)]] \in Seq(S) /\ Len([n \in 1 .. N |-> s[at(n)]]) = N
  BY <1>0, <1>7, <1>10
<1>12. DOMAIN Retain(s, kept) = 1 .. N /\ \A n \in 1 .. N : Retain(s, kept)[n] = s[at(n)]
  BY <1>9
<1>13. \A i \in kept : \E n \in 1 .. N : s[at(n)] = s[i]
  BY <1>1, <1>8
<1> QED
  BY <1>7, <1>9, <1>11, <1>12, <1>13 DEF N

LEMMA Removed ==
  ASSUME NEW S, NEW s \in Seq(S), NEW i \in DOMAIN s
  PROVE  /\ SwapRemove(s, i) \in Seq(S)
         /\ \A n \in DOMAIN SwapRemove(s, i) : \E j \in DOMAIN s : SwapRemove(s, i)[n] = s[j]
         /\ \A j \in DOMAIN s \ {i} : \E n \in DOMAIN SwapRemove(s, i) : SwapRemove(s, i)[n] = s[j]
<1> DEFINE N == Len(s)
           f == Front(s)
           r == SwapRemove(s, i)
<1>1. N \in Nat /\ N > 0 /\ DOMAIN s = 1 .. N /\ i \in 1 .. N
  OBVIOUS
<1>2. /\ f \in Seq(S) /\ DOMAIN f = 1 .. N - 1 /\ \A j \in 1 .. N - 1 : f[j] = s[j]
      /\ Last(s) = s[N] /\ s[N] \in S
  BY <1>1 DEF Front, Last
<1> HIDE DEF f, N
<1>3. CASE i = N
  <2>1. r = f
    BY <1>3 DEF SwapRemove, f, N
  <2> HIDE DEF r
  <2> QED
    BY <1>1, <1>2, <1>3, <2>1 DEF r
<1>4. CASE i # N
  <2>1. r = [f EXCEPT ![i] = s[N]] /\ i \in DOMAIN f
    BY <1>1, <1>2, <1>4 DEF SwapRemove, f, N
  <2> HIDE DEF r
  <2>2. r \in Seq(S) /\ DOMAIN r = 1 .. N - 1 /\ r[i] = s[N] /\ \A j \in 1 .. N - 1 : j # i => r[j] = s[j]
    BY <1>1, <1>2, <2>1
  <2>3. \A n \in DOMAIN r : \E j \in DOMAIN s : r[n] = s[j]
    BY <1>1, <2>2
  <2>4. \A j \in DOMAIN s \ {i} : \E n \in DOMAIN r : r[n] = s[j]
    BY <1>1, <1>4, <2>2
  <2> QED
    BY <2>2, <2>3, <2>4 DEF r
<1> QED
  BY <1>3, <1>4

(* A control word addresses a logic, the schedule holds edges that switch only the *)
(* outputs they are about, and so do the commands.                             *)
Addressed ==
  /\ storage <= Len(Tables)
  /\ target = [c \in Clients |-> target[c]]
  /\ \A c \in Clients : pc[c] \notin {"idle", "mark"} => target[c] \in Logics

Commands == {c \in Command : c.on \subseteq c.scope}
EdgeSet  == {e \in Edge : e.value \subseteq e.mask}

Placed ==
  /\ commands \in Seq(Commands) /\ scheduled \in Seq(EdgeSet)
  /\ index \in Nat \ {0} /\ since \in Nat /\ {late, orphaned} \subseteq BOOLEAN

(* The first edge of a pulse has the second one behind it, in a walk strictly.     *)
IsEndOf(e, d) == e.transient /\ ~d.transient /\ d.logic = e.logic /\ d.mask = e.mask /\ e.left <= d.left

PulsesEnd ==
  /\ \A i \in DOMAIN scheduled : scheduled[i].transient =>
       \E j \in DOMAIN scheduled : IsEndOf(scheduled[i], scheduled[j])
  /\ pc[Main] = "walk" => ~BothEdgesDue
  /\ ~orphaned => PulseHasItsEnd

ScheduleInv == Addressed /\ Placed /\ (~late => PulsesEnd)

LEMMA ScheduleInit == Init => ScheduleInv
<1> SUFFICES ASSUME Init PROVE ScheduleInv
  OBVIOUS
<1>1. Addressed
  <2>1. Len(Tables) \in Nat /\ Len(Tables) # 0
    BY TablesAssumption
  <2> QED
    BY <2>1, TasksAssumption DEF Init, Addressed, Tasks
<1>2. Placed
  <2>1. commands = <<>> /\ scheduled = <<>> /\ index = 1 /\ since = 0 /\ late = FALSE /\ orphaned = FALSE
    BY DEF Init
  <2>2. commands \in Seq(Commands) /\ scheduled \in Seq(EdgeSet)
    BY <2>1
  <2>3. index \in Nat \ {0} /\ since \in Nat
    BY <2>1
  <2>4. {late, orphaned} \subseteq BOOLEAN
    BY <2>1
  <2> QED
    BY <2>2, <2>3, <2>4 DEF Placed
<1>3. PulsesEnd
  BY DEF Init, PulsesEnd, BothEdgesDue, PulseHasItsEnd
<1> QED
  BY <1>1, <1>2, <1>3 DEF ScheduleInv

(* Tables and targets                                                        *)
LEMMA AddressedKept == IInv /\ Addressed /\ [Next]_vars => Addressed'
<1> SUFFICES ASSUME IInv, Addressed, [Next]_vars PROVE Addressed'
  OBVIOUS
<1>0. Len(Tables) \in Nat /\ storage \in Nat /\ pc = [t \in Tasks |-> pc[t]]
      /\ Clients \subseteq Tasks /\ Main \notin Clients
  BY TablesAssumption, TasksAssumption DEF IInv, Base, Typed, Tasks
<1>1. ASSUME NEW c \in Clients, ChangeConfig(c) PROVE Addressed'
  <2>1. CASE pc[c] = "idle" /\ storage < Len(Tables) /\ Goto(c, "mark") /\ storage' = storage + 1
    <3>1. storage' <= Len(Tables) /\ target' = target
      BY <1>0, <1>1, <2>1 DEF ChangeConfig
    <3>2. \A d \in Clients : pc'[d] \notin {"idle", "mark"} => pc[d] \notin {"idle", "mark"}
      BY <1>0, <2>1 DEF Goto
    <3> QED
      BY <3>1, <3>2 DEF Addressed
  <2>2. CASE pc[c] = "mark" /\ Goto(c, "idle") /\ UNCHANGED storage
    BY <1>0, <1>1, <2>2 DEF ChangeConfig, Addressed, Goto
  <2> QED
    BY <1>1, <2>1, <2>2 DEF ChangeConfig
<1>2. ASSUME NEW c \in Clients, NEW l \in Logics, WriteWord(c, l) PROVE Addressed'
  BY <1>0, <1>2 DEF WriteWord, Addressed, Goto, config
<1>3. ASSUME NEW t \in Tasks, Refresh(t) PROVE Addressed'
  <2>1. UNCHANGED <<storage, target>> /\ pc[t] \notin {"idle", "mark"} /\ \E s : Goto(t, s)
    BY <1>3 DEF Refresh, Look, Compare, Lock, Recheck, Parse, Publish, Stamp, config
  <2> QED
    BY <1>0, <2>1 DEF Addressed, Goto
<1>4. ASSUME NEW c \in Clients, Enqueue(c) PROVE Addressed'
  BY <1>0, <1>4 DEF Enqueue, Addressed, Goto, config
<1>5. CASE BeginCommands \/ TakeCommand \/ BeginWalk \/ Apply \/ NotYet \/ EndWalk \/ Time \/ UNCHANGED vars
  <2>1. UNCHANGED <<storage, target>> /\ (UNCHANGED pc \/ \E s : Goto(Main, s))
    BY <1>5 DEF BeginCommands, TakeCommand, BeginWalk, Apply, NotYet, EndWalk, Time, vars, config
  <2> QED
    BY <1>0, <2>1 DEF Addressed, Goto
<1> QED
  BY <1>0, <1>1, <1>2, <1>3, <1>4, <1>5, TasksAssumption DEF Next, MainStep, Tasks

(* Steps that leave the schedule alone                                         *)
LEMMA ScheduleStays ==
  ASSUME Placed, ~late => PulsesEnd, UNCHANGED <<commands, schedule>>, pc'[Main] = "walk" => pc[Main] = "walk"
  PROVE  Placed' /\ (~late' => PulsesEnd')
BY DEF Placed, PulsesEnd, BothEdgesDue, PulseHasItsEnd, schedule

LEMMA EnqueuePlaces ==
  ASSUME IInv, Addressed, Placed, ~late => PulsesEnd, NEW c \in Clients, Enqueue(c)
  PROVE  Placed' /\ (~late' => PulsesEnd')
<1>1. pc'[Main] = pc[Main] /\ UNCHANGED schedule
  BY TasksAssumption DEF Enqueue, Goto, IInv, Base, Typed, Tasks
<1>2. commands' \in Seq(Commands)
  <2>1. CASE UNCHANGED commands
    BY <2>1 DEF Placed
  <2>2. ASSUME table > 0, NEW on \in SUBSET Tables[table][target[c]].scope,
               commands' = Append(commands, CommandFor(target[c], on))
        PROVE  commands' \in Seq(Commands)
    <3>1. target[c] \in Logics
      BY DEF Addressed, Enqueue
    <3>2. table \in DOMAIN Tables
      BY <2>2, TablesAssumption DEF IInv, Base, Typed, Ordered, Addressed
    <3>3. Tables[table][target[c]] \in Plan
      BY <3>1, <3>2, TablesAssumption
    <3>4. CommandFor(target[c], on) \in Commands
      BY <3>1, <3>3 DEF CommandFor, Commands, Command, Plan
    <3> QED
      BY <2>2, <3>4 DEF Placed
  <2> QED
    BY <2>1, <2>2 DEF Enqueue
<1> QED
  BY <1>1, <1>2 DEF Placed, PulsesEnd, BothEdgesDue, PulseHasItsEnd, schedule

(* Time passes for all edges; the walk begins when no pulse has both edges due.     *)
LEMMA TimePlaces ==
  ASSUME Placed, ~late => PulsesEnd, Time
  PROVE  Placed' /\ (~late' => PulsesEnd')
<1> DEFINE n == Len(scheduled)
<1>1. /\ n \in Nat /\ DOMAIN scheduled = 1 .. n
      /\ \A i \in 1 .. n : scheduled[i] \in EdgeSet
  BY DEF Placed
<1>2. \A e \in EdgeSet : /\ Sooner(e) \in EdgeSet /\ Sooner(e).transient = e.transient
                         /\ Sooner(e).mask = e.mask /\ Sooner(e).logic = e.logic
                         /\ Sooner(e).left = IF e.left = 0 THEN 0 ELSE e.left - 1
                         /\ e.left \in Nat
  BY DEF EdgeSet, Edge, Sooner
<1>3. scheduled' = [i \in 1 .. n |-> Sooner(scheduled[i])]
  BY <1>1 DEF Time
<1>4. DOMAIN scheduled' = 1 .. n /\ scheduled' \in Seq(EdgeSet) /\ \A i \in 1 .. n : scheduled'[i] = Sooner(scheduled[i])
  BY <1>1, <1>2, <1>3
<1>5. Placed'
  BY <1>4 DEF Placed, Time
<1>6. \A e, d \in EdgeSet : IsEndOf(e, d) => IsEndOf(Sooner(e), Sooner(d))
  BY <1>2 DEF IsEndOf
<1> HIDE DEF n
<1>7. ASSUME PulsesEnd PROVE PulsesEnd'
  <2>1. \A i \in DOMAIN scheduled' : scheduled'[i].transient =>
          \E j \in DOMAIN scheduled' : IsEndOf(scheduled'[i], scheduled'[j])
    BY <1>1, <1>2, <1>4, <1>6, <1>7 DEF PulsesEnd
  <2>2. PulseHasItsEnd => PulseHasItsEnd'
    BY <1>1, <1>2, <1>4 DEF PulseHasItsEnd, Time
  <2> QED
    BY <1>7, <2>1, <2>2 DEF PulsesEnd, Time
<1> QED
  BY <1>5, <1>7 DEF Time

LEMMA WalkPlaces ==
  ASSUME Placed, ~late => PulsesEnd, BeginWalk
  PROVE  Placed' /\ (~late' => PulsesEnd')
<1>1. /\ UNCHANGED <<commands, scheduled, out, transient, orphaned>> /\ index' = 1 /\ since' = 0
      /\ late' = (late \/ BothEdgesDue)
  BY DEF BeginWalk
<1>2. late \in BOOLEAN /\ BothEdgesDue \in BOOLEAN
  BY DEF Placed, BothEdgesDue
<1>3. (BothEdgesDue <=> BothEdgesDue') /\ (PulseHasItsEnd <=> PulseHasItsEnd')
  BY <1>1 DEF BothEdgesDue, PulseHasItsEnd
<1>4. late' \in BOOLEAN /\ (~late' => ~late /\ ~BothEdgesDue)
  BY <1>1, <1>2
<1>5. Placed'
  BY <1>1, <1>4 DEF Placed
<1> QED
  BY <1>1, <1>3, <1>4, <1>5 DEF PulsesEnd

(* An edge is carried out: what ends another pulse stays, for both edges of a pulse *)
(* are not due in one walk.                                                  *)
LEMMA ApplyPlaces ==
  ASSUME Placed, ~late => PulsesEnd, Apply
  PROVE  Placed' /\ (~late' => PulsesEnd')
<1> DEFINE e == scheduled[index]
<1>0. index \in DOMAIN scheduled
  BY DEF Apply, Placed
<1>1. e \in EdgeSet /\ e.left = 0 /\ e.value \subseteq e.mask
      /\ out' = (out \ e.mask) \union e.value
      /\ transient' = (IF e.transient THEN transient \union e.mask ELSE transient \ e.mask)
  BY <1>0 DEF Apply, Placed, EdgeSet
<1>2. /\ scheduled' \in Seq(EdgeSet)
      /\ \A n \in DOMAIN scheduled' : \E j \in DOMAIN scheduled : scheduled'[n] = scheduled[j]
      /\ \A j \in DOMAIN scheduled \ {index} : \E n \in DOMAIN scheduled' : scheduled'[n] = scheduled[j]
  BY <1>0, Removed DEF Apply, Placed
<1>3. Placed'
  BY <1>2 DEF Apply, Placed
<1>4. ASSUME PulsesEnd PROVE PulsesEnd'
  <2>1. ~BothEdgesDue /\ pc[Main] = "walk"
    BY <1>4 DEF PulsesEnd, Apply
  <2>2. ASSUME NEW i \in DOMAIN scheduled, NEW j \in DOMAIN scheduled, IsEndOf(scheduled[i], scheduled[j])
        PROVE  j # index
    <3>1. SUFFICES ASSUME j = index PROVE FALSE
      OBVIOUS
    <3>2. scheduled[i].left \in Nat /\ scheduled[i].left <= 0 /\ scheduled[j].left = 0
      BY <1>1, <2>2, <3>1 DEF IsEndOf, Placed, EdgeSet, Edge
    <3> QED
      BY <2>1, <2>2, <3>2 DEF BothEdgesDue, IsEndOf
  <2>3. \A n \in DOMAIN scheduled' : scheduled'[n].transient =>
          \E m \in DOMAIN scheduled' : IsEndOf(scheduled'[n], scheduled'[m])
    <3> SUFFICES ASSUME NEW n \in DOMAIN scheduled', scheduled'[n].transient
                 PROVE  \E m \in DOMAIN scheduled' : IsEndOf(scheduled'[n], scheduled'[m])
      OBVIOUS
    <3>1. PICK i \in DOMAIN scheduled : scheduled'[n] = scheduled[i]
      BY <1>2
    <3>2. PICK j \in DOMAIN scheduled : IsEndOf(scheduled[i], scheduled[j])
      BY <1>4, <3>1 DEF PulsesEnd
    <3>3. PICK m \in DOMAIN scheduled' : scheduled'[m] = scheduled[j]
      BY <1>2, <2>2, <3>2
    <3> QED
      BY <3>1, <3>2, <3>3
  <2>4. ~BothEdgesDue'
    <3>1. \A x \in DOMAIN scheduled', y \in DOMAIN scheduled' :
            ~(/\ scheduled'[x].logic = scheduled'[y].logic
              /\ scheduled'[x].transient /\ ~ scheduled'[y].transient
              /\ scheduled'[x].left = 0 /\ scheduled'[y].left = 0)
      BY <1>2, <2>1 DEF BothEdgesDue
    <3> QED
      BY <3>1 DEF BothEdgesDue
  <2>5. ASSUME PulseHasItsEnd PROVE PulseHasItsEnd'
    <3> SUFFICES ASSUME NEW q \in out' \intersect transient'
                 PROVE  \E n \in DOMAIN scheduled' : q \in scheduled'[n].mask /\ ~scheduled'[n].transient
      BY DEF PulseHasItsEnd
    <3>1. CASE q \in e.mask
      <4>1. e.transient
        BY <1>1, <3>1
      <4>2. PICK j \in DOMAIN scheduled : IsEndOf(scheduled[index], scheduled[j])
        BY <1>0, <1>4, <4>1 DEF PulsesEnd
      <4>3. j # index /\ q \in scheduled[j].mask /\ ~scheduled[j].transient
        BY <1>0, <2>2, <3>1, <4>2 DEF IsEndOf
      <4> QED
        BY <1>2, <4>3
    <3>2. CASE q \notin e.mask
      <4>1. q \in out \intersect transient
        BY <1>1, <3>2
      <4>2. PICK j \in DOMAIN scheduled : q \in scheduled[j].mask /\ ~scheduled[j].transient
        BY <2>5, <4>1 DEF PulseHasItsEnd
      <4>3. j # index
        BY <3>2, <4>2
      <4> QED
        BY <1>2, <4>2, <4>3
    <3> QED
      BY <3>1, <3>2
  <2> QED
    BY <1>4, <2>3, <2>4, <2>5 DEF PulsesEnd, Apply
<1> QED
  BY <1>3, <1>4 DEF Apply

(* The edges of a command                                                     *)
LEMMA EdgesOfCommand ==
  ASSUME NEW c \in Commands, since \in Nat
  PROVE  /\ Edges(c) \in Seq(EdgeSet) /\ Len(Edges(c)) \in {1, 2}
         /\ \A i \in DOMAIN Edges(c) : Edges(c)[i].transient =>
              \E j \in DOMAIN Edges(c) : IsEndOf(Edges(c)[i], Edges(c)[j])
         /\ \E j \in DOMAIN Edges(c) : ~Edges(c)[j].transient /\ Edges(c)[j].mask = c.scope
<1> DEFINE edge(time, value, brief) ==
             [logic |-> c.logic, left |-> Left(time), mask |-> c.scope, value |-> value, transient |-> brief]
           one == edge(c.delay, c.on, FALSE)
           on  == edge(c.delay, c.on, TRUE)
           off == edge(c.delay + c.pulse, {}, FALSE)
<1>1. /\ c.delay \in Nat /\ c.pulse \in Nat /\ c.logic \in Logics /\ c.scope \subseteq Outputs
      /\ c.on \subseteq c.scope
  BY DEF Commands, Command
<1>2. \A t \in Nat : Left(t) \in Nat
  BY DEF Left
<1>3. Left(c.delay) <= Left(c.delay + c.pulse)
  BY <1>1 DEF Left
<1>4. one \in EdgeSet /\ on \in EdgeSet /\ off \in EdgeSet
  BY <1>1, <1>2 DEF EdgeSet, Edge
<1>5. IsEndOf(on, off) /\ ~one.transient /\ ~off.transient /\ one.mask = c.scope /\ off.mask = c.scope
  BY <1>3 DEF IsEndOf
<1>6. Edges(c) = IF c.pulse = 0 THEN <<one>> ELSE <<on, off>>
  BY DEF Edges
<1> HIDE DEF edge, one, on, off
<1>7. CASE c.pulse = 0
  <2>1. Edges(c) \in Seq(EdgeSet) /\ Len(Edges(c)) = 1 /\ DOMAIN Edges(c) = {1} /\ Edges(c)[1] = one
    BY <1>4, <1>6, <1>7
  <2> QED
    BY <1>5, <2>1
<1>8. CASE c.pulse # 0
  <2>1. Edges(c) \in Seq(EdgeSet) /\ Len(Edges(c)) = 2 /\ DOMAIN Edges(c) = {1, 2} /\ Edges(c)[1] = on /\ Edges(c)[2] = off
    BY <1>4, <1>6, <1>8
  <2> QED
    BY <1>5, <2>1
<1> QED
  BY <1>7, <1>8

(* What u takes from s and from t, and that it takes everything.                *)
Joins(u, s, t) ==
  /\ \A n \in DOMAIN u : (\E i \in DOMAIN s : u[n] = s[i]) \/ (\E j \in DOMAIN t : u[n] = t[j])
  /\ \A i \in DOMAIN s : \E n \in DOMAIN u : u[n] = s[i]
  /\ \A j \in DOMAIN t : \E n \in DOMAIN u : u[n] = t[j]

LEMMA Appended ==
  ASSUME NEW S, NEW s \in Seq(S), NEW t \in Seq(S)
  PROVE  s \o t \in Seq(S) /\ Joins(s \o t, s, t)
<1> DEFINE u == s \o t
           m == Len(s)
           k == Len(t)
<1>1. /\ u \in Seq(S) /\ m \in Nat /\ k \in Nat /\ Len(u) = m + k
      /\ DOMAIN u = 1 .. m + k /\ DOMAIN s = 1 .. m /\ DOMAIN t = 1 .. k
      /\ \A i \in 1 .. m : u[i] = s[i]
      /\ \A i \in 1 .. k : u[m + i] = t[i]
  OBVIOUS
<1> HIDE DEF u, m, k
<1>2. \A n \in DOMAIN u : n \in 1 .. m \/ (n - m \in 1 .. k /\ u[n] = t[n - m])
  BY <1>1
<1>3. \A j \in DOMAIN t : m + j \in DOMAIN u /\ u[m + j] = t[j]
  BY <1>1
<1>4. \A i \in DOMAIN s : i \in DOMAIN u /\ u[i] = s[i]
  BY <1>1
<1> QED
  <2>1. u \in Seq(S) /\ Joins(u, s, t)
    BY <1>1, <1>2, <1>3, <1>4 DEF Joins
  <2> QED
    BY <2>1 DEF u

(* A command replaces the edges of its logic, both of a pulse, by its own.           *)
LEMMA TakePlaces ==
  ASSUME Placed, ~late => PulsesEnd, TakeCommand
  PROVE  Placed' /\ (~late' => PulsesEnd')
<1> DEFINE c == Head(commands)
           kept == {i \in DOMAIN scheduled : scheduled[i].logic # c.logic}
           o == OfOthers(c.logic)
<1>0. c \in Commands /\ Tail(commands) \in Seq(Commands)
  BY DEF Placed, TakeCommand
<1>1. /\ scheduled' = Planned(c) /\ commands' = Tail(commands) /\ UNCHANGED <<pc, index, since, out, transient, late>>
      /\ orphaned' = (orphaned \/ \E i \in DOMAIN scheduled :
           scheduled[i].logic = c.logic /\ ~ scheduled[i].mask \subseteq c.scope)
      /\ pc[Main] = "commands"
  BY DEF TakeCommand
<1>2. /\ o \in Seq(EdgeSet)
      /\ \A n \in DOMAIN o : \E i \in kept : o[n] = scheduled[i]
      /\ \A i \in kept : \E n \in DOMAIN o : o[n] = scheduled[i]
  <2>1. scheduled \in Seq(EdgeSet) /\ kept \subseteq DOMAIN scheduled
    BY DEF Placed
  <2>2. o = Retain(scheduled, kept)
    BY DEF OfOthers
  <2> HIDE DEF kept, o
  <2> QED
    BY <2>1, <2>2, Ranked
<1>3. /\ Edges(c) \in Seq(EdgeSet)
      /\ \A i \in DOMAIN Edges(c) : Edges(c)[i].transient =>
           \E j \in DOMAIN Edges(c) : IsEndOf(Edges(c)[i], Edges(c)[j])
      /\ \E j \in DOMAIN Edges(c) : ~Edges(c)[j].transient /\ Edges(c)[j].mask = c.scope
  BY <1>0, EdgesOfCommand DEF Placed
<1> HIDE DEF o
<1>4. scheduled' \in {scheduled, o \o Edges(c)}
  BY <1>1 DEF Planned, o
<1> HIDE DEF c
<1>5. CASE scheduled' = scheduled
  BY <1>0, <1>1, <1>5 DEF Placed, PulsesEnd, BothEdgesDue, PulseHasItsEnd
<1>6. CASE scheduled' = o \o Edges(c)
  <2>1. /\ scheduled' \in Seq(EdgeSet)
        /\ \A n \in DOMAIN scheduled' : \/ \E i \in DOMAIN o : scheduled'[n] = o[i]
                                        \/ \E j \in DOMAIN Edges(c) : scheduled'[n] = Edges(c)[j]
        /\ \A i \in DOMAIN o : \E n \in DOMAIN scheduled' : scheduled'[n] = o[i]
        /\ \A j \in DOMAIN Edges(c) : \E n \in DOMAIN scheduled' : scheduled'[n] = Edges(c)[j]
    <3>1. scheduled' \in Seq(EdgeSet) /\ Joins(scheduled', o, Edges(c))
      BY <1>2, <1>3, <1>6, Appended
    <3> QED
      BY <3>1 DEF Joins
  <2>2. \A i \in kept : \E n \in DOMAIN scheduled' : scheduled'[n] = scheduled[i]
    BY <1>2, <2>1
  <2>3. Placed'
    BY <1>0, <1>1, <2>1 DEF Placed
  <2>4. ASSUME PulsesEnd PROVE PulsesEnd'
    <3>1. ASSUME NEW n \in DOMAIN scheduled', scheduled'[n].transient
          PROVE  \E m \in DOMAIN scheduled' : IsEndOf(scheduled'[n], scheduled'[m])
      <4>1. ASSUME NEW k \in DOMAIN o, scheduled'[n] = o[k]
            PROVE  \E m \in DOMAIN scheduled' : IsEndOf(scheduled'[n], scheduled'[m])
        <5>1. PICK i \in kept : scheduled'[n] = scheduled[i]
          BY <1>2, <4>1
        <5>2. PICK j \in DOMAIN scheduled : IsEndOf(scheduled[i], scheduled[j])
          BY <2>4, <3>1, <5>1 DEF PulsesEnd
        <5>3. j \in kept
          BY <5>2 DEF IsEndOf
        <5> QED
          BY <2>2, <5>1, <5>2, <5>3
      <4>2. ASSUME NEW k \in DOMAIN Edges(c), scheduled'[n] = Edges(c)[k]
            PROVE  \E m \in DOMAIN scheduled' : IsEndOf(scheduled'[n], scheduled'[m])
        BY <1>3, <2>1, <3>1, <4>2
      <4> QED
        BY <2>1, <4>1, <4>2
    <3>2. ASSUME ~orphaned' PROVE PulseHasItsEnd'
      <4> SUFFICES ASSUME NEW q \in out \intersect transient
                   PROVE  \E n \in DOMAIN scheduled' : q \in scheduled'[n].mask /\ ~scheduled'[n].transient
        BY <1>1 DEF PulseHasItsEnd
      <4>1. PICK i \in DOMAIN scheduled : q \in scheduled[i].mask /\ ~scheduled[i].transient
        BY <1>1, <2>4, <3>2 DEF PulsesEnd, PulseHasItsEnd
      <4>2. CASE i \in kept
        BY <2>2, <4>1, <4>2
      <4>3. CASE i \notin kept
        <5>1. q \in c.scope
          BY <1>1, <3>2, <4>1, <4>3
        <5> QED
          BY <1>3, <2>1, <5>1
      <4> QED
        BY <4>2, <4>3
    <3> QED
      BY <1>1, <3>1, <3>2 DEF PulsesEnd
  <2> QED
    BY <1>1, <2>3, <2>4
<1> QED
  BY <1>4, <1>5, <1>6

LEMMA ScheduleStep == IInv /\ ScheduleInv /\ [Next]_vars => ScheduleInv'
<1> SUFFICES ASSUME IInv, ScheduleInv, [Next]_vars PROVE Placed' /\ (~late' => PulsesEnd')
  BY AddressedKept DEF ScheduleInv
<1> USE DEF ScheduleInv
<1>0. Main \in Tasks /\ Clients \subseteq Tasks /\ Main \notin Clients /\ pc = [t \in Tasks |-> pc[t]]
  BY TasksAssumption DEF Tasks, IInv, Base, Typed
<1>1. ASSUME NEW t \in Tasks, \/ Refresh(t)
                              \/ t \in Clients /\ (ChangeConfig(t) \/ \E l \in Logics : WriteWord(t, l))
      PROVE  Placed' /\ (~late' => PulsesEnd')
  <2>1. UNCHANGED <<commands, schedule>> /\ \E s : s # "walk" /\ Goto(t, s)
    BY <1>1 DEF Refresh, Look, Compare, Lock, Recheck, Parse, Publish, Stamp, ChangeConfig, WriteWord
  <2>2. pc'[Main] = "walk" => pc[Main] = "walk"
    BY <1>0, <2>1 DEF Goto
  <2> QED
    BY <2>1, <2>2, ScheduleStays
<1>2. CASE \E c \in Clients : Enqueue(c)
  BY <1>2, EnqueuePlaces
<1>3. CASE BeginCommands
  BY <1>0, <1>3 DEF BeginCommands, Goto, Placed, PulsesEnd, BothEdgesDue, PulseHasItsEnd
<1>4. CASE NotYet \/ EndWalk
  BY <1>0, <1>4 DEF NotYet, EndWalk, Goto, Placed, PulsesEnd, BothEdgesDue, PulseHasItsEnd
<1>5. CASE UNCHANGED vars
  BY <1>5, ScheduleStays DEF vars
<1> QED
  BY <1>0, <1>1, <1>2, <1>3, <1>4, <1>5, TakePlaces, WalkPlaces, ApplyPlaces, TimePlaces DEF Next, MainStep

(* An output that a pulse switched on is switched off when the pulse is over:  *)
(* its end is still in the schedule, unless both edges were due in one walk or  *)
(* a new configuration took the output (control_logic.rs:657-681).             *)
THEOREM PulsesEndInTime == Spec => []PulseEndsInTime
<1>1. ScheduleInv => PulseEndsInTime
  BY DEF ScheduleInv, Placed, PulsesEnd, PulseEndsInTime
<1> QED
  BY <1>1, Invariant, ScheduleInit, ScheduleStep, PTL DEF Spec

=============================================================================
