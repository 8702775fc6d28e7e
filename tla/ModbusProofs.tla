------------------------------ MODULE ModbusProofs -----------------------------
(***************************************************************************)
(* Modbus.  What a client reads as the result of a polled register is true: for *)
(* any ports, registers, configurations, retries, changes and failures         *)
(* (RtuPorts).  A request that waits gets its turn, missing listeners are       *)
(* repaired and parts of requests are timed: for any listeners, places and      *)
(* peers (TcpServer).                                                        *)
(***************************************************************************)
EXTENDS RtuPorts, TcpServer, FiniteSetTheorems, TLAPS

-----------------------------------------------------------------------------
(* The inductive invariant of the ports                                      *)

(* A task's copy is never newer than the mark; with no change waiting to be    *)
(* marked, a copy as new as the mark is the stored table, and so is what was    *)
(* parsed on behalf of that mark.                                            *)
Refreshing == {"parse", "recheck", "publish"}

CopiesFollow ==
  \A p \in Ports :
    /\ gen[p] # NoGen => gen[p] <= generation
    /\ pc[p] \in Refreshing => requested[p] \in Nat /\ requested[p] <= generation
    /\ pc[p] \in {"recheck", "publish"} /\ requested[p] = generation /\ ~unmarked =>
         refreshed[p] = ParsePollTable(cfg)
    /\ gen[p] = generation /\ ~unmarked /\ ParsePollTable(cfg) # Error =>
         table[p] = ParsePollTable(cfg)
    /\ gen[p] = NoGen => table[p] = <<>>

(* The registers that answer are those of one task's table.                   *)
ValidOfOneTable ==
  \/ valid = {} /\ \A p \in Ports : table[p] = <<>>
  \/ \E p \in Ports : gen[p] # NoGen /\ valid = RangesOf(table[p])

(* A value is an entry of the table of the port that read it.                 *)
ValuesHaveEntries ==
  \A r \in Regs : values[r] # Zero =>
    r \in values[r].dest /\ values[r] \in Range(table[values[r].port])

(* Nothing is left of what a master read over a link that it found broken.     *)
BrokenIsCleared ==
  \A p \in Ports :
    /\ pc[p] = "write" => link[p] = {}
    /\ pc[p] = "visit" /\ link[p] # {} /\ item[p] # Zero =>
         \A r \in item[p].dest : values[r] # Zero => values[r].port # p

IInv == TypeOK /\ CopiesFollow /\ ValidOfOneTable /\ ValuesHaveEntries /\ BrokenIsCleared

-----------------------------------------------------------------------------
(* Types                                                                   *)

(* A parse is a table or refused; a refused one is no table.                  *)
LEMMA ParseFacts ==
  ASSUME TypeOK
  PROVE  /\ ParsePollTable(cfg) \in Seq(Entry) \union {Error}
         /\ ParsePollTable(cfg) # Error => ParsePollTable(cfg) = cfg.entries /\ Acceptable(cfg)
<1>1. cfg \in Config
  BY ConfigsAssumption DEF TypeOK, ClientTypes
<1>2. cfg.entries \in Seq(Entry)
  BY <1>1 DEF Config
<1> QED
  BY <1>2 DEF ParsePollTable

(* The entry under the cursor is one of the task's own table.                 *)
LEMMA CurrentFacts ==
  ASSUME TypeOK, NEW p \in Ports, visited[p] < Len(table[p])
  PROVE  Current(p) \in Entry /\ Current(p) \in Range(table[p])
<1> DEFINE t == table[p]
           n == Len(t)
           i == (cursor[p] + visited[p]) % n
<1>1. t \in Seq(Entry) /\ n \in Nat /\ cursor[p] \in Nat /\ visited[p] \in Nat
  BY DEF TypeOK, CopyTypes, RoundTypes
<1>2. n > 0 /\ cursor[p] + visited[p] \in Nat
  BY <1>1
<1>3. i \in 0 .. n - 1
  BY <1>1, <1>2
<1>4. i + 1 \in 1 .. n
  BY <1>1, <1>3
<1>5. t[i + 1] \in Entry /\ i + 1 \in DOMAIN t
  BY <1>1, <1>4
<1>6. Current(p) = t[i + 1]
  BY DEF Current
<1> QED
  BY <1>5, <1>6 DEF Range

LEMMA ClientTypesKept ==
  ASSUME TypeOK, Next
  PROVE  ClientTypes'
<1>0. CASE ChangeTable
  BY <1>0 DEF ChangeTable, TypeOK, ClientTypes
<1>1. CASE MarkChanged
  <2>1. /\ unmarked' = FALSE /\ generation' = generation + 1
        /\ UNCHANGED <<cfg, changes, saved, faults>>
    BY <1>1 DEF MarkChanged
  <2>2. unmarked' \in BOOLEAN
    BY <2>1, Zenon
  <2>3. generation' \in Nat /\ cfg' \in Configs /\ saved' \in [Ports -> Saved]
        /\ changes' \in Nat /\ faults' \in Nat
    BY <2>1 DEF TypeOK, ClientTypes
  <2> QED
    BY <2>2, <2>3 DEF ClientTypes
<1>2. ASSUME NEW p \in Ports, ChangeSettings(p)
      PROVE  ClientTypes'
  BY <1>2 DEF ChangeSettings, TypeOK, ClientTypes
<1>3. ASSUME NEW p \in Ports, Reopen(p)
      PROVE  ClientTypes'
  BY <1>3 DEF Reopen, client, TypeOK, ClientTypes
<1>4. ASSUME NEW p \in Ports, PortStep(p), ~Reopen(p)
      PROVE  ClientTypes'
  <2>1. UNCHANGED <<client, saved, faults>>
    BY <1>4 DEF PortStep, Refresh, Visit, Transact, Spawn, Look, Parse, Recheck, Publish, VisitOther,
      VisitOwn, DeferRest, EndOfTable, Rest, GoodAnswer, BadAnswer, WriteResult, ClearResult, Listen
  <2> QED
    BY <2>1 DEF client, TypeOK, ClientTypes
<1> QED
  BY <1>0, <1>1, <1>2, <1>3, <1>4 DEF Next

(* What every step outside the refresh leaves alone.                          *)
LEMMA CopyKept ==
  ASSUME NEW p \in Ports, PortStep(p), ~Refresh(p)
  PROVE  UNCHANGED <<client, copy>>
BY DEF PortStep, Refresh, Visit, Transact, Spawn, Reopen, VisitOther,
  VisitOwn, DeferRest, EndOfTable, Rest, GoodAnswer, BadAnswer, WriteResult, ClearResult, Listen

LEMMA CopyTypesKept ==
  ASSUME TypeOK, Next
  PROVE  CopyTypes'
<1> USE DEF TypeOK, CopyTypes
<1>1. CASE ChangeTable \/ MarkChanged
  BY <1>1 DEF ChangeTable, MarkChanged, copy
<1>2. ASSUME NEW p \in Ports, ChangeSettings(p)
      PROVE  CopyTypes'
  BY <1>2 DEF ChangeSettings, copy
<1>3. ASSUME NEW p \in Ports, Look(p)
      PROVE  CopyTypes'
  BY <1>3 DEF Look, ClientTypes
<1>4. ASSUME NEW p \in Ports, Parse(p)
      PROVE  CopyTypes'
  BY <1>4, ParseFacts DEF Parse
<1>5. ASSUME NEW p \in Ports, Recheck(p)
      PROVE  CopyTypes'
  BY <1>5 DEF Recheck, Forget
<1>6. ASSUME NEW p \in Ports, Publish(p)
      PROVE  CopyTypes'
  BY <1>6 DEF Publish, Forget
<1>7. ASSUME NEW p \in Ports, PortStep(p), ~Refresh(p)
      PROVE  CopyTypes'
  BY <1>7, CopyKept DEF copy
<1> QED
  BY <1>1, <1>2, <1>3, <1>4, <1>5, <1>6, <1>7 DEF Next, PortStep, Refresh

LEMMA BeginRoundTypes ==
  ASSUME TypeOK, NEW p \in Ports, BeginRound(p)
  PROVE  /\ visited' \in [Ports -> Nat] /\ spent' \in [Ports -> BOOLEAN]
         /\ item' \in [Ports -> Entry \union {Zero}] /\ attempt' \in [Ports -> 0..MaxRetry]
<1>1. spent' = [spent EXCEPT ![p] = FALSE] /\ FALSE \in BOOLEAN
  BY DEF BeginRound
<1>2. spent' \in [Ports -> BOOLEAN]
  BY <1>1 DEF TypeOK, RoundTypes
<1> QED
  BY <1>2 DEF BeginRound, TypeOK, RoundTypes

LEMMA RoundTypesKept ==
  ASSUME TypeOK, Next
  PROVE  RoundTypes'
<1> USE DEF TypeOK, RoundTypes, round, Steps, Goto
<1>1. CASE ChangeTable \/ MarkChanged
  BY <1>1 DEF ChangeTable, MarkChanged
<1>2. ASSUME NEW p \in Ports, ChangeSettings(p)
      PROVE  RoundTypes'
  BY <1>2 DEF ChangeSettings
<1>3. ASSUME NEW p \in Ports, Spawn(p) \/ Parse(p) \/ WriteResult(p) \/ ClearResult(p) \/ Listen(p)
      PROVE  RoundTypes'
  BY <1>3 DEF Spawn, Parse, WriteResult, ClearResult, Listen
<1>4. ASSUME NEW p \in Ports, Reopen(p)
      PROVE  RoundTypes'
  <2>1. RuntimePolicy(p, saved[p]) \in Settings
    BY DEF RuntimePolicy, Settings, Saved, ClientTypes
  <2> QED
    BY <1>4, <2>1 DEF Reopen
<1>5. ASSUME NEW p \in Ports, Look(p)
      PROVE  RoundTypes'
  <2>1. CASE generation = gen[p]
    BY <1>5, <2>1, BeginRoundTypes DEF Look
  <2>2. CASE generation # gen[p]
    BY <1>5, <2>2 DEF Look
  <2> QED
    BY <2>1, <2>2
<1>6. ASSUME NEW p \in Ports, Recheck(p)
      PROVE  RoundTypes'
  <2>1. CASE generation = requested[p]
    BY <1>6, <2>1 DEF Recheck
  <2>2. CASE generation # requested[p]
    BY <1>6, <2>2, BeginRoundTypes DEF Recheck
  <2> QED
    BY <2>1, <2>2
<1>7. ASSUME NEW p \in Ports, Publish(p)
      PROVE  RoundTypes'
  BY <1>7 DEF Publish, BeginRound
<1>8. ASSUME NEW p \in Ports, VisitOther(p) \/ DeferRest(p) \/ EndOfTable(p)
      PROVE  RoundTypes'
  <2>1. CASE VisitOther(p)
    BY <2>1 DEF VisitOther
  <2>2. CASE DeferRest(p)
    BY <2>2 DEF DeferRest
  <2>3. CASE EndOfTable(p)
    BY <2>3 DEF EndOfTable
  <2> QED
    BY <1>8, <2>1, <2>2, <2>3
<1>9. ASSUME NEW p \in Ports, VisitOwn(p)
      PROVE  RoundTypes'
  <2>1. 0 \in 0 .. MaxRetry
    BY BoundsAssumption
  <2> QED
    BY <1>9, <2>1, CurrentFacts DEF VisitOwn
<1>10. ASSUME NEW p \in Ports, Rest(p)
       PROVE  RoundTypes'
  <2>1. table[p] # <<>> => (cursor[p] + visited[p]) % Len(table[p]) \in Nat
    BY DEF CopyTypes
  <2> QED
    BY <1>10, <2>1 DEF Rest
<1>11. ASSUME NEW p \in Ports, GoodAnswer(p)
       PROVE  RoundTypes'
  BY <1>11 DEF GoodAnswer
<1>12. ASSUME NEW p \in Ports, BadAnswer(p)
       PROVE  RoundTypes'
  <2>1. spent' \in [Ports -> BOOLEAN]
    BY <1>12 DEF BadAnswer
  <2>2. pc' \in [Ports -> Steps] /\ attempt' \in [Ports -> 0..MaxRetry]
    <3>1. CASE attempt[p] < MaxRetry
      <4>1. attempt[p] + 1 \in 0 .. MaxRetry
        BY <3>1, BoundsAssumption
      <4> QED
        BY <1>12, <3>1, <4>1 DEF BadAnswer
    <3>2. CASE ~(attempt[p] < MaxRetry)
      BY <1>12, <3>2 DEF BadAnswer
    <3> QED
      BY <3>1, <3>2
  <2>3. UNCHANGED <<active, cursor, visited, item>>
    BY <1>12 DEF BadAnswer
  <2> QED
    BY <2>1, <2>2, <2>3
<1> QED
  BY <1>1, <1>2, <1>3, <1>4, <1>5, <1>6, <1>7, <1>8, <1>9, <1>10, <1>11, <1>12
  DEF Next, PortStep, Refresh, Visit, Transact

LEMMA ResultTypesKept ==
  ASSUME TypeOK, Next
  PROVE  ResultTypes'
<1> USE DEF TypeOK, ResultTypes
<1>1. ASSUME NEW p \in Ports, Publish(p)
      PROVE  ResultTypes'
  <2>1. UNCHANGED link
    BY <1>1 DEF Publish
  <2>2. CASE refreshed[p] \notin {Error, table[p]}
    <3>1. refreshed[p] \in Seq(Entry)
      BY <2>2 DEF CopyTypes
    <3>2. \A i \in DOMAIN refreshed[p] : refreshed[p][i] \in Entry
      BY <3>1
    <3>3. \A e \in Entry : e.dest \subseteq Regs
      BY DEF Entry
    <3>4. RangesOf(refreshed[p]) \subseteq Regs
      BY <3>2, <3>3 DEF RangesOf
    <3>5. values' = [r \in Regs |-> Zero] /\ valid' = RangesOf(refreshed[p])
      BY <1>1, <2>2 DEF Publish, PublishRanges
    <3> QED
      BY <2>1, <3>4, <3>5
  <2>3. CASE refreshed[p] \in {Error, table[p]}
    BY <1>1, <2>1, <2>3 DEF Publish, results
  <2> QED
    BY <2>2, <2>3
<1>2. ASSUME NEW p \in Ports, GoodAnswer(p) \/ BadAnswer(p) \/ Listen(p)
      PROVE  ResultTypes'
  <2>1. UNCHANGED results
    BY <1>2 DEF GoodAnswer, BadAnswer, Listen
  <2>2. \/ UNCHANGED link
        \/ link' = [link EXCEPT ![p] = {}]
        \/ link' = [link EXCEPT ![p] = @ \union {"com"}]
        \/ link' = [link EXCEPT ![p] = {"app"}]
    BY <1>2 DEF GoodAnswer, BadAnswer, Listen
  <2>3. {} \in SUBSET {"com", "app"} /\ {"app"} \in SUBSET {"com", "app"}
        /\ link[p] \union {"com"} \in SUBSET {"com", "app"}
    OBVIOUS
  <2> HIDE DEF TypeOK
  <2>4. link' \in [Ports -> SUBSET {"com", "app"}]
    BY <2>2, <2>3 DEF TypeOK
  <2> QED
    BY <2>1, <2>4 DEF results, TypeOK
<1>3. ASSUME NEW p \in Ports, WriteResult(p)
      PROVE  ResultTypes'
  <2>1. item[p] \in Entry \union {Zero}
    BY DEF RoundTypes
  <2>2. values' \in [Regs -> Entry \union {Zero}]
    BY <1>3, <2>1 DEF WriteResult
  <2>3. UNCHANGED <<valid, link>>
    BY <1>3 DEF WriteResult
  <2> QED
    BY <2>2, <2>3
<1>4. ASSUME NEW p \in Ports, ClearResult(p)
      PROVE  ResultTypes'
  BY <1>4 DEF ClearResult
<1>5. ASSUME UNCHANGED <<results, link>>
      PROVE  ResultTypes'
  BY <1>5 DEF results
<1>6. ASSUME ChangeTable \/ MarkChanged
      PROVE  UNCHANGED <<results, link>>
  BY <1>6 DEF ChangeTable, MarkChanged
<1>7. ASSUME NEW p \in Ports, \/ ChangeSettings(p) \/ Spawn(p) \/ Reopen(p) \/ Look(p) \/ Parse(p)
                              \/ Recheck(p) \/ Visit(p)
      PROVE  UNCHANGED <<results, link>>
  BY <1>7 DEF ChangeSettings, Spawn, Reopen, Look, Parse, Recheck, Visit, VisitOther, VisitOwn,
    DeferRest, EndOfTable, Rest
<1> QED
  BY <1>1, <1>2, <1>3, <1>4, <1>5, <1>6, <1>7 DEF Next, PortStep, Refresh, Transact

(* The table of a task changes outside its transactions only.                 *)
LEMMA EntryIsOwnKept ==
  ASSUME TypeOK, Next
  PROVE  EntryIsOwn'
<1> USE DEF TypeOK, EntryIsOwn
<1> DEFINE Transaction == {"send", "write", "clear"}
<1>1. ASSUME NEW p \in Ports, VisitOwn(p)
      PROVE  EntryIsOwn'
  <2>1. Current(p) \in Range(table[p]) /\ Current(p).port = p /\ Current(p) # Zero
    BY <1>1, CurrentFacts, ValuesAssumption DEF VisitOwn
  <2>2. item' = [item EXCEPT ![p] = Current(p)] /\ pc' = [pc EXCEPT ![p] = "send"] /\ UNCHANGED table
    BY <1>1 DEF VisitOwn, Goto, copy
  <2> QED
    BY <2>1, <2>2 DEF RoundTypes
<1>2. ASSUME NEW p \in Ports, GoodAnswer(p) \/ BadAnswer(p)
      PROVE  EntryIsOwn'
  <2>1. pc[p] = "send" /\ UNCHANGED <<table, item>> /\ \A q \in Ports \ {p} : pc'[q] = pc[q]
    BY <1>2 DEF GoodAnswer, BadAnswer, Goto, copy, RoundTypes
  <2> QED
    BY <2>1
<1>3. ASSUME NEW p \in Ports, pc'[p] \notin Transaction /\ item'[p] \in {Zero, item[p]},
             \A q \in Ports \ {p} : pc'[q] = pc[q] /\ item'[q] = item[q] /\ table'[q] = table[q]
      PROVE  EntryIsOwn'
  BY <1>3
<1>4. ASSUME UNCHANGED <<pc, item, table>>
      PROVE  EntryIsOwn'
  BY <1>4
<1>5. ASSUME ChangeTable \/ MarkChanged \/ \E p \in Ports : ChangeSettings(p)
      PROVE  UNCHANGED <<pc, item, table>>
  BY <1>5 DEF ChangeTable, MarkChanged, ChangeSettings, copy, round
<1>6. ASSUME NEW p \in Ports, Refresh(p)
      PROVE  /\ pc'[p] \notin Transaction /\ item'[p] \in {Zero, item[p]}
             /\ \A q \in Ports \ {p} : pc'[q] = pc[q] /\ item'[q] = item[q] /\ table'[q] = table[q]
  <2>1. CASE Look(p)
    BY <2>1 DEF Look, Goto, BeginRound, round, RoundTypes
  <2>2. CASE Parse(p)
    BY <2>2 DEF Parse, Goto, round, RoundTypes
  <2>3. CASE Recheck(p)
    BY <2>3 DEF Recheck, Goto, BeginRound, round, RoundTypes
  <2>4. CASE Publish(p)
    BY <2>4 DEF Publish, Goto, BeginRound, round, RoundTypes, CopyTypes
  <2> QED
    BY <1>6, <2>1, <2>2, <2>3, <2>4 DEF Refresh
<1>7. ASSUME NEW p \in Ports, \/ Spawn(p) \/ DeferRest(p) \/ EndOfTable(p) \/ Rest(p)
                              \/ WriteResult(p) \/ ClearResult(p) \/ Listen(p)
      PROVE  /\ pc'[p] \notin Transaction /\ item'[p] \in {Zero, item[p]}
             /\ \A q \in Ports \ {p} : pc'[q] = pc[q] /\ item'[q] = item[q] /\ table'[q] = table[q]
  BY <1>7 DEF Spawn, DeferRest, EndOfTable, Rest, WriteResult, ClearResult, Listen,
    Goto, copy, round, RoundTypes
<1>8. ASSUME NEW p \in Ports, Reopen(p)
      PROVE  /\ pc'[p] \notin Transaction /\ item'[p] \in {Zero, item[p]}
             /\ \A q \in Ports \ {p} : pc'[q] = pc[q] /\ item'[q] = item[q] /\ table'[q] = table[q]
  BY <1>8 DEF Reopen, Goto, copy, round, RoundTypes
<1>9. ASSUME NEW p \in Ports, VisitOther(p)
      PROVE  UNCHANGED <<pc, item, table>>
  BY <1>9 DEF VisitOther, copy
<1> HIDE DEF EntryIsOwn, Transaction
<1>10. ASSUME NEW p \in Ports, PortStep(p)
       PROVE  EntryIsOwn'
  BY <1>1, <1>2, <1>3, <1>4, <1>6, <1>7, <1>8, <1>9, <1>10 DEF PortStep, Visit, Transact
<1> QED
  BY <1>4, <1>5, <1>10 DEF Next

LEMMA TypesKept == TypeOK /\ [Next]_vars => TypeOK'
<1>1. CASE TypeOK /\ Next
  BY <1>1, ClientTypesKept, CopyTypesKept, RoundTypesKept, ResultTypesKept, EntryIsOwnKept DEF TypeOK
<1>2. CASE TypeOK /\ UNCHANGED vars
  BY <1>2 DEF vars, client, copy, round, results, TypeOK, ClientTypes, CopyTypes, RoundTypes,
    ResultTypes, EntryIsOwn
<1> QED
  BY <1>1, <1>2

-----------------------------------------------------------------------------
(* Copies of the table                                                     *)

(* Steps outside the refresh of p leave its copy, and the store, alone.        *)
LEMMA CopiesUndisturbed ==
  ASSUME TypeOK, CopiesFollow, UNCHANGED <<client, copy>>,
         \A p \in Ports : pc'[p] \in Refreshing => pc'[p] = pc[p]
  PROVE  CopiesFollow'
BY DEF client, copy, CopiesFollow, Refreshing, ParsePollTable, Acceptable

(* A change of the store, and its mark, only make copies older.               *)
LEMMA CopiesAge ==
  ASSUME TypeOK, CopiesFollow, UNCHANGED <<pc, copy>>, ChangeTable \/ MarkChanged
  PROVE  CopiesFollow'
<1>1. /\ generation' \in Nat /\ generation <= generation'
      /\ generation' = generation => unmarked'
  BY DEF ChangeTable, MarkChanged, TypeOK, ClientTypes
<1>2. ASSUME NEW p \in Ports
      PROVE  /\ gen[p] # NoGen => gen[p] \in Nat /\ gen[p] <= generation
             /\ pc[p] \in Refreshing => requested[p] \in Nat /\ requested[p] <= generation
             /\ gen[p] = NoGen => table[p] = <<>>
  BY DEF TypeOK, CopyTypes, CopiesFollow
<1>3. generation \in Nat /\ UNCHANGED <<pc, table, gen, requested, refreshed>>
  BY DEF TypeOK, ClientTypes, copy
<1>4. ASSUME NEW p \in Ports, ~unmarked'
      PROVE  /\ gen'[p] # generation'
             /\ pc'[p] \in {"recheck", "publish"} => requested'[p] # generation'
  <2>1. generation' # generation /\ NoGen # generation'
    BY <1>1, <1>4, NamesAssumption
  <2> QED
    BY <2>1, <1>1, <1>2, <1>3 DEF Refreshing
<1>5. ASSUME NEW p \in Ports
      PROVE  /\ gen'[p] # NoGen => gen'[p] <= generation'
             /\ pc'[p] \in Refreshing => requested'[p] \in Nat /\ requested'[p] <= generation'
             /\ gen'[p] = NoGen => table'[p] = <<>>
  BY <1>1, <1>2, <1>3
<1> QED
  BY <1>4, <1>5 DEF CopiesFollow

(* What one task does to its own copy does not concern the others.             *)
LEMMA OwnCopyOnly ==
  ASSUME TypeOK, CopiesFollow, NEW p \in Ports, UNCHANGED client,
         \A q \in Ports \ {p} :
           /\ gen'[q] = gen[q] /\ table'[q] = table[q] /\ pc'[q] = pc[q]
           /\ requested'[q] = requested[q] /\ refreshed'[q] = refreshed[q],
         gen'[p] # NoGen => gen'[p] <= generation,
         pc'[p] \in Refreshing => requested'[p] \in Nat /\ requested'[p] <= generation,
         pc'[p] \in {"recheck", "publish"} /\ requested'[p] = generation /\ ~unmarked =>
           refreshed'[p] = ParsePollTable(cfg),
         gen'[p] = generation /\ ~unmarked /\ ParsePollTable(cfg) # Error =>
           table'[p] = ParsePollTable(cfg),
         gen'[p] = NoGen => table'[p] = <<>>
  PROVE  CopiesFollow'
<1>1. UNCHANGED <<cfg, unmarked, generation>> /\ ParsePollTable(cfg)' = ParsePollTable(cfg)
  BY DEF client, ParsePollTable, Acceptable
<1>2. SUFFICES ASSUME NEW q \in Ports
      PROVE  /\ gen'[q] # NoGen => gen'[q] <= generation
             /\ pc'[q] \in Refreshing => requested'[q] \in Nat /\ requested'[q] <= generation
             /\ pc'[q] \in {"recheck", "publish"} /\ requested'[q] = generation /\ ~unmarked =>
                  refreshed'[q] = ParsePollTable(cfg)
             /\ gen'[q] = generation /\ ~unmarked /\ ParsePollTable(cfg) # Error =>
                  table'[q] = ParsePollTable(cfg)
             /\ gen'[q] = NoGen => table'[q] = <<>>
  BY <1>1 DEF CopiesFollow
<1>3. CASE q = p
  BY <1>3
<1>4. CASE q # p
  <2>1. /\ gen'[q] = gen[q] /\ table'[q] = table[q] /\ pc'[q] = pc[q]
        /\ requested'[q] = requested[q] /\ refreshed'[q] = refreshed[q]
    BY <1>4
  <2> QED
    BY <2>1 DEF CopiesFollow
<1> QED
  BY <1>3, <1>4

LEMMA RefreshFollows ==
  ASSUME TypeOK, CopiesFollow, NEW p \in Ports, Refresh(p)
  PROVE  CopiesFollow'
<1> USE DEF Goto, Refreshing
<1>0. /\ generation \in Nat
      /\ gen[p] # NoGen => gen[p] <= generation
      /\ gen[p] = generation /\ ~unmarked /\ ParsePollTable(cfg) # Error =>
           table[p] = ParsePollTable(cfg)
      /\ gen[p] = NoGen => table[p] = <<>>
  BY DEF TypeOK, ClientTypes, CopiesFollow
<1>1. CASE Look(p)
  <2>1. UNCHANGED <<client, table, gen, refreshed>>
    BY <1>1 DEF Look
  <2>2. /\ pc'[p] \in {"visit", "parse"}
        /\ pc'[p] = "parse" => requested'[p] = generation
        /\ \A q \in Ports \ {p} : pc'[q] = pc[q] /\ requested'[q] = requested[q]
    BY <1>1 DEF Look, TypeOK, RoundTypes, CopyTypes
  <2> QED
    BY <1>0, <2>1, <2>2, OwnCopyOnly
<1>2. CASE Parse(p)
  <2>1. UNCHANGED <<client, table, gen, requested>> /\ pc[p] = "parse"
    BY <1>2 DEF Parse
  <2>2. /\ refreshed'[p] = ParsePollTable(cfg)
        /\ \A q \in Ports \ {p} : pc'[q] = pc[q] /\ refreshed'[q] = refreshed[q]
    BY <1>2 DEF Parse, TypeOK, RoundTypes, CopyTypes
  <2>3. requested[p] \in Nat /\ requested[p] <= generation
    BY <2>1 DEF CopiesFollow
  <2> QED
    BY <1>0, <2>1, <2>2, <2>3, OwnCopyOnly
<1>3. CASE Recheck(p)
  <2>1. UNCHANGED <<client, table, gen>> /\ pc[p] = "recheck"
    BY <1>3 DEF Recheck
  <2>2. CASE generation = requested[p]
    <3>1. UNCHANGED <<requested, refreshed>> /\ \A q \in Ports \ {p} : pc'[q] = pc[q]
      BY <1>3, <2>2 DEF Recheck, TypeOK, RoundTypes
    <3>2. ~unmarked => refreshed[p] = ParsePollTable(cfg)
      BY <2>1, <2>2 DEF CopiesFollow
    <3> QED
      BY <1>0, <2>1, <2>2, <3>1, <3>2, OwnCopyOnly
  <2>3. CASE generation # requested[p]
    <3>1. /\ pc'[p] = "visit"
          /\ \A q \in Ports \ {p} :
               pc'[q] = pc[q] /\ requested'[q] = requested[q] /\ refreshed'[q] = refreshed[q]
      BY <1>3, <2>3 DEF Recheck, Forget, TypeOK, RoundTypes, CopyTypes
    <3> QED
      BY <1>0, <2>1, <3>1, OwnCopyOnly
  <2> QED
    BY <2>2, <2>3
<1>4. CASE Publish(p)
  <2>1. UNCHANGED client /\ pc[p] = "publish"
    BY <1>4 DEF Publish
  <2>2. requested[p] \in Nat /\ requested[p] <= generation /\ requested[p] # NoGen
    BY <2>1, NamesAssumption DEF CopiesFollow
  <2>3. /\ pc'[p] = "visit" /\ gen'[p] = requested[p]
        /\ \A q \in Ports \ {p} :
             /\ gen'[q] = gen[q] /\ table'[q] = table[q] /\ pc'[q] = pc[q]
             /\ requested'[q] = requested[q] /\ refreshed'[q] = refreshed[q]
    BY <1>4 DEF Publish, Forget, TypeOK, RoundTypes, CopyTypes
  <2>4. refreshed[p] # Error => table'[p] = refreshed[p]
    BY <1>4 DEF Publish, TypeOK, CopyTypes
  <2>5. requested[p] = generation /\ ~unmarked => refreshed[p] = ParsePollTable(cfg)
    BY <2>1 DEF CopiesFollow
  <2> QED
    BY <2>1, <2>2, <2>3, <2>4, <2>5, OwnCopyOnly
<1> QED
  BY <1>1, <1>2, <1>3, <1>4 DEF Refresh

(* Where a task goes from outside the refresh.                                *)
LEMMA NotRefreshing ==
  ASSUME TypeOK, NEW p \in Ports, PortStep(p), ~Refresh(p)
  PROVE  \A q \in Ports : pc'[q] \in Refreshing => pc'[q] = pc[q]
<1> USE DEF Goto, Refreshing, TypeOK, RoundTypes
<1>1. CASE Spawn(p) \/ Reopen(p) \/ Listen(p)
  BY <1>1 DEF Spawn, Reopen, Listen
<1>2. CASE Visit(p)
  BY <1>2 DEF Visit, VisitOther, VisitOwn, DeferRest, EndOfTable, Rest
<1>3. CASE Transact(p)
  BY <1>3 DEF Transact, GoodAnswer, BadAnswer, WriteResult, ClearResult
<1> QED
  BY <1>1, <1>2, <1>3 DEF PortStep

LEMMA CopiesKept == TypeOK /\ CopiesFollow /\ [Next]_vars => CopiesFollow'
<1> SUFFICES ASSUME TypeOK, CopiesFollow, [Next]_vars
             PROVE  CopiesFollow'
  OBVIOUS
<1>1. CASE ChangeTable \/ MarkChanged
  BY <1>1, CopiesAge DEF ChangeTable, MarkChanged
<1>2. ASSUME NEW p \in Ports, ChangeSettings(p)
      PROVE  CopiesFollow'
  <2>1. UNCHANGED <<cfg, unmarked, generation, copy, pc>>
    BY <1>2 DEF ChangeSettings
  <2> QED
    BY <2>1 DEF copy, CopiesFollow, Refreshing, ParsePollTable, Acceptable
<1>3. ASSUME NEW p \in Ports, Refresh(p)
      PROVE  CopiesFollow'
  BY <1>3, RefreshFollows
<1>4. ASSUME NEW p \in Ports, PortStep(p), ~Refresh(p)
      PROVE  CopiesFollow'
  BY <1>4, CopyKept, NotRefreshing, CopiesUndisturbed
<1>5. CASE UNCHANGED vars
  BY <1>5, CopiesUndisturbed DEF vars
<1> QED
  BY <1>1, <1>2, <1>3, <1>4, <1>5 DEF Next

-----------------------------------------------------------------------------
(* Results                                                                 *)

(* Only a publication, an answer and a given up transaction touch them.        *)
LEMMA ResultsUndisturbed ==
  ASSUME Next, ~ \E p \in Ports : Publish(p) \/ WriteResult(p) \/ ClearResult(p)
  PROVE  UNCHANGED <<results, table, gen>>
<1>1. CASE ChangeTable \/ MarkChanged
  BY <1>1 DEF ChangeTable, MarkChanged, copy
<1>2. ASSUME NEW p \in Ports, ChangeSettings(p)
      PROVE  UNCHANGED <<results, table, gen>>
  BY <1>2 DEF ChangeSettings, copy
<1>3. ASSUME NEW p \in Ports, PortStep(p)
      PROVE  UNCHANGED <<results, table, gen>>
  BY <1>3 DEF PortStep, Refresh, Visit, Transact, Spawn, Reopen, Look, Parse, Recheck, VisitOther,
    VisitOwn, DeferRest, EndOfTable, Rest, GoodAnswer, BadAnswer, Listen, copy
<1> QED
  BY <1>1, <1>2, <1>3 DEF Next

LEMMA ValuesUndisturbed ==
  ASSUME ValidOfOneTable, ValuesHaveEntries, UNCHANGED <<results, table, gen>>
  PROVE  ValidOfOneTable' /\ ValuesHaveEntries'
BY DEF results, ValidOfOneTable, ValuesHaveEntries, RangesOf

(* A table is published with its ranges and without values; one that is not     *)
(* leaves the task's table alone, which then was looked at.                    *)
LEMMA PublishKeepsResults ==
  ASSUME TypeOK, CopiesFollow, ValidOfOneTable, ValuesHaveEntries, NEW p \in Ports, Publish(p)
  PROVE  ValidOfOneTable' /\ ValuesHaveEntries'
<1>1. gen'[p] # NoGen /\ gen' = [gen EXCEPT ![p] = requested[p]]
  BY NamesAssumption DEF Publish, CopiesFollow, Refreshing, TypeOK, CopyTypes
<1>2. CASE refreshed[p] \notin {Error, table[p]}
  <2>1. /\ values' = [r \in Regs |-> Zero] /\ valid' = RangesOf(refreshed[p])
        /\ table'[p] = refreshed[p]
    BY <1>2 DEF Publish, PublishRanges, TypeOK, CopyTypes
  <2>2. valid' = RangesOf(table'[p])
    BY <2>1
  <2>3. ValidOfOneTable'
    BY <1>1, <2>2 DEF ValidOfOneTable, RangesOf
  <2>4. ValuesHaveEntries'
    BY <2>1 DEF ValuesHaveEntries
  <2> QED
    BY <2>3, <2>4
<1>3. CASE refreshed[p] \in {Error, table[p]}
  <2>1. UNCHANGED <<values, valid, table>>
    BY <1>3 DEF Publish, results
  <2>2. \A q \in Ports : gen[q] # NoGen => gen'[q] # NoGen
    BY <1>1 DEF TypeOK, CopyTypes
  <2>3. ValidOfOneTable'
    BY <2>1, <2>2 DEF ValidOfOneTable, RangesOf
  <2>4. ValuesHaveEntries'
    BY <2>1 DEF ValuesHaveEntries
  <2> QED
    BY <2>3, <2>4
<1> QED
  BY <1>2, <1>3

LEMMA AnswerKeepsResults ==
  ASSUME TypeOK, ValidOfOneTable, ValuesHaveEntries, NEW p \in Ports, WriteResult(p) \/ ClearResult(p)
  PROVE  ValidOfOneTable' /\ ValuesHaveEntries'
<1>1. UNCHANGED <<valid, table, gen>>
  BY DEF WriteResult, ClearResult, copy
<1>2. ASSUME NEW r \in Regs
      PROVE  \/ values'[r] = Zero \/ values'[r] = values[r]
             \/ values'[r] = item[p] /\ r \in item[p].dest /\ pc[p] = "write"
  BY DEF WriteResult, ClearResult
<1>3. pc[p] = "write" => item[p] \in Range(table[p]) /\ item[p].port = p
  BY DEF TypeOK, EntryIsOwn
<1>4. ValuesHaveEntries'
  BY <1>1, <1>2, <1>3 DEF ValuesHaveEntries
<1> QED
  BY <1>1, <1>4 DEF ValidOfOneTable, RangesOf

LEMMA ResultsKept ==
  TypeOK /\ CopiesFollow /\ ValidOfOneTable /\ ValuesHaveEntries /\ [Next]_vars =>
    ValidOfOneTable' /\ ValuesHaveEntries'
<1> SUFFICES ASSUME TypeOK, CopiesFollow, ValidOfOneTable, ValuesHaveEntries, [Next]_vars
             PROVE  ValidOfOneTable' /\ ValuesHaveEntries'
  OBVIOUS
<1>1. CASE UNCHANGED vars
  BY <1>1, ValuesUndisturbed DEF vars, copy
<1> QED
  BY <1>1, ResultsUndisturbed, ValuesUndisturbed, PublishKeepsResults, AnswerKeepsResults

-----------------------------------------------------------------------------
(* Broken links                                                            *)

(* A value of p in a register appears only when p writes an answer.            *)
LEMMA OthersWriteTheirOwn ==
  ASSUME TypeOK, [Next]_vars, NEW p \in Ports, NEW r \in Regs,
         values'[r] # Zero, values'[r].port = p, ~WriteResult(p)
  PROVE  values'[r] = values[r]
<1>1. ASSUME NEW q \in Ports, Publish(q)
      PROVE  values'[r] \in {Zero, values[r]}
  BY <1>1 DEF Publish, PublishRanges, results
<1>2. ASSUME NEW q \in Ports, WriteResult(q)
      PROVE  values'[r] = values[r]
  <2>1. item[q].port = q /\ q # p
    BY <1>2 DEF WriteResult, TypeOK, EntryIsOwn
  <2> QED
    BY <1>2, <2>1 DEF WriteResult
<1>3. ASSUME NEW q \in Ports, ClearResult(q)
      PROVE  values'[r] \in {Zero, values[r]}
  BY <1>3 DEF ClearResult
<1>4. CASE UNCHANGED results
  BY <1>4 DEF results
<1> QED
  BY <1>1, <1>2, <1>3, <1>4, ResultsUndisturbed DEF vars

(* Between two transactions of p, its link and its last entry stay.            *)
LEMMA BetweenTransactions ==
  ASSUME TypeOK, [Next]_vars, NEW p \in Ports, pc'[p] = "visit"
  PROVE  \/ item'[p] = Zero
         \/ pc[p] = "visit" /\ link'[p] = link[p] /\ item'[p] = item[p]
         \/ WriteResult(p)
         \/ ClearResult(p)
<1> USE DEF Goto, round, TypeOK, RoundTypes, ResultTypes
<1> DEFINE Same == pc'[p] = pc[p] /\ link'[p] = link[p] /\ item'[p] = item[p]
<1>1. CASE ChangeTable \/ MarkChanged \/ UNCHANGED vars
  BY <1>1 DEF ChangeTable, MarkChanged, vars
<1>2. ASSUME NEW q \in Ports, ChangeSettings(q)
      PROVE  Same
  BY <1>2 DEF ChangeSettings
<1>3. ASSUME NEW q \in Ports \ {p}, Spawn(q) \/ Reopen(q) \/ Listen(q)
      PROVE  Same
  BY <1>3 DEF Spawn, Reopen, Listen
<1>4. ASSUME NEW q \in Ports \ {p}, Refresh(q)
      PROVE  Same
  BY <1>4 DEF Refresh, Look, Parse, Recheck, Publish, BeginRound
<1>5. ASSUME NEW q \in Ports \ {p}, Visit(q)
      PROVE  Same
  BY <1>5 DEF Visit, VisitOther, VisitOwn, DeferRest, EndOfTable, Rest
<1>6. ASSUME NEW q \in Ports \ {p}, Transact(q)
      PROVE  Same
  BY <1>6 DEF Transact, GoodAnswer, BadAnswer, WriteResult, ClearResult
<1>7. CASE Refresh(p)
  BY <1>7 DEF Refresh, Look, Parse, Recheck, Publish, BeginRound
<1>8. CASE Visit(p)
  BY <1>8 DEF Visit, VisitOther, VisitOwn, DeferRest, EndOfTable, Rest
<1>9. CASE Spawn(p) \/ Reopen(p) \/ Listen(p)
  BY <1>9 DEF Spawn, Reopen, Listen
<1>10. CASE GoodAnswer(p) \/ BadAnswer(p)
  BY <1>10 DEF GoodAnswer, BadAnswer
<1> QED
  BY <1>1, <1>2, <1>3, <1>4, <1>5, <1>6, <1>7, <1>8, <1>9, <1>10 DEF Next, PortStep, Transact

(* What is written was answered over a link that works.                       *)
LEMMA WritingFacts ==
  ASSUME TypeOK, [Next]_vars, NEW p \in Ports, pc'[p] = "write"
  PROVE  link'[p] = {} \/ (pc[p] = "write" /\ link'[p] = link[p])
<1> USE DEF Goto, TypeOK, RoundTypes, ResultTypes
<1> DEFINE Same == pc'[p] = pc[p] /\ link'[p] = link[p]
<1>1. CASE ChangeTable \/ MarkChanged \/ UNCHANGED vars
  BY <1>1 DEF ChangeTable, MarkChanged, vars
<1>2. ASSUME NEW q \in Ports, ChangeSettings(q)
      PROVE  Same
  BY <1>2 DEF ChangeSettings
<1>3. ASSUME NEW q \in Ports, Spawn(q) \/ Reopen(q) \/ Listen(q)
      PROVE  q # p /\ Same
  BY <1>3 DEF Spawn, Reopen, Listen
<1>4. ASSUME NEW q \in Ports, Refresh(q)
      PROVE  q # p /\ Same
  BY <1>4 DEF Refresh, Look, Parse, Recheck, Publish
<1>5. ASSUME NEW q \in Ports, Visit(q)
      PROVE  Same
  BY <1>5 DEF Visit, VisitOther, VisitOwn, DeferRest, EndOfTable, Rest
<1>6. ASSUME NEW q \in Ports, BadAnswer(q) \/ WriteResult(q) \/ ClearResult(q)
      PROVE  q # p /\ Same
  BY <1>6 DEF BadAnswer, WriteResult, ClearResult
<1>7. ASSUME NEW q \in Ports, GoodAnswer(q)
      PROVE  link'[p] = {} \/ Same
  BY <1>7 DEF GoodAnswer
<1> QED
  BY <1>1, <1>2, <1>3, <1>4, <1>5, <1>6, <1>7 DEF Next, PortStep, Transact

LEMMA BrokenKept == TypeOK /\ BrokenIsCleared /\ [Next]_vars => BrokenIsCleared'
<1> SUFFICES ASSUME TypeOK, BrokenIsCleared, [Next]_vars, NEW p \in Ports
             PROVE  /\ pc'[p] = "write" => link'[p] = {}
                    /\ pc'[p] = "visit" /\ link'[p] # {} /\ item'[p] # Zero =>
                         \A r \in item'[p].dest : values'[r] # Zero => values'[r].port # p
  BY DEF BrokenIsCleared
<1>1. pc'[p] = "write" => link'[p] = {}
  BY WritingFacts DEF BrokenIsCleared
<1>2. SUFFICES ASSUME pc'[p] = "visit", link'[p] # {}, item'[p] # Zero,
                      NEW r \in item'[p].dest, values'[r] # Zero, values'[r].port = p
               PROVE  FALSE
  BY <1>1
<1>3. ~WriteResult(p)
  BY <1>2 DEF WriteResult, BrokenIsCleared
<1>4. ~ClearResult(p)
  <2>1. ASSUME ClearResult(p)
        PROVE  r \notin Regs
    BY <2>1, <1>2 DEF ClearResult, round
  <2>2. ASSUME ClearResult(p)
        PROVE  item'[p] \in Entry
    BY <2>2, <1>2, TypesKept DEF TypeOK, RoundTypes
  <2> QED
    BY <1>2, <2>1, <2>2 DEF Entry
<1>5. pc[p] = "visit" /\ link'[p] = link[p] /\ item'[p] = item[p]
  BY <1>2, <1>3, <1>4, BetweenTransactions
<1>6. item[p] \in Entry /\ r \in Regs
  <2>1. item[p] \in Entry
    BY <1>2, <1>5 DEF TypeOK, RoundTypes
  <2> QED
    BY <1>2, <1>5, <2>1 DEF Entry
<1>7. values'[r] = values[r]
  BY <1>2, <1>3, <1>6, OthersWriteTheirOwn
<1> QED
  BY <1>2, <1>5, <1>7 DEF BrokenIsCleared

-----------------------------------------------------------------------------
(* The results                                                             *)

LEMMA InitIInv == Init => IInv
<1> SUFFICES ASSUME Init PROVE IInv
  OBVIOUS
<1> USE ConfigsAssumption, BoundsAssumption DEF Init
<1>1. ClientTypes /\ CopyTypes
  <2>1. FALSE \in BOOLEAN /\ 0 \in Nat /\ <<>> \in Seq(Entry)
    OBVIOUS
  <2> QED
    BY <2>1 DEF ClientTypes, CopyTypes
<1>2. RoundTypes
  <2>1. FALSE \in BOOLEAN /\ 0 \in 0 .. MaxRetry
    OBVIOUS
  <2> QED
    BY <2>1 DEF RoundTypes, Steps
<1>3. ResultTypes /\ EntryIsOwn /\ BrokenIsCleared
  BY DEF ResultTypes, EntryIsOwn, BrokenIsCleared
<1>4. CopiesFollow
  BY NamesAssumption DEF CopiesFollow, Refreshing
<1>5. ValidOfOneTable /\ ValuesHaveEntries
  BY DEF ValidOfOneTable, ValuesHaveEntries
<1> QED
  BY <1>1, <1>2, <1>3, <1>4, <1>5 DEF IInv, TypeOK

THEOREM Invariant == Spec => []IInv
<1>1. IInv /\ [Next]_vars => IInv'
  BY TypesKept, CopiesKept, ResultsKept, BrokenKept DEF IInv
<1> QED
  BY <1>1, InitIInv, PTL DEF Spec

(* Everything has its type, and a transaction is about an entry of the task's   *)
(* own table and port.                                                       *)
THEOREM TypeCorrect == Spec => []TypeOK
<1>1. IInv => TypeOK
  BY DEF IInv
<1> QED
  BY <1>1, Invariant, PTL

(* Once all masters have seen the newest table, every copy is that table, and     *)
(* so are the ranges that answer.                                            *)
LEMMA SettledFacts ==
  ASSUME IInv, Settled
  PROVE  /\ \A p \in Ports : table[p] = <<>> \/ table[p] = ParsePollTable(cfg)
         /\ \A p \in Ports : gen[p] = generation => table[p] = ParsePollTable(cfg)
         /\ valid = RangesOf(ParsePollTable(cfg))
<1>1. \A p \in Ports : gen[p] = NoGen \/ gen[p] = generation
  BY DEF Settled
<1>2. \A p \in Ports : gen[p] = generation => table[p] = ParsePollTable(cfg)
  BY DEF Settled, IInv, CopiesFollow
<1>3. \A p \in Ports : gen[p] = NoGen => table[p] = <<>>
  BY DEF IInv, CopiesFollow
<1>4. valid = RangesOf(ParsePollTable(cfg))
  <2>1. CASE \E p \in Ports : gen[p] # NoGen /\ valid = RangesOf(table[p])
    BY <2>1, <1>1, <1>2
  <2>2. CASE valid = {} /\ \A p \in Ports : table[p] = <<>>
    <3>1. PICK p \in Ports : gen[p] = generation
      BY DEF Settled
    <3>2. ParsePollTable(cfg) = <<>>
      BY <2>2, <3>1, <1>2
    <3>3. RangesOf(<<>>) = {}
      BY DEF RangesOf
    <3> QED
      BY <2>2, <3>2, <3>3
  <2> QED
    BY <2>1, <2>2 DEF IInv, ValidOfOneTable
<1> QED
  BY <1>1, <1>2, <1>3, <1>4

LEMMA OfTheTable == IInv => ResultsAreOfTheTable
<1> SUFFICES ASSUME IInv, Settled, NEW r \in Regs
             PROVE  IF r \in RangesOf(ParsePollTable(cfg))
                    THEN \E e \in Range(ParsePollTable(cfg)) :
                           r \in e.dest /\ ReadResult(r) \in {Zero, e}
                    ELSE ReadResult(r) = NoValue
  BY DEF ResultsAreOfTheTable
<1> DEFINE t == ParsePollTable(cfg)
<1>1. valid = RangesOf(t)
  BY SettledFacts
<1>2. CASE r \notin RangesOf(t)
  BY <1>1, <1>2 DEF ReadResult
<1>3. CASE r \in RangesOf(t)
  <2>1. ReadResult(r) = values[r]
    BY <1>1, <1>3 DEF ReadResult
  <2>2. CASE values[r] = Zero
    <3>1. \E i \in DOMAIN t : r \in t[i].dest
      BY <1>3 DEF RangesOf
    <3> QED
      BY <1>3, <2>1, <2>2, <3>1 DEF Range
  <2>3. CASE values[r] # Zero
    <3>1. r \in values[r].dest /\ values[r] \in Range(table[values[r].port])
      BY <2>3 DEF IInv, ValuesHaveEntries
    <3>2. values[r].port \in Ports
      BY <2>3 DEF IInv, TypeOK, ResultTypes, Entry
    <3>3. table[values[r].port] # <<>>
      BY <3>1 DEF Range
    <3>4. values[r] \in Range(t)
      BY <3>1, <3>2, <3>3, SettledFacts
    <3> QED
      BY <1>3, <2>1, <3>1, <3>4
  <2> QED
    BY <2>2, <2>3
<1> QED
  BY <1>2, <1>3

(* Two entries of an accepted table share no register, so the value that shows   *)
(* where the last entry goes would have to be of the port itself.              *)
LEMMA NothingShown == IInv => BrokenShowsNothing
<1> SUFFICES ASSUME IInv, Settled, NEW p \in Ports, pc[p] = "visit", gen[p] = generation,
                    link[p] # {}, NEW r \in Regs, item[p] \in Range(table[p]), item[p] # Zero,
                    r \in item[p].dest
             PROVE  ReadResult(r) = Zero
  BY DEF BrokenShowsNothing
<1> DEFINE t == ParsePollTable(cfg)
<1>1. table[p] = t /\ valid = RangesOf(t)
  BY SettledFacts
<1>2. PICK i \in DOMAIN t : item[p] = t[i]
  BY <1>1 DEF Range
<1>3. ReadResult(r) = values[r]
  BY <1>1, <1>2 DEF ReadResult, RangesOf
<1>4. SUFFICES ASSUME values[r] # Zero PROVE FALSE
  BY <1>3
<1>5. values[r].port # p
  BY <1>4 DEF IInv, BrokenIsCleared
<1>6. PICK e \in Range(t) : r \in e.dest /\ values[r] = e
  BY <1>1, <1>2, <1>3, <1>4, OfTheTable DEF ResultsAreOfTheTable, RangesOf
<1>7. PICK j \in DOMAIN t : e = t[j]
  BY <1>6 DEF Range
<1>8. Acceptable(cfg) /\ t = cfg.entries
  BY ParseFacts DEF IInv, Settled
<1>9. i = j
  BY <1>2, <1>6, <1>7, <1>8 DEF Acceptable
<1>10. item[p].port = p
  BY DEF IInv, TypeOK, EntryIsOwn
<1> QED
  BY <1>2, <1>5, <1>6, <1>7, <1>9, <1>10

(* What a client reads as the result of a polled register is of the device that  *)
(* the newest table names for it, and gone when that device stopped answering.   *)
THEOREM ResultsTrue == Spec => []ResultsAreTrue
<1>1. IInv => ResultsAreTrue
  BY OfTheTable, NothingShown DEF ResultsAreTrue
<1> QED
  BY <1>1, Invariant, PTL

-----------------------------------------------------------------------------
(* The inductive invariant of the server                                     *)

Indices == DOMAIN clients

(* A connection is known by its id; the buffers hold what Send lets through.  *)
Known ==
  /\ \A i, j \in Indices : clients[i].id = clients[j].id => i = j
  /\ \A i \in Indices : clients[i].id < nextId /\ clients[i].sock + clients[i].rx <= Frame + 1
  /\ \A s \in Slots : last[s] # None => Connected(last[s])

(* What a tick holds only while it polls.                                    *)
Staged ==
  /\ stage \in {"recover", "ports", "accept", "flush"} => dead = {}
  /\ stage # "serve" => order = <<>> /\ ~anyServed
  /\ anyServed => order = <<>>

Repaired ==
  /\ IsPrefix(listeners, activePorts)
  /\ stage \notin {"recover", "ports"} => due \/ Complete(listeners)

(* What is left of the order is sorted.                                     *)
Sorted == \A a, b \in DOMAIN order : a < b => Before(order[a], order[b])

(* How many requests may still be served before the watched connection's: it  *)
(* shrinks with every one of them, and no new connection makes it grow.        *)
Distance(i) == Behind(i - 1, Start(SlotOf(clients[i])), MaxConnections)
Ahead       == Distance(IndexOf(Watched)) * NumSlots + Turns(IndexOf(Watched))

Rounds == NumSlots * MaxConnections

Patience ==
  /\ upsets < MaxUpsets => skipped < Rounds * (1 + upsets)
  /\ Waits(Watched) /\ upsets < MaxUpsets => skipped + Ahead < Rounds * (1 + upsets)
  /\ ~Waits(Watched) => skipped = 0 \/ (Connected(Watched) /\ IndexOf(Watched) \in dead)
  /\ stage = "serve" /\ ~anyServed /\ Waits(Watched) /\ upsets < MaxUpsets =>
       IndexOf(Watched) \in Range(order) \/ skipped < Rounds * upsets

TcpInv == TcpTypeOK /\ Known /\ Staged /\ Repaired /\ SlowSenderIsTimed /\ Sorted /\ Patience

-----------------------------------------------------------------------------
(* Numbers                                                                 *)

LEMMA Bounds ==
  /\ NumSlots \in Nat /\ NumSlots > 0 /\ MaxConnections \in Nat /\ MaxConnections > 0
  /\ MaxUpsets \in Nat /\ MaxIds \in Nat /\ PartialLimit \in Nat /\ Watched \in Ids /\ None \notin Nat
  /\ Rounds \in Nat /\ Rounds > 0
<1>1. /\ NumSlots \in Nat /\ NumSlots > 0 /\ MaxConnections \in Nat /\ MaxConnections > 0
      /\ MaxUpsets \in Nat /\ MaxIds \in Nat /\ PartialLimit \in Nat /\ Watched \in Ids /\ None \notin Nat
  BY SlotsAssumption, TcpBounds, NoneAssumption DEF Ids
<1>2. \A m, n \in Nat : m > 0 /\ n > 0 => m * n \in Nat /\ m * n > 0
  OBVIOUS
<1> QED
  BY <1>1, <1>2 DEF Rounds

LEMMA Modulo == \A x \in 0 .. NumSlots : x % NumSlots = IF x = NumSlots THEN 0 ELSE x
  BY Bounds

LEMMA Times ==
  \A a, b \in Nat : a < b => a * NumSlots \in Nat /\ b * NumSlots \in Nat
                             /\ a * NumSlots + NumSlots <= b * NumSlots
<1>1. \A a, d, n \in Nat : (a + 1 + d) * n = a * n + n + d * n
  OBVIOUS
<1>2. \A a, n \in Nat : a * n \in Nat
  OBVIOUS
<1> SUFFICES ASSUME NEW a \in Nat, NEW b \in Nat, a < b
             PROVE  /\ a * NumSlots \in Nat /\ b * NumSlots \in Nat
                    /\ a * NumSlots + NumSlots <= b * NumSlots
  OBVIOUS
<1>3. PICK d \in Nat : b = a + 1 + d
  <2>1. b - a - 1 \in Nat /\ b = a + 1 + (b - a - 1)
    OBVIOUS
  <2> QED  BY <2>1
<1>4. b * NumSlots = a * NumSlots + NumSlots + d * NumSlots
  BY <1>1, <1>3, Bounds
<1>5. a * NumSlots \in Nat /\ b * NumSlots \in Nat /\ d * NumSlots \in Nat
  BY <1>2, Bounds
<1> QED  BY <1>4, <1>5, Bounds

LEMMA BehindIs ==
  ASSUME NEW n \in Nat, NEW a \in 0 .. (n - 1), NEW b \in 0 .. n
  PROVE  Behind(a, b, n) \in 0 .. (n - 1)
  BY DEF Behind

(* Every disturbance gives the rounds of a whole rotation.                    *)
LEMMA OneMore ==
  \A u \in Nat : /\ Rounds * u \in Nat /\ Rounds * (1 + u) = Rounds * u + Rounds
                 /\ Rounds * (1 + (u + 1)) = Rounds * (1 + u) + Rounds
<1>1. \A r, u \in Nat : r * u \in Nat /\ r * (1 + u) = r * u + r
  OBVIOUS
<1> QED  BY <1>1, Bounds

-----------------------------------------------------------------------------
(* The connections                                                         *)

LEMMA Indexed ==
  ASSUME TcpTypeOK, Known
  PROVE  /\ \A i \in Indices : Connected(clients[i].id) /\ IndexOf(clients[i].id) = i
         /\ \A id : Connected(id) => IndexOf(id) \in Indices /\ clients[IndexOf(id)].id = id
  BY DEF Known, Connected, IndexOf, Indices

LEMMA Lengths ==
  ASSUME TcpTypeOK
  PROVE  /\ Len(clients) \in 0 .. MaxConnections /\ Indices = 1 .. Len(clients)
         /\ \A i \in Indices : clients[i] \in Client
  BY Bounds DEF TcpTypeOK, Indices

LEMMA SlotIs ==
  ASSUME TcpTypeOK, NEW c \in Client PROVE SlotOf(c) \in Slots
  BY DEF TcpTypeOK, SlotOf, Client

LEMMA Numbers ==
  ASSUME TcpTypeOK, Known, NEW i \in Indices
  PROVE  /\ SlotOf(clients[i]) \in Slots /\ Turns(i) \in 0 .. (NumSlots - 1)
         /\ Start(SlotOf(clients[i])) \in 0 .. Len(clients)
         /\ Queue(i) \in 0 .. (Len(clients) - 1) /\ Distance(i) \in 0 .. (MaxConnections - 1)
<1>1. SlotOf(clients[i]) \in Slots
  BY Lengths, SlotIs
<1>2. Start(SlotOf(clients[i])) \in 0 .. Len(clients)
  BY <1>1, Lengths, Indexed DEF Known, Start
<1>3. Turns(i) \in 0 .. (NumSlots - 1)
  <2>1. SlotOf(clients[i]) - 1 \in 0 .. (NumSlots - 1) /\ portCursor \in 0 .. NumSlots
    BY <1>1, Bounds DEF Slots, TcpTypeOK
  <2> QED  BY <2>1, BehindIs, Bounds DEF Turns
<1>4. i - 1 \in 0 .. (Len(clients) - 1) /\ i - 1 \in 0 .. (MaxConnections - 1)
  BY Lengths, Bounds
<1>5. Len(clients) \in Nat /\ Start(SlotOf(clients[i])) \in 0 .. MaxConnections
  BY <1>2, Lengths, Bounds
<1>6. Queue(i) \in 0 .. (Len(clients) - 1)
  BY <1>2, <1>4, <1>5, BehindIs DEF Queue
<1>7. Distance(i) \in 0 .. (MaxConnections - 1)
  BY <1>4, <1>5, BehindIs, Bounds DEF Distance
<1> QED  BY <1>1, <1>2, <1>3, <1>6, <1>7

LEMMA AheadIs == TcpTypeOK /\ Known /\ Connected(Watched) => Ahead \in Nat /\ Ahead < Rounds
<1> SUFFICES ASSUME TcpTypeOK, Known, Connected(Watched)
             PROVE  Ahead \in Nat /\ Ahead < Rounds
  OBVIOUS
<1> DEFINE w == IndexOf(Watched)
<1>1. w \in Indices
  BY Indexed
<1>2. Distance(w) \in 0 .. (MaxConnections - 1) /\ Turns(w) \in 0 .. (NumSlots - 1)
  BY <1>1, Numbers
<1> HIDE DEF w
<1>3. Distance(w) * NumSlots + NumSlots <= MaxConnections * NumSlots /\ Distance(w) * NumSlots \in Nat
  BY <1>2, Times, Bounds
<1>4. MaxConnections * NumSlots = Rounds
  BY Bounds DEF Rounds
<1> QED  BY <1>2, <1>3, <1>4, Bounds DEF Ahead, w

-----------------------------------------------------------------------------
(* The order of the clients                                                 *)

LEMMA Slotwise ==
  ASSUME TcpTypeOK, Known, NEW i \in Indices, NEW j \in Indices, Turns(i) = Turns(j)
  PROVE  SlotOf(clients[i]) = SlotOf(clients[j]) /\ (Queue(i) = Queue(j) => i = j)
<1>1. SlotOf(clients[i]) \in Slots /\ SlotOf(clients[j]) \in Slots /\ portCursor \in 0 .. (NumSlots - 1)
  BY Numbers DEF TcpTypeOK
<1>2. SlotOf(clients[i]) = SlotOf(clients[j])
  BY <1>1, Bounds DEF Turns, Behind, Slots
<1>3. i \in 1 .. Len(clients) /\ j \in 1 .. Len(clients) /\ Len(clients) \in Nat
      /\ Start(SlotOf(clients[i])) \in 0 .. Len(clients)
  BY Lengths, Numbers
<1>4. Queue(i) = Queue(j) => i = j
  BY <1>2, <1>3 DEF Queue, Behind
<1> QED  BY <1>2, <1>4

LEMMA Ordering ==
  ASSUME TcpTypeOK, Known
  PROVE  /\ \A i \in Indices : ~Before(i, i)
         /\ \A i, j, k \in Indices : Before(i, j) /\ Before(j, k) => Before(i, k)
         /\ \A i, j \in Indices : i = j \/ Before(i, j) \/ Before(j, i)
<1>1. \A i \in Indices : Turns(i) \in Int /\ Queue(i) \in Int
  BY Numbers, Lengths, Bounds
<1>2. \A i, j \in Indices : Turns(i) = Turns(j) /\ Queue(i) = Queue(j) => i = j
  BY Slotwise
<1> QED  BY <1>1, <1>2 DEF Before

(* fair_client_schedule has every client, each after those that go before it.   *)
LEMMA FairIs ==
  ASSUME TcpTypeOK, Known
  PROVE  /\ DOMAIN FairSchedule = Indices /\ FairSchedule \in Seq(Indices)
         /\ Range(FairSchedule) = Indices
         /\ \A a, b \in Indices : a < b => Before(FairSchedule[a], FairSchedule[b])
<1> DEFINE upto(i) == {j \in Indices : j = i \/ Before(j, i)}
           N == Len(clients)
           place == [i \in Indices |-> Cardinality(upto(i))]
<1> HIDE DEF upto, N, place
<1>0. N \in Nat /\ Indices = 1 .. N /\ IsFiniteSet(Indices) /\ Cardinality(Indices) = N
  <2>1. N \in Nat /\ Indices = 1 .. N
    BY Lengths DEF N
  <2> QED  BY <2>1, FS_Interval
<1>1. \A i \in Indices : IsFiniteSet(upto(i)) /\ Cardinality(upto(i)) \in 1 .. N
  <2> TAKE i \in Indices
  <2>1. upto(i) \in SUBSET Indices /\ i \in upto(i)
    BY DEF upto
  <2>2. IsFiniteSet(upto(i)) /\ Cardinality(upto(i)) <= N
    BY <1>0, <2>1, FS_Subset
  <2>3. Cardinality(upto(i)) \in Nat /\ Cardinality(upto(i)) # 0
    BY <2>1, <2>2, FS_CardinalityType, FS_EmptySet
  <2> QED  BY <1>0, <2>2, <2>3
<1>2. \A i, j \in Indices : Before(i, j) => Cardinality(upto(i)) < Cardinality(upto(j))
  <2> SUFFICES ASSUME NEW i \in Indices, NEW j \in Indices, Before(i, j)
               PROVE  Cardinality(upto(i)) < Cardinality(upto(j))
    OBVIOUS
  <2>1. upto(i) \in SUBSET upto(j) /\ j \in upto(j) /\ j \notin upto(i)
    BY Ordering DEF upto
  <2>2. IsFiniteSet(upto(j)) /\ Cardinality(upto(i)) \in Nat /\ Cardinality(upto(j)) \in Nat
    BY <1>0, <1>1
  <2>3. upto(i) # upto(j)
    BY <2>1
  <2>4. Cardinality(upto(i)) <= Cardinality(upto(j)) /\ Cardinality(upto(i)) # Cardinality(upto(j))
    BY <2>1, <2>2, <2>3, FS_Subset
  <2> QED  BY <2>2, <2>4
<1>3. place \in Injection(Indices, 1 .. N)
  <2>1. place \in [Indices -> 1 .. N]
    BY <1>1 DEF place
  <2>2. ASSUME NEW i \in Indices, NEW j \in Indices, place[i] = place[j]
        PROVE  i = j
    <3>1. Cardinality(upto(i)) = Cardinality(upto(j)) /\ Cardinality(upto(i)) \in Int
      BY <1>0, <1>1, <2>2 DEF place
    <3>2. ~Before(i, j) /\ ~Before(j, i)
      BY <1>2, <3>1
    <3> QED  BY <3>2, Ordering
  <2> QED  BY <2>1, <2>2 DEF Injection, IsInjective
<1>4. place \in Surjection(Indices, 1 .. N)
  <2>1. IsFiniteSet(1 .. N) /\ Cardinality(Indices) = Cardinality(1 .. N)
    BY <1>0
  <2> QED  BY <1>3, <1>0, <2>1, FS_Injection
<1>5. \A n \in Indices : \E i \in Indices : Place(i) = n
  <2>1. \A n \in 1 .. N : \E i \in Indices : Cardinality(upto(i)) = n
    BY <1>4 DEF Surjection, place
  <2> QED  BY <1>0, <2>1 DEF Place, Indices, upto
<1>6. \A i \in Indices : Place(i) = Cardinality(upto(i)) /\ Place(i) \in Indices
  BY <1>0, <1>1 DEF Place, Indices, upto
<1>7. FairSchedule = [n \in Indices |-> CHOOSE i \in Indices : Place(i) = n]
  BY DEF FairSchedule, Indices
<1>8. \A n \in Indices : FairSchedule[n] \in Indices /\ Place(FairSchedule[n]) = n
  BY <1>5, <1>7
<1>9. \A i \in Indices : FairSchedule[Place(i)] = i
  <2> TAKE i \in Indices
  <2>1. FairSchedule[Place(i)] \in Indices /\ Place(FairSchedule[Place(i)]) = Place(i)
    BY <1>6, <1>8
  <2>2. place[FairSchedule[Place(i)]] = place[i]
    BY <1>6, <2>1 DEF place
  <2> QED  BY <1>3, <2>1, <2>2 DEF Injection, IsInjective
<1>10. DOMAIN FairSchedule = Indices /\ FairSchedule \in Seq(Indices)
  <2>1. DOMAIN FairSchedule = Indices /\ FairSchedule \in [1 .. N -> Indices]
    BY <1>0, <1>7, <1>8
  <2> QED  BY <1>0, <2>1
<1>11. Range(FairSchedule) = Indices
  <2>1. \A i \in Indices : \E n \in Indices : FairSchedule[n] = i
    BY <1>6, <1>9
  <2>2. \A n \in Indices : FairSchedule[n] \in Indices
    BY <1>8
  <2>3. Range(FairSchedule) = {FairSchedule[n] : n \in Indices}
    BY <1>10 DEF Range
  <2> HIDE DEF Indices
  <2> QED  BY <2>1, <2>2, <2>3
<1>12. ASSUME NEW a \in Indices, NEW b \in Indices, a < b
       PROVE  Before(FairSchedule[a], FairSchedule[b])
  <2> DEFINE i == FairSchedule[a]
             j == FairSchedule[b]
  <2>1. i \in Indices /\ j \in Indices /\ Place(i) = a /\ Place(j) = b
    BY <1>8
  <2>2. a \in Int /\ b \in Int
    BY <1>0
  <2> HIDE DEF i, j
  <2>3. i # j /\ ~Before(j, i)
    BY <1>2, <1>6, <1>12, <2>1, <2>2
  <2> QED  BY <2>1, <2>3, Ordering DEF i, j
<1> QED  BY <1>10, <1>11, <1>12

(* Distances in a ring, after those that went before went                       *)
LEMMA InSlot ==
  ASSUME NEW count \in Nat, NEW n \in Nat, count <= n, NEW start \in 0 .. count,
         NEW i \in 1 .. count, NEW w \in 1 .. count,
         Behind(i - 1, start, count) < Behind(w - 1, start, count)
  PROVE  Behind(w - 1, i, n) < Behind(w - 1, start, n)
  BY DEF Behind

LEMMA AmongSlots ==
  ASSUME NEW n \in Nat, NEW from \in 0 .. (n - 1), NEW i \in 1 .. n, NEW w \in 1 .. n, i # w,
         Behind(i - 1, from, n) < Behind(w - 1, from, n)
  PROVE  Behind(w - 1, IF i = n THEN 0 ELSE i, n) < Behind(w - 1, from, n)
  BY DEF Behind

LEMMA Fewer ==
  ASSUME NEW d \in Nat, NEW e \in Nat, NEW t \in 0 .. (NumSlots - 1), NEW u \in 0 .. (NumSlots - 1),
         e < d \/ (e = d /\ u < t)
  PROVE  e * NumSlots + u < d * NumSlots + t
<1>1. d * NumSlots \in Nat /\ e * NumSlots \in Nat
  BY Times
<1>2. CASE e < d
  <2>1. e * NumSlots + NumSlots <= d * NumSlots
    BY <1>2, Times
  <2> QED  BY <1>1, <2>1, Bounds
<1>3. CASE e = d /\ u < t
  BY <1>1, <1>3, Bounds
<1> QED  BY <1>2, <1>3

(* A connection that is served goes behind all others of its slot, and its slot *)
(* behind all other slots: whoever came after it is nearer now.                *)
LEMMA Nearer ==
  ASSUME TcpTypeOK, Known, TcpTypeOK', Known', NEW i \in Indices, Connected(Watched),
         Before(i, IndexOf(Watched)),
         Indices' = Indices, UNCHANGED activePorts,
         \A k \in Indices : clients'[k].id = clients[k].id /\ SlotOf(clients[k])' = SlotOf(clients[k]),
         last' = [last EXCEPT ![SlotOf(clients[i])] = clients[i].id],
         portCursor' = SlotOf(clients[i]) % NumSlots
  PROVE  Ahead' < Ahead
<1>1. PICK w \in Indices : w = IndexOf(Watched) /\ clients[w].id = Watched
  BY Indexed
<1>2. PICK si \in Slots, sw \in Slots : si = SlotOf(clients[i]) /\ sw = SlotOf(clients[w])
  BY Numbers
<1>3. IndexOf(Watched)' = w
  <2>1. clients'[w].id = Watched /\ w \in Indices'
    BY <1>1
  <2> QED  BY <1>1, <2>1 DEF IndexOf, Known, Indices
<1>4. portCursor \in 0 .. (NumSlots - 1) /\ portCursor' = IF si = NumSlots THEN 0 ELSE si
  <2>1. si \in 0 .. NumSlots /\ portCursor' = si % NumSlots
    BY <1>2, Bounds DEF Slots
  <2> QED  BY <2>1, Modulo DEF TcpTypeOK
<1>5. /\ Turns(w) = Behind(sw - 1, portCursor, NumSlots) /\ Turns(i) = Behind(si - 1, portCursor, NumSlots)
      /\ Distance(w) = Behind(w - 1, Start(sw), MaxConnections)
  BY <1>2 DEF Turns, Distance
<1>6. SlotOf(clients[w])' = sw
  BY <1>2
<1>7. /\ Turns(w)' = Behind(sw - 1, portCursor', NumSlots)
      /\ Distance(w)' = Behind(w - 1, Start(sw)', MaxConnections)
  BY <1>6 DEF Turns, Distance, Behind, Start
<1>8. /\ Turns(w) \in 0 .. (NumSlots - 1) /\ Distance(w) \in Nat
      /\ Start(sw) \in 0 .. Len(clients) /\ w \in 1 .. Len(clients) /\ i \in 1 .. Len(clients)
      /\ Len(clients) \in Nat /\ Len(clients) <= MaxConnections
  BY <1>2, Numbers, Lengths, Bounds
<1>9. Turns(w)' \in 0 .. (NumSlots - 1)
  <2>1. portCursor' \in 0 .. NumSlots /\ sw - 1 \in 0 .. (NumSlots - 1)
    BY <1>4, Bounds DEF Slots
  <2> QED  BY <1>7, <2>1, BehindIs, Bounds
<1>10. Ahead = Distance(w) * NumSlots + Turns(w) /\ Ahead' = Distance(w)' * NumSlots + Turns(w)'
  BY <1>1, <1>3 DEF Ahead, Distance, Turns, Behind, Start
<1>11. CASE Turns(i) = Turns(w)
  <2>1. si = sw /\ Queue(i) < Queue(w)
    BY <1>1, <1>2, <1>11, Slotwise, Numbers, Lengths, Bounds DEF Before
  <2>2. Start(sw)' = i
    <3>1. last'[sw] = clients[i].id /\ clients[i].id # None
      <4>1. clients[i].id \in Nat
        BY Lengths, Bounds DEF Client, Ids
      <4>2. last'[sw] = clients[i].id
        BY <1>2, <2>1 DEF TcpTypeOK
      <4> QED  BY <4>1, <4>2, Bounds
    <3>2. clients'[i].id = clients[i].id /\ i \in Indices'
      OBVIOUS
    <3>3. \A id : id = clients[i].id => IndexOf(id)' = i
      BY <3>2 DEF IndexOf, Known, Indices
    <3> QED  BY <3>1, <3>3 DEF Start
  <2>3. Queue(i) = Behind(i - 1, Start(sw), Len(clients)) /\ Queue(w) = Behind(w - 1, Start(sw), Len(clients))
    BY <1>2, <2>1 DEF Queue
  <2>4. Distance(w)' < Distance(w)
    BY <1>5, <1>7, <1>8, <2>1, <2>2, <2>3, InSlot, Bounds
  <2>5. Distance(w)' \in Nat
    BY <1>7, <1>8, <2>2, Bounds DEF Behind
  <2> QED  BY <1>8, <1>9, <1>10, <2>4, <2>5, Fewer
<1>12. CASE Turns(i) < Turns(w)
  <2>1. si # sw
    BY <1>5, <1>8, <1>12
  <2>2. Start(sw)' = Start(sw)
    <3>1. last'[sw] = last[sw] /\ (last[sw] # None => Connected(last[sw]))
      BY <1>2, <2>1 DEF TcpTypeOK, Known
    <3>2. ASSUME last[sw] # None PROVE \A id : id = last[sw] => IndexOf(id)' = IndexOf(id)
      <4>1. PICK k \in Indices : k = IndexOf(last[sw]) /\ clients[k].id = last[sw]
        BY <3>1, <3>2, Indexed
      <4>2. k \in Indices' /\ clients'[k].id = last[sw]
        BY <4>1
      <4>3. \A id : id = last[sw] => IndexOf(id)' = k
        BY <4>2 DEF IndexOf, Known, Indices
      <4> QED  BY <4>1, <4>3
    <3> QED  BY <3>1, <3>2 DEF Start
  <2>3. Distance(w)' = Distance(w)
    BY <1>5, <1>7, <2>2
  <2>4. Turns(w)' < Turns(w)
    <3>1. si \in 1 .. NumSlots /\ sw \in 1 .. NumSlots
      BY DEF Slots
    <3> QED  BY <3>1, <1>4, <1>5, <1>7, <1>12, <2>1, AmongSlots, Bounds
  <2> QED  BY <1>8, <1>9, <1>10, <2>3, <2>4, Fewer
<1> QED  BY <1>1, <1>11, <1>12 DEF Before

-----------------------------------------------------------------------------
(* Steps that touch connections and keep their places                         *)

(* The parts of a client that the handlers change; what is in the buffer is     *)
(* timed.                                                                  *)
Touched(c, d) ==
  /\ d \in Client /\ d.id = c.id /\ d.port = c.port /\ d.slot = c.slot
  /\ d.sock + d.rx <= Frame + 1 /\ (d.rx > 0 => d.timer # None)

Kept == clients' \in Seq(Client) /\ Indices' = Indices /\ \A k \in Indices : Touched(clients[k], clients'[k])

Sound == TcpTypeOK /\ Known /\ SlowSenderIsTimed

LEMMA Untouched ==
  ASSUME Sound, NEW k \in Indices PROVE Touched(clients[k], clients[k])
  BY Lengths DEF Sound, Known, SlowSenderIsTimed, Touched, Indices

LEMMA OneTouched ==
  ASSUME Sound, NEW i \in Indices, NEW d, Touched(clients[i], d), clients' = [clients EXCEPT ![i] = d]
  PROVE  Kept
<1>1. clients \in Seq(Client) /\ i \in DOMAIN clients /\ d \in Client
  BY DEF Sound, TcpTypeOK, Touched, Indices
<1>2. clients' \in Seq(Client) /\ Indices' = Indices
  BY <1>1 DEF Indices
<1>3. \A k \in Indices : clients'[k] = IF k = i THEN d ELSE clients[k]
  BY <1>1 DEF Indices
<1> QED  BY <1>2, <1>3, Untouched DEF Kept

LEMMA SomeTouched ==
  ASSUME Sound, DOMAIN clients' = DOMAIN clients, clients' = [k \in DOMAIN clients |-> clients'[k]],
         \A k \in Indices : Touched(clients[k], clients'[k])
  PROVE  Kept
<1>1. DOMAIN clients = 1 .. Len(clients) /\ Len(clients) \in Nat
  BY DEF Sound, TcpTypeOK
<1>2. \A k \in 1 .. Len(clients) : clients'[k] \in Client
  BY <1>1 DEF Touched, Indices
<1>3. clients' \in [1 .. Len(clients) -> Client]
  BY <1>1, <1>2
<1> QED  BY <1>1, <1>3 DEF Kept, Indices

LEMMA NoneTouched ==
  ASSUME Sound, UNCHANGED clients PROVE Kept
  BY Untouched DEF Kept, Sound, TcpTypeOK, Indices

(* Reading and answering                                                    *)
LEMMA Fields ==
  ASSUME NEW c \in Client
  PROVE  /\ c.id \in Ids /\ c.port \in TcpPorts /\ c.slot \in Slots /\ c.sock \in 0 .. Frame
         /\ c.rx \in 0 .. (Frame + 1) /\ c.timer \in Ages \union {None} /\ c.tx \in BOOLEAN
         /\ c = [id |-> c.id, port |-> c.port, slot |-> c.slot, sock |-> c.sock, rx |-> c.rx,
                 timer |-> c.timer, tx |-> c.tx]
  BY DEF Client

LEMMA ReadIs ==
  ASSUME NEW c \in Client, c.sock + c.rx <= Frame + 1, c.rx > 0 => c.timer # None
  PROVE  Touched(c, Read(c)) /\ Read(c).rx = c.rx + c.sock /\ Read(c).sock = 0 /\ Read(c).tx = c.tx
<1> DEFINE timer == IF c.rx = 0 THEN 0 ELSE c.timer
           d == [id |-> c.id, port |-> c.port, slot |-> c.slot, sock |-> 0, rx |-> c.rx + c.sock,
                 timer |-> timer, tx |-> c.tx]
<1>1. Read(c) = d
  <2>1. Read(c) = [[[c EXCEPT !.rx = c.rx + c.sock] EXCEPT !.sock = 0] EXCEPT !.timer = timer]
    BY DEF Read, Client
  <2> HIDE DEF timer
  <2>2. [c EXCEPT !.rx = c.rx + c.sock] =
          [id |-> c.id, port |-> c.port, slot |-> c.slot, sock |-> c.sock, rx |-> c.rx + c.sock,
           timer |-> c.timer, tx |-> c.tx]
    BY DEF Client
  <2> QED  BY <2>1, <2>2
<1>2. timer \in Ages \union {None} /\ timer # None
  BY Fields, Bounds DEF Ages, Frame
<1> HIDE DEF timer
<1>3. c.rx + c.sock \in 0 .. (Frame + 1) /\ 0 \in 0 .. Frame
  BY Fields DEF Frame
<1>4. d \in Client
  BY <1>2, <1>3, Fields DEF Client
<1>5. d.sock + d.rx <= Frame + 1
  BY <1>3
<1> QED  BY <1>1, <1>2, <1>4, <1>5 DEF Touched

LEMMA AnswerIs ==
  ASSUME NEW c \in Client, c.sock + c.rx <= Frame + 1, c.rx >= Frame, c.timer # None
  PROVE  Touched(c, Answer(c))
<1> DEFINE timer == IF c.rx = Frame THEN None ELSE c.timer
           d == [id |-> c.id, port |-> c.port, slot |-> c.slot, sock |-> c.sock, rx |-> c.rx - Frame,
                 timer |-> timer, tx |-> TRUE]
<1>1. Answer(c) = d
  <2>1. Answer(c) = [[[c EXCEPT !.rx = c.rx - Frame] EXCEPT !.tx = TRUE] EXCEPT !.timer = timer]
    BY DEF Answer, Client
  <2> HIDE DEF timer
  <2>2. [c EXCEPT !.rx = c.rx - Frame] =
          [id |-> c.id, port |-> c.port, slot |-> c.slot, sock |-> c.sock, rx |-> c.rx - Frame,
           timer |-> c.timer, tx |-> c.tx]
    BY DEF Client
  <2> QED  BY <2>1, <2>2
<1>2. timer \in Ages \union {None} /\ (c.rx - Frame > 0 => timer # None)
  BY Fields DEF Frame
<1> HIDE DEF timer
<1>3. c.rx - Frame \in 0 .. (Frame + 1) /\ c.sock + (c.rx - Frame) <= Frame + 1
  BY Fields DEF Frame
<1>4. d \in Client
  BY <1>2, <1>3, Fields DEF Client
<1> QED  BY <1>1, <1>2, <1>3, <1>4 DEF Touched

LEMMA SentIs ==
  ASSUME NEW c, NEW d, Touched(c, d), NEW pending \in BOOLEAN
  PROVE  Touched(c, [d EXCEPT !.tx = pending])
<1> DEFINE e == [d EXCEPT !.tx = pending]
<1>1. d \in Client
  BY DEF Touched
<1>2. /\ e \in Client /\ e.id = d.id /\ e.port = d.port /\ e.slot = d.slot /\ e.sock = d.sock
      /\ e.rx = d.rx /\ e.timer = d.timer
  BY <1>1 DEF Client
<1> HIDE DEF e
<1>3. Touched(c, e)
  BY <1>2 DEF Touched
<1> QED  BY <1>3 DEF e

LEMMA KeptIsKnown ==
  ASSUME Sound, Kept, UNCHANGED nextId,
         \/ UNCHANGED last
         \/ \E i \in Indices, s \in Slots : last' = [last EXCEPT ![s] = clients[i].id]
  PROVE  /\ Known' /\ SlowSenderIsTimed' /\ Len(clients') = Len(clients)
         /\ \A id : Connected(id)' <=> Connected(id)
         /\ \A id : Connected(id) => IndexOf(id)' = IndexOf(id)
<1>1. /\ Indices' = Indices /\ clients' \in Seq(Client) /\ clients \in Seq(Client)
      /\ \A k \in Indices : clients'[k].id = clients[k].id /\ clients'[k].sock + clients'[k].rx <= Frame + 1
                            /\ (clients'[k].rx > 0 => clients'[k].timer # None)
  BY DEF Kept, Touched, Sound, TcpTypeOK
<1>2. \A id : Connected(id)' <=> Connected(id)
  BY <1>1 DEF Connected, Indices
<1>3. \A id : Connected(id) => IndexOf(id)' = IndexOf(id)
  BY <1>1 DEF Connected, IndexOf, Indices
<1>4. SlowSenderIsTimed'
  BY <1>1 DEF SlowSenderIsTimed, Indices
<1>5. Len(clients') = Len(clients)
  BY <1>1 DEF Indices
<1>6. \A s \in Slots : last'[s] # None => Connected(last'[s])
  BY <1>1, Indexed DEF Sound, Known, TcpTypeOK
<1>7. Known'
  BY <1>1, <1>2, <1>6 DEF Known, Sound
<1> QED  BY <1>2, <1>3, <1>4, <1>5, <1>7

(* Who keeps place, cursor and last served client keeps the order.             *)
LEMMA SameOrder ==
  ASSUME Sound, Kept, UNCHANGED <<nextId, activePorts, portCursor, last>>
  PROVE  /\ \A i, j \in Indices : Before(i, j)' <=> Before(i, j)
         /\ Connected(Watched) => Ahead' = Ahead
<1>1. \A id : Connected(id) => IndexOf(id)' = IndexOf(id)
  BY KeptIsKnown
<1>2. \A k \in Indices : SlotOf(clients[k])' = SlotOf(clients[k]) /\ Turns(k)' = Turns(k)
  BY DEF Kept, Touched, SlotOf, Turns, Behind
<1>3. \A s \in Slots : Start(s)' = Start(s)
  BY <1>1 DEF Start, Sound, Known
<1>4. Len(clients') = Len(clients)
  BY KeptIsKnown
<1>5. \A k \in Indices : SlotOf(clients[k]) \in Slots
  BY Numbers DEF Sound
<1>6. \A k \in Indices : Queue(k)' = Queue(k) /\ Distance(k)' = Distance(k)
  BY <1>2, <1>3, <1>4, <1>5 DEF Queue, Distance, Behind
<1>7. \A i, j \in Indices : Before(i, j)' <=> Before(i, j)
  BY <1>2, <1>6 DEF Before
<1>8. ASSUME Connected(Watched) PROVE Ahead' = Ahead
  <2>1. PICK w \in Indices : w = IndexOf(Watched) /\ w = IndexOf(Watched)'
    BY <1>1, <1>8, Indexed DEF Sound
  <2>2. Ahead = Distance(w) * NumSlots + Turns(w) /\ Ahead' = Distance(w)' * NumSlots + Turns(w)'
    BY <2>1 DEF Ahead, Distance, Turns, Behind, Start
  <2> QED  BY <2>2, <1>2, <1>6
<1> QED  BY <1>7, <1>8

-----------------------------------------------------------------------------
(* The handlers that keep the places of the connections                       *)

LEMMA SendKeeps == ASSUME Sound, Send PROVE Kept
<1>1. PICK i \in Indices :
        /\ clients[i].sock < Frame /\ clients[i].sock + clients[i].rx <= MaxAhead
        /\ clients' = [clients EXCEPT ![i].sock = @ + 1]
  BY DEF Send, Indices
<1>2. PICK c \in Client : c = clients[i]
  BY Lengths, <1>1 DEF Sound
<1>3. PICK d : d = [c EXCEPT !.sock = @ + 1]
  OBVIOUS
<1>4. d = [id |-> c.id, port |-> c.port, slot |-> c.slot, sock |-> c.sock + 1, rx |-> c.rx,
           timer |-> c.timer, tx |-> c.tx]
  BY <1>3 DEF Client
<1>5. c.sock + 1 \in 0 .. Frame /\ c.sock + 1 + c.rx <= Frame + 1
  BY <1>1, <1>2, Fields DEF Frame, MaxAhead
<1>6. c.rx > 0 => c.timer # None
  BY <1>1, <1>2 DEF Sound, SlowSenderIsTimed, Indices
<1>7. d \in Client
  BY <1>4, <1>5, Fields DEF Client
<1>8. Touched(c, d)
  BY <1>4, <1>5, <1>6, <1>7 DEF Touched
<1>9. clients' = [clients EXCEPT ![i] = d]
  BY <1>1, <1>2, <1>3
<1> QED  BY <1>2, <1>8, <1>9, OneTouched

LEMMA TimeKeeps == ASSUME Sound, TimePasses PROVE Kept
<1>1. clients' = [i \in Indices |-> [clients[i] EXCEPT !.timer = Older(@)]]
  BY DEF TimePasses, Indices
<1>2. ASSUME NEW i \in Indices PROVE Touched(clients[i], clients'[i])
  <2>1. PICK c \in Client : c = clients[i]
    BY Lengths DEF Sound
  <2>2. clients'[i] = [id |-> c.id, port |-> c.port, slot |-> c.slot, sock |-> c.sock, rx |-> c.rx,
                       timer |-> Older(c.timer), tx |-> c.tx]
    BY <1>1, <2>1 DEF Client
  <2>3. Older(c.timer) \in Ages \union {None} /\ (c.timer # None => Older(c.timer) # None)
    BY Fields, Bounds DEF Older, Ages
  <2>4. c.sock + c.rx <= Frame + 1 /\ (c.rx > 0 => c.timer # None)
    BY <2>1 DEF Sound, Known, SlowSenderIsTimed, Indices
  <2>5. clients'[i] \in Client
    BY <2>2, <2>3, Fields DEF Client
  <2> QED  BY <2>1, <2>2, <2>3, <2>4, <2>5 DEF Touched
<1>3. DOMAIN clients' = DOMAIN clients /\ clients' = [k \in DOMAIN clients |-> clients'[k]]
  BY <1>1 DEF Indices
<1> QED  BY <1>2, <1>3, SomeTouched

LEMMA FlushKeeps == ASSUME Sound, FlushAll PROVE Kept
<1>1. PICK sent \in SUBSET {i \in Indices : clients[i].tx} :
        clients' = [i \in Indices |-> IF i \in sent THEN [clients[i] EXCEPT !.tx = FALSE] ELSE clients[i]]
  BY DEF FlushAll, Indices
<1>2. ASSUME NEW i \in Indices PROVE Touched(clients[i], clients'[i])
  <2>1. PICK c \in Client : c = clients[i]
    BY Lengths DEF Sound
  <2>2. CASE i \notin sent
    <3>1. clients'[i] = clients[i]
      BY <1>1, <2>2
    <3> QED  BY <3>1, Untouched
  <2>3. CASE i \in sent
    <3>1. clients'[i] = [id |-> c.id, port |-> c.port, slot |-> c.slot, sock |-> c.sock, rx |-> c.rx,
                         timer |-> c.timer, tx |-> FALSE]
      BY <1>1, <2>1, <2>3 DEF Client
    <3>2. c.sock + c.rx <= Frame + 1 /\ (c.rx > 0 => c.timer # None)
      BY <2>1 DEF Sound, Known, SlowSenderIsTimed, Indices
    <3>3. clients'[i] \in Client
      BY <3>1, Fields DEF Client
    <3> QED  BY <2>1, <3>1, <3>2, <3>3 DEF Touched
  <2> QED  BY <2>2, <2>3
<1>3. DOMAIN clients' = DOMAIN clients /\ clients' = [k \in DOMAIN clients |-> clients'[k]]
  BY <1>1 DEF Indices
<1> QED  BY <1>2, <1>3, SomeTouched

LEMMA FirstIs == ASSUME TcpTypeOK, Turn PROVE First \in Indices /\ Tail(order) \in Seq(Indices)
  BY DEF TcpTypeOK, Turn, First, Indices

LEMMA ServeKeeps == ASSUME Sound, ServeRequest PROVE Kept
<1>1. First \in Indices
  BY FirstIs DEF ServeRequest, Sound
<1>2. PICK i \in Indices, c \in Client : i = First /\ c = clients[i]
  BY <1>1, Lengths DEF Sound
<1>3. PICK full : full = IF c.rx >= Frame THEN c ELSE Read(c)
  OBVIOUS
<1>4. PICK pending \in BOOLEAN : clients' = [clients EXCEPT ![i] = [Answer(full) EXCEPT !.tx = pending]]
  BY <1>2, <1>3 DEF ServeRequest
<1>5. HasRequest(c) /\ c.sock + c.rx <= Frame + 1 /\ (c.rx > 0 => c.timer # None)
  BY <1>2 DEF ServeRequest, Sound, Known, SlowSenderIsTimed, Indices
<1>6. Touched(c, full) /\ full.rx >= Frame
  <2>1. CASE c.rx >= Frame
    <3>1. Touched(c, c)
      BY <1>2, Untouched
    <3> QED  BY <1>3, <2>1, <3>1
  <2>2. CASE ~(c.rx >= Frame)
    <3>1. full = Read(c)
      BY <1>3, <2>2
    <3>2. Touched(c, full) /\ full.rx = c.rx + c.sock
      BY <1>5, <3>1, ReadIs
    <3> QED  BY <1>5, <3>2, Fields DEF HasRequest, Frame
  <2> QED  BY <2>1, <2>2
<1>7. full \in Client /\ full.sock + full.rx <= Frame + 1 /\ full.timer # None
  BY <1>6, Fields DEF Touched, Frame
<1>8. Touched(full, Answer(full))
  BY <1>6, <1>7, AnswerIs
<1>9. Touched(c, [Answer(full) EXCEPT !.tx = pending])
  <2>1. Touched(c, Answer(full))
    BY <1>6, <1>8 DEF Touched
  <2> QED  BY <2>1, SentIs
<1> QED  BY <1>2, <1>4, <1>9, OneTouched

(* Whoever is passed over has not got a request from it.                       *)
LEMMA PassKeeps ==
  ASSUME Sound, PassOver
  PROVE  /\ Kept /\ First \in Indices
         /\ dead' = dead \/ dead' = dead \union {First}
         /\ First \in dead' \/ ~HasRequest(clients[First])
         /\ \A k \in Indices : HasRequest(clients'[k]) <=> HasRequest(clients[k])
<1>1. First \in Indices
  BY FirstIs DEF PassOver, Sound
<1>2. PICK i \in Indices, c \in Client : i = First /\ c = clients[i]
  BY <1>1, Lengths DEF Sound
<1>3. CASE UNCHANGED clients
  <2>1. Kept
    BY <1>3, NoneTouched
  <2> QED  BY <1>2, <1>3, <2>1 DEF PassOver, HasRequest
<1>4. CASE /\ First \notin dead /\ ~c.tx /\ ~HasRequest(c) /\ c.sock # 0
           /\ clients' = [clients EXCEPT ![i] = Read(c)] /\ UNCHANGED dead
  <2>1. c.sock + c.rx <= Frame + 1 /\ (c.rx > 0 => c.timer # None)
    BY <1>2 DEF Sound, Known, SlowSenderIsTimed, Indices
  <2>2. Touched(c, Read(c)) /\ Read(c).rx = c.rx + c.sock /\ Read(c).sock = 0 /\ Read(c).tx = c.tx
    BY <2>1, ReadIs
  <2>3. Kept
    BY <1>2, <1>4, <2>2, OneTouched
  <2>4. \A k \in Indices : clients'[k] = IF k = i THEN Read(c) ELSE clients[k]
    BY <1>4 DEF Sound, TcpTypeOK, Indices
  <2>5. HasRequest(Read(c)) <=> HasRequest(c)
    BY <2>2, Fields DEF HasRequest, Frame
  <2> QED  BY <1>2, <1>4, <2>3, <2>4, <2>5
<1> QED  BY <1>2, <1>3, <1>4 DEF PassOver

-----------------------------------------------------------------------------
(* The listeners, and the stages of a tick                                    *)

LEMMA PortsAre ==
  ASSUME NEW s \in PortSets
  PROVE  /\ s \in [Slots -> TcpPorts] /\ s \in Seq(TcpPorts) /\ Len(s) = NumSlots /\ Complete(s) /\ IsPrefix(s, s)
         /\ \A n \in 0 .. (NumSlots - 1) : SubSeq(s, 1, n) \in Seq(TcpPorts) /\ IsPrefix(SubSeq(s, 1, n), s)
<1>1. s \in [1 .. NumSlots -> TcpPorts]
  BY SlotsAssumption DEF Slots
<1>2. s \in Seq(TcpPorts) /\ Len(s) = NumSlots
  BY <1>1, Bounds
<1>3. \A n \in 0 .. (NumSlots - 1) : SubSeq(s, 1, n) \in Seq(TcpPorts) /\ Len(SubSeq(s, 1, n)) = n
  BY <1>2, Bounds
<1>4. \A n \in 0 .. (NumSlots - 1) : SubSeq(SubSeq(s, 1, n), 1, n) = SubSeq(s, 1, n)
  BY <1>2, Bounds
<1>5. \A n \in 0 .. (NumSlots - 1) : n <= NumSlots
  BY Bounds
<1> QED  BY <1>1, <1>2, <1>3, <1>4, <1>5, Bounds DEF IsPrefix, Complete, Slots

LEMMA ListenersAre ==
  ASSUME TcpTypeOK, Repaired
  PROVE  /\ DOMAIN listeners \subseteq Slots
         /\ \A i \in DOMAIN listeners : listeners[i] = activePorts[i]
<1>1. Len(activePorts) = NumSlots /\ activePorts \in Seq(TcpPorts)
  BY PortsAre DEF TcpTypeOK
<1>2. listeners \in Seq(TcpPorts) /\ Len(listeners) <= NumSlots
      /\ SubSeq(listeners, 1, Len(listeners)) = SubSeq(activePorts, 1, Len(listeners))
  BY <1>1 DEF TcpTypeOK, Repaired, IsPrefix
<1>3. DOMAIN listeners \subseteq Slots
  BY <1>2, Bounds DEF Slots
<1>4. \A i \in 1 .. Len(listeners) : SubSeq(listeners, 1, Len(listeners))[i] = listeners[i]
                                     /\ SubSeq(activePorts, 1, Len(listeners))[i] = activePorts[i]
  BY <1>1, <1>2, Bounds
<1> QED  BY <1>2, <1>3, <1>4

Basic == Sound /\ Staged /\ Repaired

(* What leaves the connections alone.                                       *)
HandsOff ==
  Configure \/ NotDue \/ RecoverListeners \/ RecoverInPart \/ SamePorts \/ Rebind \/ ListenerFails \/ NobodyListens
  \/ Late \/ EndServing

LEMMA UpsetTypes ==
  ASSUME TcpTypeOK, Upset \/ Forgotten \/ UNCHANGED watch PROVE skipped' \in Nat /\ upsets' \in 0 .. MaxUpsets
<1>1. skipped \in Nat /\ upsets \in 0 .. MaxUpsets /\ MaxUpsets \in Nat
  BY Bounds DEF TcpTypeOK
<1>2. \A m, n \in Nat : Min({m, n}) = IF m <= n THEN m ELSE n
  BY DEF Min
<1>3. Min({upsets + 1, MaxUpsets}) \in 0 .. MaxUpsets
  BY <1>1, <1>2
<1> QED  BY <1>1, <1>3 DEF Upset, Forgotten, watch

LEMMA HandsOffKeeps == ASSUME Basic, HandsOff PROVE Basic'
<1>1. TcpTypeOK /\ Known /\ SlowSenderIsTimed /\ Staged /\ Repaired
  BY DEF Basic, Sound
<1>2. UNCHANGED <<clients, conns, nextId>>
  BY DEF HandsOff, Configure, NotDue, RecoverListeners, RecoverInPart, SamePorts, Rebind, ListenerFails,
         NobodyListens, Late, EndServing
<1>3. UNCHANGED last
  BY DEF HandsOff, Configure, NotDue, RecoverListeners, RecoverInPart, SamePorts, Rebind, ListenerFails,
         NobodyListens, Late, EndServing, schedule
<1>4. Known' /\ SlowSenderIsTimed'
  BY <1>1, <1>2, <1>3 DEF Known, SlowSenderIsTimed, Indices, Connected
<1>5. Upset \/ UNCHANGED watch
  BY DEF HandsOff, Configure, NotDue, RecoverListeners, RecoverInPart, SamePorts, Rebind, ListenerFails,
         NobodyListens, Late, EndServing
<1>6. skipped' \in Nat /\ upsets' \in 0 .. MaxUpsets
  BY <1>1, <1>5, UpsetTypes
<1>7. configured \in PortSets /\ activePorts \in PortSets
  BY <1>1 DEF TcpTypeOK
<1>8. CASE Configure \/ NotDue \/ RecoverListeners \/ RecoverInPart
  <2>1. TcpTypeOK'
    <3>1. listeners' \in Seq(TcpPorts)
      BY <1>1, <1>7, <1>8, PortsAre DEF Configure, NotDue, RecoverListeners, RecoverInPart, TcpTypeOK, listening
    <3>2. UNCHANGED <<schedule, polling, activePorts>> /\ configured' \in PortSets /\ due' \in BOOLEAN
          /\ stage' \in {"recover", "ports"}
      BY <1>1, <1>8 DEF Configure, NotDue, RecoverListeners, RecoverInPart, TcpTypeOK, listening, GoTo
    <3> QED  BY <1>1, <1>2, <1>6, <3>1, <3>2 DEF TcpTypeOK, schedule, polling
  <2>2. Staged'
    BY <1>1, <1>8 DEF Configure, NotDue, RecoverListeners, RecoverInPart, Staged, polling, GoTo
  <2>3. Repaired'
    BY <1>1, <1>7, <1>8, PortsAre
    DEF Configure, NotDue, RecoverListeners, RecoverInPart, Repaired, listening, GoTo, Complete
  <2> QED  BY <1>4, <2>1, <2>2, <2>3 DEF Basic, Sound
<1>9. CASE SamePorts \/ Rebind \/ ListenerFails \/ NobodyListens
  <2>1. TcpTypeOK'
    <3>1. listeners' \in Seq(TcpPorts)
      BY <1>1, <1>7, <1>9, PortsAre DEF SamePorts, Rebind, ListenerFails, NobodyListens, TcpTypeOK, listening
    <3>2. /\ UNCHANGED <<last, polling>> /\ (portCursor' = portCursor \/ portCursor' = 0)
          /\ configured' \in PortSets /\ activePorts' \in PortSets /\ due' \in BOOLEAN
          /\ stage' \in {"ports", "accept", "flush"}
      BY <1>1, <1>9 DEF SamePorts, Rebind, ListenerFails, NobodyListens, TcpTypeOK, listening, GoTo, schedule
    <3>3. portCursor' \in 0 .. (NumSlots - 1)
      BY <1>1, <3>2, Bounds DEF TcpTypeOK
    <3> QED  BY <1>1, <1>2, <1>6, <3>1, <3>2, <3>3 DEF TcpTypeOK, polling
  <2>2. Staged'
    BY <1>1, <1>9 DEF SamePorts, Rebind, ListenerFails, NobodyListens, Staged, polling, GoTo
  <2>3. Repaired'
    BY <1>1, <1>7, <1>9, PortsAre
    DEF SamePorts, Rebind, ListenerFails, NobodyListens, Repaired, listening, GoTo, Complete
  <2> QED  BY <1>4, <2>1, <2>2, <2>3 DEF Basic, Sound
<1>10. CASE Late \/ EndServing
  <2>1. /\ UNCHANGED <<listening, last, dead>> /\ order' = <<>> /\ stage = "serve"
        /\ stage' \in {"serve", "close", "recover"} /\ anyServed' \in BOOLEAN
        /\ (portCursor' = portCursor \/ portCursor' = (portCursor + 1) % NumSlots)
    BY <1>1, <1>10 DEF Late, EndServing, schedule, GoTo, CloseRest, Turn, TcpTypeOK
  <2>2. portCursor' \in 0 .. (NumSlots - 1)
    <3>1. portCursor + 1 \in 0 .. NumSlots /\ portCursor \in 0 .. (NumSlots - 1)
      BY <1>1, Bounds DEF TcpTypeOK
    <3> QED  BY <2>1, <3>1, Modulo, Bounds
  <2>3. TcpTypeOK'
    <3>1. order' \in Seq(DOMAIN clients')
      BY <2>1
    <3> QED  BY <1>1, <1>2, <1>6, <2>1, <2>2, <3>1 DEF TcpTypeOK, listening
  <2>4. Staged'
    BY <1>1, <1>10, <2>1 DEF Late, EndServing, Staged, GoTo, CloseRest
  <2>5. Repaired'
    BY <1>1, <2>1 DEF Repaired, listening, Complete
  <2> QED  BY <1>4, <2>3, <2>4, <2>5 DEF Basic, Sound
<1> QED  BY <1>8, <1>9, <1>10 DEF HandsOff

(* What touches connections and keeps their places.                          *)
Touching == Send \/ TimePasses \/ FlushAll \/ ServeRequest \/ PassOver

LEMMA TouchingKeeps == ASSUME Basic, Touching PROVE Basic' /\ Kept
<1>1. TcpTypeOK /\ Known /\ SlowSenderIsTimed /\ Staged /\ Repaired /\ Sound
  BY DEF Basic, Sound
<1>2. Kept
  BY <1>1, SendKeeps, TimeKeeps, FlushKeeps, ServeKeeps, PassKeeps DEF Touching
<1>3. UNCHANGED <<listening, conns, nextId>>
  BY DEF Touching, Send, TimePasses, FlushAll, ServeRequest, PassOver
<1>4. \/ UNCHANGED schedule
      \/ \E i \in Indices : /\ last' = [last EXCEPT ![SlotOf(clients[i])] = clients[i].id]
                            /\ portCursor' = SlotOf(clients[i]) % NumSlots
  BY <1>1, FirstIs DEF Touching, Send, TimePasses, FlushAll, ServeRequest, PassOver
<1>5. \A i \in Indices : SlotOf(clients[i]) \in Slots /\ clients[i].id \in Ids
  BY <1>1, Numbers, Lengths, Fields
<1>6. Known' /\ SlowSenderIsTimed' /\ Len(clients') = Len(clients)
  BY <1>1, <1>2, <1>3, <1>4, <1>5, KeptIsKnown DEF schedule
<1>7. last' \in [Slots -> Ids \union {None}] /\ portCursor' \in 0 .. (NumSlots - 1)
  <2>1. \A s \in Slots : s % NumSlots \in 0 .. (NumSlots - 1)
    <3>1. \A s \in Slots : s \in 0 .. NumSlots
      BY Bounds DEF Slots
    <3> QED  BY <3>1, Modulo, Bounds
  <2> QED  BY <1>1, <1>4, <1>5, <2>1 DEF TcpTypeOK, schedule
<1>8. /\ stage' \in {"recover", "ports", "accept", "flush", "serve", "close"} /\ anyServed' \in BOOLEAN
      /\ skipped' \in Nat /\ upsets' \in 0 .. MaxUpsets /\ order' \in Seq(Indices) /\ dead' \subseteq Indices
  <2>1. CASE Send \/ TimePasses
    BY <1>1, <2>1 DEF TcpTypeOK, Send, TimePasses, polling, watch, Indices
  <2>2. CASE FlushAll
    <3>1. FairSchedule \in Seq(Indices)
      BY <1>1, FairIs
    <3>2. dead' \subseteq Indices
      BY <2>2 DEF FlushAll, Indices
    <3> QED  BY <1>1, <2>2, <3>1, <3>2 DEF TcpTypeOK, FlushAll, watch, GoTo
  <2>3. CASE ServeRequest
    <3>1. First \in Indices
      BY <1>1, <2>3, FirstIs DEF ServeRequest
    <3>2. skipped' \in Nat /\ upsets' \in 0 .. MaxUpsets
      BY <1>1, <2>3, UpsetTypes DEF ServeRequest, Forgotten, TcpTypeOK
    <3>3. order' = <<>> /\ anyServed' = TRUE /\ stage' = stage /\ dead' \in {dead, dead \union {First}}
      BY <2>3 DEF ServeRequest
    <3>4. order' \in Seq(Indices)
      BY <3>3
    <3> QED  BY <1>1, <3>1, <3>2, <3>3, <3>4 DEF TcpTypeOK, Indices
  <2>4. CASE PassOver
    <3>1. First \in Indices /\ Tail(order) \in Seq(Indices)
      BY <1>1, <2>4, FirstIs DEF PassOver
    <3>2. dead' = dead \/ dead' = dead \union {First}
      BY <1>1, <2>4, PassKeeps
    <3> QED  BY <1>1, <2>4, <3>1, <3>2 DEF TcpTypeOK, PassOver, watch, Indices
  <2> QED  BY <2>1, <2>2, <2>3, <2>4 DEF Touching
<1>9. TcpTypeOK'
  <2>1. clients' \in Seq(Client) /\ DOMAIN clients' = Indices
    BY <1>2 DEF Kept, Indices
  <2> QED  BY <1>1, <1>3, <1>6, <1>7, <1>8, <2>1 DEF TcpTypeOK, listening
<1>10. Staged'
  BY <1>1 DEF Touching, Send, TimePasses, FlushAll, ServeRequest, PassOver, Staged, polling, Turn, GoTo
<1>11. Repaired'
  BY <1>1, <1>3 DEF Touching, Send, TimePasses, FlushAll, ServeRequest, PassOver, Repaired, listening, Complete,
                    GoTo, Turn
<1> QED  BY <1>2, <1>6, <1>9, <1>10, <1>11 DEF Basic, Sound

-----------------------------------------------------------------------------
(* Connections come and go                                                  *)

LEMMA AcceptIs ==
  ASSUME Basic, Accept
  PROVE  \E n \in Nat :
           /\ Len(clients') = Len(clients) + n /\ Len(clients') <= MaxConnections /\ clients' \in Seq(Client)
           /\ conns' = Len(clients') /\ nextId' = nextId + n /\ nextId' <= MaxIds + 1
           /\ \A i \in Indices : clients'[i] = clients[i]
           /\ \A i \in (Len(clients) + 1) .. (Len(clients) + n) :
                /\ clients'[i].id = nextId + (i - Len(clients)) - 1
                /\ clients'[i].rx = 0 /\ clients'[i].sock = 0
<1>0. /\ clients \in Seq(Client) /\ Len(clients) \in 0 .. MaxConnections /\ Indices = 1 .. Len(clients)
      /\ nextId \in 1 .. (MaxIds + 1) /\ conns = Len(clients) /\ activePorts \in [Slots -> TcpPorts]
  BY Lengths, PortsAre DEF Basic, Sound, TcpTypeOK
<1>a. PICK from \in SUBSET DOMAIN listeners : \E taken \in SetToSeqs(from) :
        /\ nextId + Len(Room(taken)) - 1 <= MaxIds /\ nextId' = nextId + Len(Room(taken))
        /\ clients' = clients \o [k \in DOMAIN Room(taken) |-> NewClient(nextId + k - 1, Room(taken)[k])]
        /\ conns' = IF Room(taken) = <<>> THEN conns ELSE Len(clients')
  BY DEF Accept
<1>1. PICK taken \in SetToSeqs(from) :
        /\ nextId + Len(Room(taken)) - 1 <= MaxIds /\ nextId' = nextId + Len(Room(taken))
        /\ clients' = clients \o [k \in DOMAIN Room(taken) |-> NewClient(nextId + k - 1, Room(taken)[k])]
        /\ conns' = IF Room(taken) = <<>> THEN conns ELSE Len(clients')
  BY <1>a
<1>2. taken \in Seq(Slots)
  <2>1. DOMAIN listeners \subseteq Slots /\ IsFiniteSet(Slots)
    BY ListenersAre, FS_Interval, Bounds DEF Basic, Sound, Slots
  <2>2. IsFiniteSet(from) /\ from \subseteq Slots
    BY <2>1, FS_Subset
  <2>3. Cardinality(from) \in Nat /\ taken \in [1 .. Cardinality(from) -> from]
    BY <2>2, FS_CardinalityType DEF SetToSeqs
  <2> QED  BY <2>2, <2>3
<1>3. PICK room : room = Room(taken)
  OBVIOUS
<1>4. PICK n \in Nat : n = Min({Len(taken), MaxConnections - Len(clients)}) /\ n <= Len(taken)
                       /\ n <= MaxConnections - Len(clients)
  <2>1. \A a, b \in Nat : Min({a, b}) = IF a <= b THEN a ELSE b
    BY DEF Min
  <2>2. Len(taken) \in Nat /\ MaxConnections - Len(clients) \in Nat
    BY <1>0, <1>2, Bounds
  <2> QED  BY <2>1, <2>2
<1>5. room \in Seq(Slots) /\ Len(room) = n /\ DOMAIN room = 1 .. n
  <2>1. room = SubSeq(taken, 1, n)
    BY <1>3, <1>4 DEF Room
  <2>2. n \in Nat /\ n <= Len(taken) /\ taken \in Seq(Slots)
    BY <1>2, <1>4
  <2>3. room \in Seq(Slots) /\ Len(room) = n
    BY <2>1, <2>2
  <2> QED  BY <2>3
<1>6. PICK new : new = [k \in 1 .. n |-> NewClient(nextId + k - 1, room[k])]
  OBVIOUS
<1>7. \A k \in 1 .. n : /\ new[k] \in Client /\ new[k].id = nextId + k - 1
                        /\ new[k].rx = 0 /\ new[k].sock = 0
  <2> TAKE k \in 1 .. n
  <2>1. room[k] \in Slots /\ activePorts[room[k]] \in TcpPorts /\ nextId + k - 1 \in Ids
    BY <1>0, <1>1, <1>3, <1>5, Bounds DEF Ids
  <2>2. new[k] = [id |-> nextId + k - 1, port |-> activePorts[room[k]], slot |-> room[k], sock |-> 0, rx |-> 0,
                  timer |-> None, tx |-> FALSE]
    BY <1>6 DEF NewClient
  <2> QED  BY <2>1, <2>2 DEF Client, Frame
<1>8. new \in Seq(Client) /\ Len(new) = n
  BY <1>6, <1>7
<1>9. clients' = clients \o new
  BY <1>1, <1>3, <1>5, <1>6
<1>10. /\ clients' \in Seq(Client) /\ Len(clients') = Len(clients) + n
       /\ \A i \in 1 .. (Len(clients) + n) :
            clients'[i] = IF i <= Len(clients) THEN clients[i] ELSE new[i - Len(clients)]
  <2>1. clients \o new \in Seq(Client)
    BY <1>0, <1>8
  <2>2. Len(clients \o new) = Len(clients) + n
    BY <1>0, <1>8
  <2>3. \A i \in 1 .. (Len(clients) + n) :
          (clients \o new)[i] = IF i <= Len(clients) THEN clients[i] ELSE new[i - Len(clients)]
    BY <1>0, <1>8
  <2> QED  BY <1>9, <2>1, <2>2, <2>3
<1>11. conns' = Len(clients')
  <2>1. CASE room = <<>>
    <3>1. n = 0
      BY <1>5, <2>1
    <3> QED  BY <1>0, <1>1, <1>3, <1>10, <2>1, <3>1
  <2>2. CASE room # <<>>
    BY <1>1, <1>3, <2>2
  <2> QED  BY <2>1, <2>2
<1>12. Len(clients') <= MaxConnections /\ nextId' = nextId + n /\ nextId' <= MaxIds + 1
  <2>1. n \in Nat /\ n <= MaxConnections - Len(clients) /\ Len(clients) \in Nat /\ Len(clients') = Len(clients) + n
    BY <1>0, <1>4, <1>10
  <2>2. Len(Room(taken)) = n /\ nextId' = nextId + n /\ nextId + n - 1 <= MaxIds /\ nextId \in Nat
    BY <1>0, <1>1, <1>3, <1>5, Bounds
  <2> QED  BY <2>1, <2>2, Bounds
<1>13. \A i \in Indices : clients'[i] = clients[i]
  <2>1. \A i \in Indices : i \in 1 .. (Len(clients) + n) /\ i <= Len(clients)
    BY <1>0
  <2> QED  BY <1>10, <2>1
<1>14. \A i \in (Len(clients) + 1) .. (Len(clients) + n) :
         /\ clients'[i].id = nextId + (i - Len(clients)) - 1 /\ clients'[i].rx = 0 /\ clients'[i].sock = 0
  <2> TAKE i \in (Len(clients) + 1) .. (Len(clients) + n)
  <2>1. i - Len(clients) \in 1 .. n /\ i \in 1 .. (Len(clients) + n) /\ ~(i <= Len(clients))
    BY <1>0
  <2> QED  BY <1>7, <1>10, <2>1
<1> QED  BY <1>10, <1>11, <1>12, <1>13, <1>14

LEMMA AcceptKeeps ==
  ASSUME Basic, Accept
  PROVE  /\ Basic' /\ Indices \subseteq Indices' /\ \A i \in Indices : clients'[i] = clients[i]
         /\ \A i \in Indices' \ Indices : ~HasRequest(clients'[i])
         /\ \A id : Connected(id) => Connected(id)' /\ IndexOf(id)' = IndexOf(id)
<1>0. TcpTypeOK /\ Known /\ SlowSenderIsTimed /\ Staged /\ Repaired /\ Sound
  BY DEF Basic, Sound
<1>1. PICK n \in Nat :
           /\ Len(clients') = Len(clients) + n /\ Len(clients') <= MaxConnections /\ clients' \in Seq(Client)
           /\ conns' = Len(clients') /\ nextId' = nextId + n /\ nextId' <= MaxIds + 1
           /\ \A i \in Indices : clients'[i] = clients[i]
           /\ \A i \in (Len(clients) + 1) .. (Len(clients) + n) :
                /\ clients'[i].id = nextId + (i - Len(clients)) - 1
                /\ clients'[i].rx = 0 /\ clients'[i].sock = 0
  BY AcceptIs
<1>2. /\ Len(clients) \in Nat /\ Indices = 1 .. Len(clients) /\ Indices' = 1 .. (Len(clients) + n)
      /\ nextId \in Nat /\ \A i \in Indices : clients[i].id \in Nat
  <2>1. Len(clients) \in Nat /\ Indices = 1 .. Len(clients) /\ \A i \in Indices : clients[i] \in Client
    BY <1>0, Lengths, Bounds
  <2>2. Len(clients') = Len(clients) + n /\ Indices' = 1 .. Len(clients')
    BY <1>1 DEF Indices
  <2>3. nextId \in Nat
    BY <1>0, Bounds DEF TcpTypeOK
  <2>4. \A i \in Indices : clients[i].id \in Nat
    BY <2>1, Fields, Bounds DEF Ids
  <2> QED  BY <2>1, <2>2, <2>3, <2>4
<1>3. Indices \subseteq Indices' /\ Indices' \ Indices = (Len(clients) + 1) .. (Len(clients) + n)
  BY <1>2
<1>4. \A i, j \in Indices' : clients'[i].id = clients'[j].id => i = j
  <2> SUFFICES ASSUME NEW i \in Indices', NEW j \in Indices', clients'[i].id = clients'[j].id
               PROVE  i = j
    OBVIOUS
  <2>1. i \in Int /\ j \in Int
    BY <1>2
  <2>2. \A k \in Indices' : \/ k \in Indices /\ clients'[k].id = clients[k].id /\ clients[k].id < nextId
                            \/ k \notin Indices /\ clients'[k].id = nextId + (k - Len(clients)) - 1
                               /\ clients'[k].id >= nextId
    <3> SUFFICES ASSUME NEW k \in Indices'
                 PROVE  \/ k \in Indices /\ clients'[k].id = clients[k].id /\ clients[k].id < nextId
                        \/ k \notin Indices /\ clients'[k].id = nextId + (k - Len(clients)) - 1
                           /\ clients'[k].id >= nextId
      OBVIOUS
    <3>1. CASE k \in Indices
      BY <1>0, <1>1, <3>1 DEF Known
    <3>2. CASE k \notin Indices
      <4>1. k \in (Len(clients) + 1) .. (Len(clients) + n)
        BY <1>3, <3>2
      <4>2. clients'[k].id = nextId + (k - Len(clients)) - 1
        BY <1>1, <4>1
      <4> QED  BY <1>2, <3>2, <4>1, <4>2
    <3> QED  BY <3>1, <3>2
  <2>3. CASE i \in Indices /\ j \in Indices
    BY <1>0, <2>2, <2>3 DEF Known
  <2>4. CASE i \notin Indices /\ j \notin Indices
    <3>1. nextId + (i - Len(clients)) - 1 = nextId + (j - Len(clients)) - 1
      BY <2>2, <2>4
    <3> QED  BY <1>2, <2>1, <3>1
  <2>5. (i \in Indices) <=> (j \in Indices)
    BY <1>2, <2>2
  <2> QED  BY <2>3, <2>4, <2>5
<1>5. \A i \in Indices' : clients'[i].id < nextId' /\ clients'[i].sock + clients'[i].rx <= Frame + 1
                          /\ (clients'[i].rx > 0 => clients'[i].timer # None)
  <2> TAKE i \in Indices'
  <2>1. CASE i \in Indices
    BY <1>0, <1>1, <1>2, <2>1 DEF Known, SlowSenderIsTimed, Indices
  <2>2. CASE i \notin Indices
    <3>1. i \in (Len(clients) + 1) .. (Len(clients) + n)
      BY <1>3, <2>2
    <3>2. clients'[i].id = nextId + (i - Len(clients)) - 1 /\ clients'[i].rx = 0 /\ clients'[i].sock = 0
      BY <1>1, <3>1
    <3>3. nextId + (i - Len(clients)) - 1 < nextId + n /\ nextId' = nextId + n
      BY <1>1, <1>2, <3>1
    <3> QED  BY <3>2, <3>3 DEF Frame
  <2> QED  BY <2>1, <2>2
<1>6. \A id : Connected(id) => Connected(id)' /\ IndexOf(id)' = IndexOf(id)
  <2> SUFFICES ASSUME NEW id, Connected(id) PROVE Connected(id)' /\ IndexOf(id)' = IndexOf(id)
    OBVIOUS
  <2>1. PICK i \in Indices : i = IndexOf(id) /\ clients[i].id = id
    BY <1>0, Indexed
  <2>2. i \in Indices' /\ clients'[i].id = id
    BY <1>1, <1>3, <2>1
  <2>3. Connected(id)'
    BY <2>2 DEF Connected, Indices
  <2>4. IndexOf(id)' = i
    BY <1>4, <2>2 DEF IndexOf, Indices
  <2> QED  BY <2>1, <2>3, <2>4
<1>7. UNCHANGED <<listening, schedule, polling, watch>> /\ stage = "accept" /\ stage' = "flush"
  BY DEF Accept, GoTo
<1>8. Known'
  <2>1. (\A s \in Slots : last[s] # None => Connected(last[s]))'
    <3>1. \A s \in Slots : last'[s] # None => Connected(last[s]) /\ last'[s] = last[s]
      BY <1>0, <1>7 DEF Known, schedule
    <3> QED  BY <1>6, <3>1 DEF Connected
  <2> QED  BY <1>4, <1>5, <2>1 DEF Known
<1>9. SlowSenderIsTimed'
  BY <1>5 DEF SlowSenderIsTimed, Indices
<1>10. TcpTypeOK'
  <2>1. order = <<>> /\ dead = {} /\ order' = order /\ dead' = dead /\ anyServed' = anyServed
    BY <1>0, <1>7 DEF Staged, polling
  <2>2. order' \in Seq(DOMAIN clients') /\ dead' \subseteq DOMAIN clients'
    BY <2>1
  <2>3. nextId' \in 1 .. (MaxIds + 1)
    BY <1>0, <1>1, Bounds DEF TcpTypeOK
  <2>4. configured' \in PortSets /\ activePorts' \in PortSets /\ listeners' \in Seq(TcpPorts) /\ due' \in BOOLEAN
        /\ portCursor' \in 0 .. (NumSlots - 1) /\ last' \in [Slots -> Ids \union {None}]
        /\ skipped' \in Nat /\ upsets' \in 0 .. MaxUpsets
    BY <1>0, <1>7 DEF TcpTypeOK, listening, schedule, watch
  <2> QED  BY <1>0, <1>1, <1>7, <2>1, <2>2, <2>3, <2>4 DEF TcpTypeOK
<1>11. Staged' /\ Repaired'
  BY <1>0, <1>7 DEF Staged, Repaired, polling, listening, Complete
<1>12. \A i \in Indices' \ Indices : ~HasRequest(clients'[i])
  BY <1>1, <1>3 DEF HasRequest, Frame
<1> QED  BY <1>1, <1>3, <1>6, <1>8, <1>9, <1>10, <1>11, <1>12 DEF Basic, Sound

(* The connection at i is closed, and the last one takes its place.            *)
LEMMA CloseIs ==
  ASSUME Basic, NEW i \in dead, \A j \in dead : j <= i, clients' = SwapRemove(clients, i)
  PROVE  /\ i \in Indices /\ clients' \in Seq(Client) /\ Len(clients') = Len(clients) - 1
         /\ Indices' = 1 .. (Len(clients) - 1) /\ Len(clients) \in Indices /\ dead \ {i} \subseteq Indices'
         /\ \A k \in Indices' : clients'[k] = clients[IF k = i THEN Len(clients) ELSE k]
<1>1. /\ clients \in Seq(Client) /\ i \in 1 .. Len(clients) /\ Len(clients) \in Nat /\ Indices = 1 .. Len(clients)
      /\ dead \subseteq Indices
  BY Lengths DEF Basic, Sound, TcpTypeOK
<1>2. PICK moved : moved = [clients EXCEPT ![i] = clients[Len(clients)]]
  OBVIOUS
<1>3. moved \in Seq(Client) /\ Len(moved) = Len(clients)
  BY <1>1, <1>2
<1>4. clients' = SubSeq(moved, 1, Len(clients) - 1)
  BY <1>2 DEF SwapRemove
<1>5. /\ clients' \in Seq(Client) /\ Len(clients') = Len(clients) - 1
      /\ \A k \in 1 .. (Len(clients) - 1) : clients'[k] = moved[k]
  BY <1>1, <1>3, <1>4
<1>6. Indices' = 1 .. (Len(clients) - 1)
  BY <1>5 DEF Indices
<1>7. dead \ {i} \subseteq Indices'
  <2>1. \A k \in dead : k \in 1 .. Len(clients) /\ k <= i
    BY <1>1
  <2> QED  BY <1>1, <1>6, <2>1
<1>8. \A k \in Indices' : clients'[k] = clients[IF k = i THEN Len(clients) ELSE k]
  BY <1>1, <1>2, <1>5, <1>6
<1> QED  BY <1>1, <1>5, <1>6, <1>7, <1>8

LEMMA OthersStay ==
  ASSUME Basic, NEW i \in dead, \A j \in dead : j <= i, clients' = SwapRemove(clients, i),
         NEW id, Connected(id), id # clients[i].id
  PROVE  /\ Connected(id)' /\ IndexOf(id)' = (IF IndexOf(id) = Len(clients) THEN i ELSE IndexOf(id))
         /\ clients'[IndexOf(id)'] = clients[IndexOf(id)] /\ IndexOf(id) # i
<1>1. PICK k \in Indices : k = IndexOf(id) /\ clients[k].id = id /\ k # i
  BY Indexed DEF Basic, Sound
<1>2. PICK m : m = IF k = Len(clients) THEN i ELSE k
  OBVIOUS
<1>3. /\ Indices' = 1 .. (Len(clients) - 1) /\ Indices = 1 .. Len(clients) /\ i \in Indices /\ Len(clients) \in Nat
      /\ \A j \in Indices' : clients'[j] = clients[IF j = i THEN Len(clients) ELSE j]
  BY CloseIs, Lengths DEF Basic, Sound
<1>4. m \in Indices' /\ clients'[m] = clients[k]
  BY <1>1, <1>2, <1>3
<1>5. \A j \in Indices' : clients'[j].id = id => j = m
  <2> SUFFICES ASSUME NEW j \in Indices', clients'[j].id = id PROVE j = m
    OBVIOUS
  <2>1. PICK h \in Indices : h = (IF j = i THEN Len(clients) ELSE j) /\ clients[h].id = id
    BY <1>3
  <2>2. h = k
    BY <1>1, <2>1 DEF Basic, Sound, Known
  <2> QED  BY <1>1, <1>2, <1>3, <2>1, <2>2
<1>6. Connected(id)' /\ IndexOf(id)' = m
  BY <1>1, <1>4, <1>5 DEF Connected, IndexOf, Indices
<1> QED  BY <1>1, <1>2, <1>4, <1>6

LEMMA CloseKeeps == ASSUME Basic, Close PROVE Basic'
<1>0. TcpTypeOK /\ Known /\ SlowSenderIsTimed /\ Staged /\ Repaired /\ Sound
  BY DEF Basic, Sound
<1>1. PICK i \in dead :
        /\ \A j \in dead : j <= i
        /\ dead' = dead \ {i} /\ CloseRest(dead \ {i})
        /\ clients' = SwapRemove(clients, i) /\ conns' = conns - 1
        /\ last' = [t \in Slots |-> IF last[t] = clients[i].id THEN None ELSE last[t]]
        /\ Upset \/ Forgotten
  BY DEF Close
<1>2. UNCHANGED <<listening, nextId, portCursor, order, anyServed>> /\ stage = "close"
  BY DEF Close
<1>3. /\ i \in Indices /\ clients' \in Seq(Client) /\ Len(clients') = Len(clients) - 1
      /\ Indices' = 1 .. (Len(clients) - 1) /\ Indices = 1 .. Len(clients) /\ Len(clients) \in 1 .. MaxConnections
      /\ dead' \subseteq Indices'
      /\ \A k \in Indices' : clients'[k] = clients[IF k = i THEN Len(clients) ELSE k]
  BY <1>0, <1>1, CloseIs, Lengths
<1>4. \A k \in Indices' : \E h \in Indices : h = (IF k = i THEN Len(clients) ELSE k) /\ clients'[k] = clients[h]
  <2> TAKE k \in Indices'
  <2>1. k \in Indices /\ Len(clients) \in Indices
    BY <1>3
  <2> QED  BY <1>3, <2>1
<1>5. \A k, j \in Indices' : clients'[k].id = clients'[j].id => k = j
  <2> SUFFICES ASSUME NEW k \in Indices', NEW j \in Indices', clients'[k].id = clients'[j].id PROVE k = j
    OBVIOUS
  <2>1. PICK h \in Indices : h = (IF k = i THEN Len(clients) ELSE k) /\ clients'[k] = clients[h]
    BY <1>4
  <2>2. PICK g \in Indices : g = (IF j = i THEN Len(clients) ELSE j) /\ clients'[j] = clients[g]
    BY <1>4
  <2>3. h = g
    BY <1>0, <2>1, <2>2 DEF Known
  <2> QED  BY <1>3, <2>1, <2>2, <2>3
<1>6. (\A s \in Slots : last[s] # None => Connected(last[s]))'
  <2>1. \A id : Connected(id) /\ id # clients[i].id => Connected(id)'
    BY <1>0, <1>1, OthersStay
  <2>2. \A s \in Slots : last'[s] # None => last'[s] = last[s] /\ last[s] # clients[i].id /\ Connected(last[s])
    BY <1>0, <1>1 DEF Known
  <2> QED  BY <2>1, <2>2 DEF Connected
<1>7. Known' /\ SlowSenderIsTimed'
  <2>1. \A k \in Indices' : /\ clients'[k].id < nextId' /\ clients'[k].sock + clients'[k].rx <= Frame + 1
                            /\ (clients'[k].rx > 0 => clients'[k].timer # None)
    BY <1>0, <1>2, <1>4 DEF Known, SlowSenderIsTimed, Indices
  <2> QED  BY <1>5, <1>6, <2>1 DEF Known, SlowSenderIsTimed, Indices
<1>8. TcpTypeOK'
  <2>1. order = <<>> /\ order' = <<>>
    BY <1>0, <1>2 DEF Staged
  <2>2. order' \in Seq(DOMAIN clients')
    BY <2>1
  <2>3. skipped' \in Nat /\ upsets' \in 0 .. MaxUpsets
    BY <1>0, <1>1, UpsetTypes
  <2>4. last' \in [Slots -> Ids \union {None}]
    BY <1>0, <1>1 DEF TcpTypeOK
  <2>5. conns' = Len(clients') /\ conns' <= MaxConnections
    BY <1>0, <1>1, <1>3, Bounds DEF TcpTypeOK
  <2>6. stage' \in {"recover", "close"}
    BY <1>1 DEF CloseRest, GoTo
  <2> QED  BY <1>0, <1>2, <1>3, <2>2, <2>3, <2>4, <2>5, <2>6 DEF TcpTypeOK, listening, Indices
<1>9. Staged' /\ Repaired'
  BY <1>0, <1>1, <1>2 DEF Staged, Repaired, CloseRest, GoTo, listening, Complete
<1> QED  BY <1>7, <1>8, <1>9 DEF Basic, Sound

-----------------------------------------------------------------------------
LEMMA StutterKeeps == ASSUME Basic, UNCHANGED tcpVars PROVE Basic'
<1>1. UNCHANGED <<configured, listeners, activePorts, due, stage, clients, conns, nextId, portCursor, last, order,
                  dead, anyServed, skipped, upsets>>
  BY DEF tcpVars, listening, schedule, polling, watch
<1> QED  BY <1>1 DEF Basic, Sound, TcpTypeOK, Known, SlowSenderIsTimed, Staged, Repaired, Indices, Connected, Complete

LEMMA BasicStep == ASSUME Basic, [TcpNext]_tcpVars PROVE Basic'
<1>1. HandsOff \/ Touching \/ Accept \/ Close \/ UNCHANGED tcpVars
  BY DEF TcpNext, Peers, Tick, Listening, Accepting, Polling, HandsOff, Touching
<1> QED  BY <1>1, HandsOffKeeps, TouchingKeeps, AcceptKeeps, CloseKeeps, StutterKeeps

LEMMA BasicInit == ASSUME TcpInit PROVE Basic
<1>1. TcpTypeOK
  <2>1. listeners \in Seq(TcpPorts) /\ configured \in PortSets
    BY PortsAre DEF TcpInit
  <2>2. clients = <<>> /\ clients \in Seq(Client) /\ Len(clients) = 0 /\ order \in Seq(DOMAIN clients)
    BY DEF TcpInit
  <2>3. last \in [Slots -> Ids \union {None}]
    BY DEF TcpInit
  <2>4. conns = Len(clients) /\ conns <= MaxConnections /\ nextId \in 1 .. (MaxIds + 1)
        /\ portCursor \in 0 .. (NumSlots - 1) /\ skipped \in Nat /\ upsets \in 0 .. MaxUpsets
    BY <2>2, Bounds DEF TcpInit
  <2>5. configured \in PortSets /\ activePorts \in PortSets /\ due \in BOOLEAN /\ stage = "recover"
        /\ dead \subseteq DOMAIN clients /\ anyServed \in BOOLEAN
    BY DEF TcpInit
  <2> QED  BY <2>1, <2>2, <2>3, <2>4, <2>5 DEF TcpTypeOK
<1>2. Known /\ SlowSenderIsTimed /\ Staged
  BY DEF TcpInit, Known, SlowSenderIsTimed, Staged, Indices
<1>3. Repaired
  BY PortsAre DEF TcpInit, Repaired
<1> QED  BY <1>1, <1>2, <1>3 DEF Basic, Sound

-----------------------------------------------------------------------------
(* What is left of the order stays sorted                                     *)

LEMMA Serving ==
  ASSUME Basic, [TcpNext]_tcpVars, stage' = "serve"
  PROVE  FlushAll \/ ServeRequest \/ PassOver \/ Late \/ UNCHANGED tcpVars
<1>1. stage \in {"recover", "ports", "accept", "flush", "serve", "close"}
  BY DEF Basic, Sound, TcpTypeOK
<1> QED
  BY <1>1 DEF TcpNext, Peers, Tick, Listening, Accepting, Polling, Send, TimePasses, Configure, NotDue,
     RecoverListeners, RecoverInPart, SamePorts, Rebind, ListenerFails, Accept, NobodyListens, EndServing, Close,
     GoTo, CloseRest

LEMMA SortedStep ==
  ASSUME Basic, Basic', Sorted, [TcpNext]_tcpVars PROVE Sorted'
<1>1. TcpTypeOK /\ Known /\ Sound /\ order \in Seq(Indices)
  BY DEF Basic, Sound, TcpTypeOK, Indices
<1>2. CASE order' = <<>>
  BY <1>2 DEF Sorted
<1>3. CASE FlushAll
  <2>1. Kept /\ UNCHANGED <<nextId, activePorts, portCursor, last>> /\ order' = FairSchedule
    BY <1>1, <1>3, FlushKeeps DEF FlushAll, listening, schedule
  <2>2. \A i, j \in Indices : Before(i, j)' <=> Before(i, j)
    BY <1>1, <2>1, SameOrder
  <2>3. /\ DOMAIN order' = Indices /\ \A a \in Indices : order'[a] \in Indices
        /\ \A a, b \in Indices : a < b => Before(order'[a], order'[b])
    <3>1. DOMAIN FairSchedule = Indices /\ FairSchedule \in Seq(Indices)
          /\ \A a, b \in Indices : a < b => Before(FairSchedule[a], FairSchedule[b])
      BY <1>1, FairIs
    <3>2. \A a \in Indices : FairSchedule[a] \in Indices
      BY <3>1
    <3> QED  BY <2>1, <3>1, <3>2
  <2> QED  BY <2>2, <2>3 DEF Sorted
<1>4. CASE PassOver
  <2>1. Kept /\ UNCHANGED <<nextId, activePorts, portCursor, last>> /\ order' = Tail(order) /\ order # <<>>
    BY <1>1, <1>4, PassKeeps DEF PassOver, listening, schedule, Turn
  <2>2. \A i, j \in Indices : Before(i, j)' <=> Before(i, j)
    BY <1>1, <2>1, SameOrder
  <2>3. \A a \in DOMAIN order' : /\ a \in Int /\ a + 1 \in DOMAIN order /\ order'[a] = order[a + 1]
                                 /\ order[a + 1] \in Indices
    BY <1>1, <2>1
  <2>4. \A a, b \in DOMAIN order' : a < b => Before(order'[a], order'[b])
    BY <2>3 DEF Sorted
  <2> QED  BY <2>2, <2>3, <2>4 DEF Sorted
<1>5. CASE UNCHANGED tcpVars
  <2>1. UNCHANGED <<order, clients, activePorts, portCursor, last>>
    BY <1>5 DEF tcpVars, listening, schedule, polling
  <2>2. Kept /\ UNCHANGED nextId
    BY <1>1, <1>5, <2>1, NoneTouched DEF tcpVars
  <2>3. \A i, j \in Indices : Before(i, j)' <=> Before(i, j)
    BY <1>1, <2>1, <2>2, SameOrder
  <2>4. \A a \in DOMAIN order : order[a] \in Indices
    BY <1>1
  <2> QED  BY <2>1, <2>3, <2>4 DEF Sorted
<1>6. CASE stage' # "serve"
  <2>1. order' = <<>>
    BY <1>6 DEF Basic, Staged
  <2> QED  BY <1>2, <2>1
<1> QED  BY <1>2, <1>3, <1>4, <1>5, <1>6, Serving DEF ServeRequest, Late

-----------------------------------------------------------------------------
(* Patience                                                                *)

(* The watched connection is gone for this tick; a round is left for a         *)
(* connection that takes its turn.                                           *)
Dying == Connected(Watched) /\ IndexOf(Watched) \in dead
Slack == upsets < MaxUpsets => skipped < Rounds * upsets

(* A step that counts nothing: nobody is put before the watched connection.     *)
LEMMA Calm ==
  ASSUME Basic, Basic', Patience, UNCHANGED watch,
         Waits(Watched) /\ Waits(Watched)' => Ahead' <= Ahead \/ Slack,
         Dying => Dying',
         Waits(Watched) => Waits(Watched)' \/ Dying',
         stage' = "serve" /\ ~anyServed' /\ Waits(Watched)' => IndexOf(Watched)' \in Range(order)' \/ Slack
  PROVE  Patience'
<1>1. UNCHANGED <<skipped, upsets>>
  BY DEF watch
<1>2. TcpTypeOK /\ Known /\ TcpTypeOK' /\ Known' /\ upsets \in Nat /\ skipped \in Nat
  BY DEF Basic, Sound, TcpTypeOK
<1>3. PICK m \in Nat : m = Rounds * upsets /\ Rounds * (1 + upsets) = m + Rounds
  BY <1>2, OneMore
<1>4. Waits(Watched) => Ahead \in Nat /\ Ahead < Rounds
  BY <1>2, AheadIs DEF Waits
<1>5. Waits(Watched)' => Ahead' \in Nat /\ Ahead' < Rounds
  <2>1. (TcpTypeOK /\ Known /\ Connected(Watched) => Ahead \in Nat /\ Ahead < Rounds)'
    BY AheadIs, PTL
  <2>2. Waits(Watched)' => Connected(Watched)'
    BY DEF Waits
  <2> QED  BY <1>2, <2>1, <2>2
<1>6. (upsets < MaxUpsets => skipped < Rounds * (1 + upsets))'
  BY <1>1 DEF Patience
<1>7. ASSUME Waits(Watched)', upsets < MaxUpsets PROVE skipped + Ahead' < Rounds * (1 + upsets)
  <2>1. CASE Waits(Watched) /\ Ahead' <= Ahead
    <3>1. skipped + Ahead < m + Rounds
      BY <1>3, <1>7, <2>1 DEF Patience
    <3> QED  BY <1>2, <1>3, <1>4, <1>5, <1>7, <2>1, <3>1, Bounds
  <2>2. CASE Waits(Watched) /\ Slack
    <3>1. skipped < m
      BY <1>3, <1>7, <2>2 DEF Slack
    <3> QED  BY <1>2, <1>3, <1>5, <1>7, <3>1, Bounds
  <2>3. CASE ~Waits(Watched)
    <3>1. ~Dying'
      BY <1>7 DEF Waits, Dying
    <3>2. skipped = 0
      BY <2>3, <3>1 DEF Patience, Dying
    <3> QED  BY <1>2, <1>3, <1>5, <1>7, <3>2, Bounds
  <2> QED  BY <1>7, <2>1, <2>2, <2>3
<1>8. (Waits(Watched) /\ upsets < MaxUpsets => skipped + Ahead < Rounds * (1 + upsets))'
  BY <1>1, <1>7
<1>9. (~Waits(Watched) => skipped = 0 \/ (Connected(Watched) /\ IndexOf(Watched) \in dead))'
  BY <1>1 DEF Patience, Dying
<1>10. (stage = "serve" /\ ~anyServed /\ Waits(Watched) /\ upsets < MaxUpsets =>
          IndexOf(Watched) \in Range(order) \/ skipped < Rounds * upsets)'
  BY <1>1 DEF Slack
<1> QED  BY <1>6, <1>8, <1>9, <1>10 DEF Patience

(* A step that begins to count anew.                                         *)
LEMMA FreshStart ==
  ASSUME Basic, Basic', Forgotten, stage' = "serve" /\ ~anyServed' => ~Waits(Watched)'
  PROVE  Patience'
<1>1. skipped' = 0 /\ upsets' = 0
  BY DEF Forgotten
<1>2. TcpTypeOK' /\ Known'
  BY DEF Basic, Sound
<1>3. Waits(Watched)' => Ahead' \in Nat /\ Ahead' < Rounds
  <2>1. (TcpTypeOK /\ Known /\ Connected(Watched) => Ahead \in Nat /\ Ahead < Rounds)'
    BY AheadIs, PTL
  <2>2. Waits(Watched)' => Connected(Watched)'
    BY DEF Waits
  <2> QED  BY <1>2, <2>1, <2>2
<1>4. Rounds * (1 + 0) = Rounds
  BY Bounds
<1> QED  BY <1>1, <1>3, <1>4, Bounds DEF Patience

(* A disturbance: whoever is put before it now, a rotation is added.           *)
LEMMA Disturbed ==
  ASSUME Basic, Basic', Patience, Upset, Waits(Watched) => Waits(Watched)',
         ~Waits(Watched) /\ stage' = "serve" => ~Waits(Watched)'
  PROVE  Patience'
<1>1. CASE ~Waits(Watched)
  <2>1. Forgotten
    BY <1>1 DEF Upset
  <2> QED  BY <1>1, <2>1, FreshStart
<1>2. CASE Waits(Watched)
  <2>1. skipped' = skipped /\ upsets' = Min({upsets + 1, MaxUpsets})
    BY <1>2 DEF Upset
  <2>2. TcpTypeOK' /\ Known' /\ skipped \in Nat /\ upsets \in 0 .. MaxUpsets
    BY DEF Basic, Sound, TcpTypeOK
  <2>3. upsets' < MaxUpsets => upsets < MaxUpsets /\ upsets' = upsets + 1
    <3>1. \A a, b \in Nat : Min({a, b}) = IF a <= b THEN a ELSE b
      BY DEF Min
    <3>2. upsets + 1 \in Nat /\ MaxUpsets \in Nat
      BY <2>2, Bounds
    <3> QED  BY <2>1, <2>2, <3>1, <3>2
  <2>4. /\ Rounds * (1 + upsets) \in Nat
        /\ Rounds * (1 + (upsets + 1)) = Rounds * (1 + upsets) + Rounds
        /\ Rounds * (upsets + 1) = Rounds * (1 + upsets)
    <3>1. upsets \in Nat /\ 1 + upsets \in Nat /\ upsets + 1 = 1 + upsets
      BY <2>2, Bounds
    <3> QED  BY <3>1, OneMore
  <2>5. PICK m \in Nat : m = Rounds * (1 + upsets) /\ Rounds * (1 + (upsets + 1)) = m + Rounds
                         /\ Rounds * (upsets + 1) = m
    BY <2>4
  <2>6. upsets < MaxUpsets => skipped < m
    BY <2>5 DEF Patience
  <2>7. Ahead' \in Nat /\ Ahead' < Rounds
    <3>1. (TcpTypeOK /\ Known /\ Connected(Watched) => Ahead \in Nat /\ Ahead < Rounds)'
      BY AheadIs, PTL
    <3>2. Connected(Watched)'
      BY <1>2 DEF Waits
    <3> QED  BY <2>2, <3>1, <3>2
  <2>8. /\ upsets' < MaxUpsets => skipped' < Rounds * (1 + upsets')
        /\ upsets' < MaxUpsets => skipped' + Ahead' < Rounds * (1 + upsets')
        /\ upsets' < MaxUpsets => skipped' < Rounds * upsets'
    BY <2>1, <2>2, <2>3, <2>5, <2>6, <2>7, Bounds
  <2> QED  BY <1>2, <2>8 DEF Patience
<1> QED  BY <1>1, <1>2

(* A step that keeps the places, the order and who is dead.                     *)
LEMMA CalmHere ==
  ASSUME Basic, Basic', Patience, Kept, UNCHANGED <<nextId, activePorts, portCursor, last, watch>>,
         dead \subseteq dead',
         \A k \in Indices \ dead' : HasRequest(clients[k]) => HasRequest(clients'[k]),
         stage' = "serve" /\ ~anyServed' /\ Waits(Watched)' => IndexOf(Watched)' \in Range(order)' \/ Slack
  PROVE  Patience'
<1>1. Sound /\ TcpTypeOK /\ Known
  BY DEF Basic, Sound
<1>2. /\ Connected(Watched)' <=> Connected(Watched)
      /\ Connected(Watched) => IndexOf(Watched)' = IndexOf(Watched) /\ Ahead' = Ahead
                               /\ IndexOf(Watched) \in Indices
  BY <1>1, KeptIsKnown, SameOrder, Indexed
<1>3. Dying => Dying'
  BY <1>2 DEF Dying
<1>4. Waits(Watched) => Waits(Watched)' \/ Dying'
  BY <1>2 DEF Waits, Dying
<1>5. Waits(Watched) /\ Waits(Watched)' => Ahead' <= Ahead \/ Slack
  <2>1. Waits(Watched) => Ahead \in Nat
    BY <1>1, AheadIs DEF Waits
  <2> QED  BY <1>2, <2>1 DEF Waits
<1> QED  BY <1>3, <1>4, <1>5, Calm

LEMMA WaitsSame ==
  ASSUME UNCHANGED <<clients, dead>>
  PROVE  /\ Waits(Watched)' <=> Waits(Watched)
         /\ Dying' <=> Dying
         /\ Connected(Watched)' <=> Connected(Watched)
         /\ IndexOf(Watched)' = IndexOf(Watched)
<1>1. Connected(Watched)' <=> Connected(Watched)
  BY DEF Connected
<1>2. IndexOf(Watched)' = IndexOf(Watched)
  BY DEF IndexOf
<1> QED  BY <1>1, <1>2 DEF Waits, Dying, HasRequest

LEMMA HandsOffPatience ==
  ASSUME Basic, Basic', Patience, HandsOff \/ UNCHANGED tcpVars
  PROVE  Patience'
<1>1. Sound /\ Staged
  BY DEF Basic
<1>2. CASE Rebind \/ Late
  <2>1. UNCHANGED <<clients, dead>> /\ Upset
    BY <1>2 DEF Rebind, Late, polling
  <2> QED  BY <2>1, WaitsSame, Disturbed
<1>3. CASE EndServing /\ ~anyServed
  <2>1. /\ UNCHANGED <<clients, dead, watch>> /\ stage = "serve" /\ order = <<>> /\ stage' # "serve"
    BY <1>3 DEF EndServing, CloseRest, GoTo
  <2>2. Range(order) = {}
    BY <2>1 DEF Range
  <2>3. Waits(Watched) => Slack
    BY <1>3, <2>1, <2>2 DEF Patience, Slack
  <2> QED  BY <2>1, <2>3, WaitsSame, Calm
<1>4. CASE EndServing /\ anyServed
  <2>1. UNCHANGED <<clients, nextId, activePorts, portCursor, last, watch, dead>> /\ stage' # "serve"
    BY <1>4 DEF EndServing, CloseRest, GoTo, listening
  <2>2. Kept
    BY <1>1, <2>1, NoneTouched
  <2> QED  BY <2>1, <2>2, CalmHere DEF HasRequest
<1>5. CASE UNCHANGED tcpVars
  <2>1. UNCHANGED <<clients, nextId, activePorts, portCursor, last, watch, dead, order, stage, anyServed>>
    BY <1>5 DEF tcpVars, listening, schedule, polling
  <2>2. Kept
    BY <1>1, <2>1, NoneTouched
  <2>3. stage = "serve" /\ ~anyServed /\ Waits(Watched) => IndexOf(Watched) \in Range(order) \/ Slack
    BY DEF Patience, Slack
  <2>4. stage' = "serve" /\ ~anyServed' /\ Waits(Watched)' => IndexOf(Watched)' \in Range(order)' \/ Slack
    BY <2>1, <2>3, WaitsSame
  <2> QED  BY <2>1, <2>2, <2>4, CalmHere
<1>6. CASE Configure \/ NotDue \/ RecoverListeners \/ RecoverInPart \/ SamePorts \/ ListenerFails \/ NobodyListens
  <2>1. UNCHANGED <<clients, nextId, activePorts, portCursor, last, watch, dead>>
    BY <1>6 DEF Configure, NotDue, RecoverListeners, RecoverInPart, SamePorts, ListenerFails, NobodyListens,
                listening, schedule, polling
  <2>2. stage' # "serve"
    BY <1>6 DEF Configure, NotDue, RecoverListeners, RecoverInPart, SamePorts, ListenerFails, NobodyListens, GoTo
  <2>3. Kept
    BY <1>1, <2>1, NoneTouched
  <2> QED  BY <2>1, <2>2, <2>3, CalmHere
<1> QED  BY <1>2, <1>3, <1>4, <1>5, <1>6 DEF HandsOff

LEMMA AcceptPatience ==
  ASSUME Basic, Basic', Patience, Accept
  PROVE  Patience'
<1>1. /\ TcpTypeOK /\ Known /\ dead = {} /\ UNCHANGED <<activePorts, portCursor, last, dead, watch>> /\ stage' = "flush"
  BY DEF Basic, Sound, Staged, Accept, listening, schedule, polling, GoTo
<1>2. /\ Indices \subseteq Indices' /\ \A i \in Indices : clients'[i] = clients[i]
      /\ \A i \in Indices' \ Indices : ~HasRequest(clients'[i])
      /\ \A id : Connected(id) => Connected(id)' /\ IndexOf(id)' = IndexOf(id)
  BY AcceptKeeps
<1>3. Waits(Watched) => Waits(Watched)'
  <2>1. Connected(Watched) => IndexOf(Watched) \in Indices
    BY <1>1, Indexed
  <2> QED  BY <1>1, <1>2, <2>1 DEF Waits, HasRequest
<1>4. Waits(Watched) => Ahead' = Ahead /\ Ahead \in Nat
  <2> SUFFICES ASSUME Waits(Watched) PROVE Ahead' = Ahead /\ Ahead \in Nat
    OBVIOUS
  <2>1. PICK w \in Indices : w = IndexOf(Watched) /\ w = IndexOf(Watched)'
    BY <1>1, <1>2, Indexed DEF Waits
  <2>2. PICK s \in Slots : s = SlotOf(clients[w]) /\ s = SlotOf(clients[w])'
    <3>1. SlotOf(clients[w])' = SlotOf(clients[w])
      BY <1>1, <1>2 DEF SlotOf
    <3> QED  BY <1>1, <3>1, Numbers
  <2>3. Start(s)' = Start(s)
    BY <1>1, <1>2 DEF Start, Known
  <2>4. Turns(w)' = Turns(w)
    BY <1>1, <2>2 DEF Turns, Behind
  <2>5. Distance(w)' = Distance(w)
    BY <2>2, <2>3 DEF Distance, Behind
  <2>6. Ahead = Distance(w) * NumSlots + Turns(w) /\ Ahead' = Distance(w)' * NumSlots + Turns(w)'
    BY <2>1 DEF Ahead, Distance, Turns, Behind, Start
  <2> QED  BY <1>1, <2>4, <2>5, <2>6, AheadIs DEF Waits
<1>5. Waits(Watched) /\ Waits(Watched)' => Ahead' <= Ahead \/ Slack
  BY <1>4
<1>6. Dying => Dying'
  BY <1>1 DEF Dying
<1> QED  BY <1>1, <1>3, <1>5, <1>6, Calm

LEMMA ClosePatience ==
  ASSUME Basic, Basic', Patience, Close
  PROVE  Patience'
<1>1. PICK i \in dead :
        /\ \A j \in dead : j <= i
        /\ dead' = dead \ {i} /\ CloseRest(dead \ {i}) /\ clients' = SwapRemove(clients, i)
        /\ IF clients[i].id = Watched THEN Forgotten ELSE Upset
  BY DEF Close
<1>2. stage' # "serve"
  BY <1>1 DEF CloseRest, GoTo
<1>3. CASE clients[i].id = Watched
  BY <1>1, <1>2, <1>3, FreshStart
<1>4. CASE clients[i].id # Watched
  <2>1. ASSUME Waits(Watched) PROVE Waits(Watched)'
    <3>1. Connected(Watched) /\ IndexOf(Watched) \notin dead /\ HasRequest(clients[IndexOf(Watched)])
      BY <2>1 DEF Waits
    <3>2. /\ Connected(Watched)'
          /\ IndexOf(Watched)' = (IF IndexOf(Watched) = Len(clients) THEN i ELSE IndexOf(Watched))
          /\ clients'[IndexOf(Watched)'] = clients[IndexOf(Watched)]
      BY <1>1, <1>4, <3>1, OthersStay
    <3>3. IndexOf(Watched)' \notin dead'
      BY <1>1, <3>1, <3>2
    <3> QED  BY <3>1, <3>2, <3>3 DEF Waits, HasRequest
  <2> QED  BY <1>1, <1>2, <1>4, <2>1, Disturbed
<1> QED  BY <1>3, <1>4

LEMMA PeersPatience ==
  ASSUME Basic, Basic', Patience, Send \/ TimePasses \/ FlushAll
  PROVE  Patience'
<1>1. Sound /\ Staged /\ Kept /\ TcpTypeOK /\ Known
  BY TouchingKeeps DEF Basic, Sound, Touching
<1>2. UNCHANGED <<nextId, activePorts, portCursor, last, watch>>
  BY DEF Send, TimePasses, FlushAll, listening, schedule
<1>3. dead \subseteq dead'
  BY <1>1 DEF Send, TimePasses, FlushAll, polling, Staged
<1>4. \A k \in Indices : HasRequest(clients[k]) => HasRequest(clients'[k])
  <2> SUFFICES ASSUME NEW k \in Indices, HasRequest(clients[k]) PROVE HasRequest(clients'[k])
    OBVIOUS
  <2>1. PICK c \in Client : c = clients[k]
    BY <1>1, Lengths
  <2>2. CASE Send
    <3>1. clients'[k] = c \/ clients'[k] = [c EXCEPT !.sock = @ + 1]
      BY <1>1, <2>1, <2>2 DEF Send, TcpTypeOK, Indices
    <3>2. \/ clients'[k] = c
          \/ clients'[k].sock = c.sock + 1 /\ clients'[k].rx = c.rx /\ clients'[k].tx = c.tx
      BY <3>1 DEF Client
    <3> QED  BY <2>1, <3>2, Fields DEF HasRequest, Frame
  <2>3. CASE TimePasses
    <3>1. clients'[k] = [c EXCEPT !.timer = Older(@)]
      BY <2>1, <2>3 DEF TimePasses, Indices
    <3>2. clients'[k].sock = c.sock /\ clients'[k].rx = c.rx /\ clients'[k].tx = c.tx
      BY <3>1 DEF Client
    <3> QED  BY <2>1, <3>2 DEF HasRequest
  <2>4. CASE FlushAll
    <3>1. clients'[k] = c \/ clients'[k] = [c EXCEPT !.tx = FALSE]
      BY <2>1, <2>4 DEF FlushAll, Indices
    <3>2. \/ clients'[k] = c
          \/ clients'[k].sock = c.sock /\ clients'[k].rx = c.rx /\ ~clients'[k].tx
      BY <3>1 DEF Client
    <3> QED  BY <2>1, <3>2 DEF HasRequest
  <2> QED  BY <2>2, <2>3, <2>4
<1>5. stage' = "serve" /\ ~anyServed' /\ Waits(Watched)' => IndexOf(Watched)' \in Range(order)' \/ Slack
  <2>1. CASE Send \/ TimePasses
    BY <2>1 DEF Send, TimePasses
  <2>2. CASE FlushAll
    <3>1. Range(FairSchedule) = Indices /\ order' = FairSchedule /\ Indices' = Indices
      BY <1>1, <2>2, FairIs DEF FlushAll, Kept
    <3>2. Connected(Watched)' => IndexOf(Watched)' \in Indices'
      BY DEF Connected, IndexOf, Indices
    <3> QED  BY <3>1, <3>2 DEF Waits
  <2> QED  BY <2>1, <2>2
<1> QED  BY <1>1, <1>2, <1>3, <1>4, <1>5, CalmHere

LEMMA PassPatience ==
  ASSUME Basic, Basic', Patience, PassOver
  PROVE  Patience'
<1>1. Sound /\ Kept /\ TcpTypeOK /\ Known /\ order \in Seq(Indices)
  BY PassKeeps DEF Basic, Sound, TcpTypeOK, Indices
<1>2. UNCHANGED <<nextId, activePorts, portCursor, last, watch, stage, anyServed>> /\ Turn /\ order' = Tail(order)
  BY DEF PassOver, listening, schedule
<1>3. dead \subseteq dead' /\ \A k \in Indices : HasRequest(clients'[k]) <=> HasRequest(clients[k])
  BY <1>1, PassKeeps
<1>4. stage' = "serve" /\ ~anyServed' /\ Waits(Watched)' => IndexOf(Watched)' \in Range(order)' \/ Slack
  <2> SUFFICES ASSUME Waits(Watched)', ~Slack PROVE IndexOf(Watched)' \in Range(order)'
    OBVIOUS
  <2>1. PICK w \in Indices : w = IndexOf(Watched) /\ w = IndexOf(Watched)' /\ Connected(Watched)
    BY <1>1, <1>2, KeptIsKnown, Indexed DEF Waits
  <2>2. w \notin dead' /\ HasRequest(clients[w])
    BY <1>3, <2>1 DEF Waits, HasRequest
  <2>3. Waits(Watched)
    BY <1>3, <2>1, <2>2 DEF Waits
  <2>4. w \in Range(order)
    BY <1>2, <2>1, <2>3 DEF Patience, Slack, Turn
  <2>5. w # First
    BY <1>1, <2>2, PassKeeps
  <2>6. PICK a \in DOMAIN order : order[a] = w
    BY <2>4 DEF Range
  <2>7. a # 1 /\ order # <<>> /\ a \in 1 .. Len(order)
    BY <1>1, <1>2, <2>5, <2>6 DEF First, Turn
  <2>8. a - 1 \in DOMAIN Tail(order) /\ Tail(order)[a - 1] = w
    BY <1>1, <2>6, <2>7
  <2> QED  BY <1>2, <2>1, <2>8 DEF Range
<1> QED  BY <1>1, <1>2, <1>3, <1>4, CalmHere

LEMMA Sums ==
  \A s, a, b, m, r \in Nat : /\ s < m /\ b < r => s + 1 + b < m + r
                             /\ b < a /\ s + a < m + r => s + 1 + b < m + r
                             /\ s + 1 + b < m + r => s + 1 < m + r
  OBVIOUS

(* A request is answered: either the watched connection's own, or that of one    *)
(* that goes before it and is behind it now.                                  *)
LEMMA ServePatience ==
  ASSUME Basic, Basic', Patience, Sorted, ServeRequest
  PROVE  Patience'
<1>1. Sound /\ Kept /\ TcpTypeOK /\ Known /\ order \in Seq(Indices) /\ TcpTypeOK' /\ Known'
  BY ServeKeeps DEF Basic, Sound, TcpTypeOK, Indices
<1>2. PICK i \in Indices : i = First
  BY <1>1, FirstIs DEF ServeRequest
<1>3. /\ Turn /\ i \notin dead /\ anyServed' = TRUE
      /\ last' = [last EXCEPT ![SlotOf(clients[i])] = clients[i].id]
      /\ portCursor' = SlotOf(clients[i]) % NumSlots
      /\ dead' \in {dead, dead \union {i}}
      /\ IF Watched # clients[i].id /\ Waits(Watched)
         THEN skipped' = (IF upsets < MaxUpsets THEN skipped + 1 ELSE 0) /\ UNCHANGED upsets
         ELSE Forgotten
      /\ UNCHANGED <<activePorts, stage, nextId>>
      /\ \A k \in Indices \ {i} : clients'[k] = clients[k]
  <2>1. \E c : clients' = [clients EXCEPT ![i] = c]
    BY <1>2 DEF ServeRequest
  <2>2. \A k \in Indices \ {i} : clients'[k] = clients[k]
    BY <1>1, <2>1 DEF TcpTypeOK, Indices
  <2> QED  BY <1>2, <2>2 DEF ServeRequest, listening
<1>4. CASE ~(Watched # clients[i].id /\ Waits(Watched))
  BY <1>3, <1>4, FreshStart
<1>5. CASE Watched # clients[i].id /\ Waits(Watched)
  <2>1. SlotOf(clients[i]) \in Slots
    BY <1>1, Numbers
  <2>2. /\ Connected(Watched)' /\ IndexOf(Watched)' = IndexOf(Watched) /\ Indices' = Indices
    BY <1>1, <1>3, <1>5, <2>1, KeptIsKnown DEF Waits, Kept
  <2>3. PICK w \in Indices : w = IndexOf(Watched) /\ w = IndexOf(Watched)' /\ w # i /\ w \notin dead
                             /\ HasRequest(clients[w])
    BY <1>1, <1>5, <2>2, Indexed DEF Waits
  <2>4. Waits(Watched)'
    BY <1>3, <2>2, <2>3 DEF Waits, HasRequest
  <2>5. /\ skipped \in Nat /\ upsets \in Nat
        /\ skipped' = (IF upsets < MaxUpsets THEN skipped + 1 ELSE 0) /\ upsets' = upsets
    BY <1>1, <1>3, <1>5, Bounds DEF TcpTypeOK
  <2>6. PICK m \in Nat : m = Rounds * upsets /\ Rounds * (1 + upsets) = m + Rounds
    BY <2>5, OneMore
  <2>7. Ahead \in Nat /\ Ahead < Rounds
    BY <1>1, <1>5, AheadIs DEF Waits
  <2>8. Ahead' \in Nat /\ Ahead' < Rounds
    <3>1. (TcpTypeOK /\ Known /\ Connected(Watched) => Ahead \in Nat /\ Ahead < Rounds)'
      BY AheadIs, PTL
    <3> QED  BY <1>1, <2>2, <3>1
  <2>9. ASSUME upsets < MaxUpsets PROVE skipped + 1 + Ahead' < m + Rounds
    <3>1. CASE skipped < m
      BY <2>5, <2>6, <2>8, <3>1, Sums, Bounds
    <3>2. CASE ~(skipped < m)
      <4>1. w \in Range(order)
        BY <1>3, <1>5, <2>3, <2>6, <2>9, <3>2 DEF Patience, Turn
      <4>2. PICK a \in DOMAIN order : order[a] = w
        BY <4>1 DEF Range
      <4>3. a \in 1 .. Len(order) /\ Len(order) \in Nat /\ order # <<>> /\ i = order[1]
        BY <1>1, <1>2, <1>3, <4>2 DEF First, Turn
      <4>4. 1 \in DOMAIN order /\ 1 < a
        BY <1>1, <2>3, <4>2, <4>3
      <4>5. Before(i, w)
        BY <4>2, <4>3, <4>4 DEF Sorted
      <4>6. Ahead' < Ahead
        <5>1. \A k \in Indices : clients'[k].id = clients[k].id /\ SlotOf(clients[k])' = SlotOf(clients[k])
          BY <1>1, <1>3 DEF Kept, Touched, SlotOf
        <5>2. Connected(Watched) /\ Before(i, IndexOf(Watched))
          BY <1>5, <2>3, <4>5 DEF Waits
        <5> QED  BY <1>1, <1>3, <2>2, <5>1, <5>2, Nearer
      <4>7. skipped + Ahead < m + Rounds
        BY <1>5, <2>6, <2>9 DEF Patience
      <4> QED  BY <2>5, <2>6, <2>7, <2>8, <4>6, <4>7, Sums, Bounds
    <3> QED  BY <3>1, <3>2
  <2>10. /\ upsets' < MaxUpsets => skipped' < Rounds * (1 + upsets')
         /\ upsets' < MaxUpsets => skipped' + Ahead' < Rounds * (1 + upsets')
    <3> SUFFICES ASSUME upsets < MaxUpsets
                 PROVE  skipped + 1 < m + Rounds /\ skipped + 1 + Ahead' < m + Rounds
      BY <2>5, <2>6
    <3> QED  BY <2>5, <2>6, <2>8, <2>9, Sums, Bounds
  <2> QED  BY <1>3, <2>4, <2>10 DEF Patience
<1> QED  BY <1>4, <1>5

LEMMA PatienceStep ==
  ASSUME Basic, Basic', Patience, Sorted, [TcpNext]_tcpVars PROVE Patience'
<1>1. HandsOff \/ UNCHANGED tcpVars \/ Send \/ TimePasses \/ FlushAll \/ ServeRequest \/ PassOver \/ Accept \/ Close
  BY DEF TcpNext, Peers, Tick, Listening, Accepting, Polling, HandsOff
<1> QED
  BY <1>1, HandsOffPatience, PeersPatience, ServePatience, PassPatience, AcceptPatience, ClosePatience

LEMMA FirstPatience == ASSUME TcpInit PROVE Sorted /\ Patience
<1>1. ~Connected(Watched)
  BY DEF TcpInit, Connected
<1>2. Rounds * (1 + 0) = Rounds
  BY Bounds
<1>3. Patience
  BY <1>1, <1>2, Bounds DEF TcpInit, Patience, Waits
<1>4. Sorted
  BY DEF TcpInit, Sorted
<1> QED  BY <1>3, <1>4

-----------------------------------------------------------------------------
LEMMA TcpStep == ASSUME TcpInv, [TcpNext]_tcpVars PROVE TcpInv'
<1>1. Basic /\ Sorted /\ Patience
  BY DEF TcpInv, Basic, Sound
<1>2. Basic'
  BY <1>1, BasicStep
<1>3. Sorted' /\ Patience'
  BY <1>1, <1>2, SortedStep, PatienceStep
<1> QED  BY <1>2, <1>3 DEF TcpInv, Basic, Sound

(* The invariant of the server.                                             *)
THEOREM TcpInvariant == TcpSpec => []TcpInv
<1>1. TcpInit => TcpInv
  BY BasicInit, FirstPatience DEF TcpInv, Basic, Sound
<1>2. TcpInv /\ [TcpNext]_tcpVars => TcpInv'
  BY TcpStep
<1> QED  BY <1>1, <1>2, PTL DEF TcpSpec

(* The counter of connections is right and never above the limit, and order and  *)
(* dead name connections that exist, whoever is accepted, served or closed.     *)
THEOREM TcpTypes == TcpSpec => []TcpTypeOK
<1>1. TcpInv => TcpTypeOK
  BY DEF TcpInv
<1> QED  BY <1>1, TcpInvariant, PTL

(* However many ports and connections there are, whoever connects, hangs up or   *)
(* sends at whatever pace, a request that waits is passed over fewer times than  *)
(* there are places, and as often again for every disturbance.                *)
THEOREM NobodyIsForgotten == TcpSpec => []WaitsItsTurn
<1>1. TcpInv => WaitsItsTurn
  BY DEF TcpInv, Patience, Rounds, WaitsItsTurn
<1> QED  BY <1>1, TcpInvariant, PTL

(* The listeners are those of active_ports in order, and a missing one is         *)
(* repaired.                                                               *)
THEOREM ListenersAreRepaired == TcpSpec => []ListenersMatch
<1>1. TcpInv => ListenersMatch
  BY DEF TcpInv, Repaired, ListenersMatch
<1> QED  BY <1>1, TcpInvariant, PTL

(* What is in a receive buffer is timed, also the part of a request that came     *)
(* with the one before it.                                                  *)
THEOREM PartsAreTimed == TcpSpec => []SlowSenderIsTimed
<1>1. TcpInv => SlowSenderIsTimed
  BY DEF TcpInv
<1> QED  BY <1>1, TcpInvariant, PTL
=============================================================================
