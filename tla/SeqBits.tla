------------------------------ MODULE SeqBits ------------------------------
(***************************************************************************)
(* AtomicBits64 of src/src/sync.rs: the digital inputs and outputs, 64 bits *)
(* in four 16-bit words (the CPU has no 64-bit atomics) behind a sequence   *)
(* number.  Even: nobody writes; odd: one writer does.  One action per      *)
(* atomic operation, all of them SeqCst.                                    *)
(*                                                                         *)
(* store_bits, set_bit and mask_replace differ in the mask of bits they     *)
(* replace: all, one, any.  A write loads and stores only the words its     *)
(* mask touches, in ascending order.                                       *)
(***************************************************************************)
EXTENDS Naturals, FiniteSets

CONSTANTS
  Tasks,     \* the tasks
  Bits,      \* the bits
  Words,     \* the indices of the words
  WordOf,    \* WordOf[b]: the word bit b is in
  Requests,  \* the writes: records [mask, value] of sets of bits
  NoRequest, \* no write waits for its turn
  NoBits,    \* no value was read
  MaxSeq     \* bound: writes are called until seq gets here, so it does not wrap

ASSUME WordsAssumption    == Words \subseteq Nat /\ WordOf \in [Bits -> Words]
ASSUME RequestsAssumption ==
  /\ Requests \subseteq [mask : SUBSET Bits, value : SUBSET Bits]
  /\ NoRequest \notin Requests
  /\ NoBits \notin SUBSET Bits
ASSUME SeqAssumption      == MaxSeq \in Nat

VARIABLES
  words,   \* words[i]: the bits that are set in word i
  seq,     \* the sequence number
  at,      \* at[t]: the next step of t
  req,     \* req[t]: the write t has called, or NoRequest
  mine,    \* mine[t]: the even sequence number t saw, 0 between calls
  left,    \* left[t]: the words t still has to visit
  cur,     \* cur[t]: the word a writer has loaded
  acc,     \* acc[t]: the bits a reader has gathered
  got      \* got[t]: what the last read of t returned

bitVars == <<words, seq, at, req, mine, left, cur, acc, got>>

BitsOf(i)  == {b \in Bits : WordOf[b] = i}
Flat       == UNION {words[i] : i \in Words}
Least(i, S) == i \in S /\ \A j \in S : i <= j
BitsSteps  == {"idle", "begin", "load", "store", "seq", "gather", "check"}

BitsInit ==
  /\ words = [i \in Words |-> {}]
  /\ seq   = 0
  /\ at    = [t \in Tasks |-> "idle"]
  /\ req   = [t \in Tasks |-> NoRequest]
  /\ mine  = [t \in Tasks |-> 0]
  /\ left  = [t \in Tasks |-> {}]
  /\ cur   = [t \in Tasks |-> {}]
  /\ acc   = [t \in Tasks |-> {}]
  /\ got   = [t \in Tasks |-> NoBits]

-----------------------------------------------------------------------------
(* store_bits, set_bit, mask_replace                                       *)

CallWrite(t, r) ==
  /\ at[t] = "idle"
  /\ seq + 2 * Cardinality({u \in Tasks : at[u] = "begin"}) < MaxSeq
  /\ at'  = [at EXCEPT ![t] = "begin"]
  /\ req' = [req EXCEPT ![t] = r]
  /\ UNCHANGED <<words, seq, mine, left, cur, acc, got>>

Enter(t) ==
  /\ at[t] = "begin"
  /\ seq'  = seq + 1
  /\ mine' = [mine EXCEPT ![t] = seq]
  /\ at'   = [at EXCEPT ![t] = "load"]
  /\ left' = [left EXCEPT ![t] = {WordOf[b] : b \in req[t].mask}]
  /\ UNCHANGED <<words, req, cur, acc, got>>

(* Variant: what the comment at sync.rs:140 warns of, an unconditional       *)
(* fetch_add before the words.                                              *)
BeginFetchAdd(t) == Enter(t)

(* begin_write: the compare-and-exchange from an even number admits one      *)
(* writer; a failed attempt changes nothing and is repeated.                *)
Begin(t) ==
  /\ seq % 2 = 0
  /\ Enter(t)

LoadWord(t, i) ==
  /\ at[t] = "load"
  /\ Least(i, left[t])
  /\ cur' = [cur EXCEPT ![t] = words[i]]
  /\ at'  = [at EXCEPT ![t] = "store"]
  /\ UNCHANGED <<words, seq, req, mine, left, acc, got>>

(* Variant: the value is not shifted to the word it is stored in.            *)
StoreUnshifted(t, i) ==
  /\ at[t] = "store"
  /\ Least(i, left[t])
  /\ words' = [words EXCEPT ![i] =
                 (cur[t] \ req[t].mask)
                   \union (req[t].value \intersect req[t].mask)]
  /\ left'  = [left EXCEPT ![t] = @ \ {i}]
  /\ cur'   = [cur EXCEPT ![t] = {}]
  /\ at'    = [at EXCEPT ![t] = "load"]
  /\ UNCHANGED <<seq, req, mine, acc, got>>

StoreWord(t, i) ==
  /\ at[t] = "store"
  /\ Least(i, left[t])
  /\ words' = [words EXCEPT ![i] =
                 (cur[t] \ req[t].mask)
                   \union (req[t].value \intersect req[t].mask \intersect BitsOf(i))]
  /\ left'  = [left EXCEPT ![t] = @ \ {i}]
  /\ cur'   = [cur EXCEPT ![t] = {}]
  /\ at'    = [at EXCEPT ![t] = "load"]
  /\ UNCHANGED <<seq, req, mine, acc, got>>

(* Variant: the number is put back to what admitted the writer plus one.     *)
EndOdd(t) ==
  /\ at[t] = "load"
  /\ left[t] = {}
  /\ seq'  = mine[t] + 1
  /\ at'   = [at EXCEPT ![t] = "idle"]
  /\ req'  = [req EXCEPT ![t] = NoRequest]
  /\ mine' = [mine EXCEPT ![t] = 0]
  /\ UNCHANGED <<words, left, cur, acc, got>>

End(t) ==
  /\ at[t] = "load"
  /\ left[t] = {}
  /\ seq'  = mine[t] + 2
  /\ at'   = [at EXCEPT ![t] = "idle"]
  /\ req'  = [req EXCEPT ![t] = NoRequest]
  /\ mine' = [mine EXCEPT ![t] = 0]
  /\ UNCHANGED <<words, left, cur, acc, got>>

-----------------------------------------------------------------------------
(* load_bits, try_load_bits                                                *)

CallRead(t) ==
  /\ at[t] = "idle"
  /\ at'  = [at EXCEPT ![t] = "seq"]
  /\ got' = [got EXCEPT ![t] = NoBits]
  /\ UNCHANGED <<words, seq, req, mine, left, cur, acc>>

(* An odd number is a failed attempt: the reader looks again.               *)
LoadSeq(t) ==
  /\ at[t] = "seq"
  /\ seq % 2 = 0
  /\ mine' = [mine EXCEPT ![t] = seq]
  /\ left' = [left EXCEPT ![t] = Words]
  /\ acc'  = [acc EXCEPT ![t] = {}]
  /\ at'   = [at EXCEPT ![t] = "gather"]
  /\ UNCHANGED <<words, seq, req, cur, got>>

Gather(t, i) ==
  /\ at[t] = "gather"
  /\ Least(i, left[t])
  /\ acc'  = [acc EXCEPT ![t] = @ \union words[i]]
  /\ left' = [left EXCEPT ![t] = @ \ {i}]
  /\ at'   = [at EXCEPT ![t] = IF left[t] = {i} THEN "check" ELSE "gather"]
  /\ UNCHANGED <<words, seq, req, mine, cur, got>>

(* Variant: the reader only asks that nobody writes now.                     *)
CheckEven(t) ==
  /\ at[t] = "check"
  /\ IF seq % 2 = 0
       THEN /\ at'  = [at EXCEPT ![t] = "idle"]
            /\ got' = [got EXCEPT ![t] = acc[t]]
       ELSE /\ at'  = [at EXCEPT ![t] = "seq"]
            /\ UNCHANGED got
  /\ acc'  = [acc EXCEPT ![t] = {}]
  /\ mine' = [mine EXCEPT ![t] = 0]
  /\ UNCHANGED <<words, seq, req, left, cur>>

Check(t) ==
  /\ at[t] = "check"
  /\ IF seq = mine[t]
       THEN /\ at'  = [at EXCEPT ![t] = "idle"]
            /\ got' = [got EXCEPT ![t] = acc[t]]
       ELSE /\ at'  = [at EXCEPT ![t] = "seq"]
            /\ UNCHANGED got
  /\ acc'  = [acc EXCEPT ![t] = {}]
  /\ mine' = [mine EXCEPT ![t] = 0]
  /\ UNCHANGED <<words, seq, req, left, cur>>

(* try_load_bits returns None when its last attempt fails as well.          *)
GiveUp(t) ==
  /\ \/ at[t] = "seq" /\ seq % 2 = 1
     \/ at[t] = "check" /\ seq # mine[t]
  /\ at'   = [at EXCEPT ![t] = "idle"]
  /\ acc'  = [acc EXCEPT ![t] = {}]
  /\ mine' = [mine EXCEPT ![t] = 0]
  /\ UNCHANGED <<words, seq, req, left, cur, got>>

-----------------------------------------------------------------------------
BitsProgress(t) ==
  \/ Begin(t)
  \/ End(t)
  \/ LoadSeq(t)
  \/ Check(t)
  \/ \E i \in Words : LoadWord(t, i) \/ StoreWord(t, i) \/ Gather(t, i)

BitsNext == \E t \in Tasks :
  \/ BitsProgress(t)
  \/ CallRead(t)
  \/ GiveUp(t)
  \/ \E r \in Requests : CallWrite(t, r)

BitsSpec == BitsInit /\ [][BitsNext]_bitVars

(* Every task is scheduled; no task must call or give up.                   *)
FairBitsSpec == BitsSpec /\ \A t \in Tasks : WF_bitVars(BitsProgress(t))

-----------------------------------------------------------------------------
BitsTypeOK ==
  /\ words \in [Words -> SUBSET Bits]
  /\ \A i \in Words : words[i] \subseteq BitsOf(i)
  /\ seq   \in Nat
  /\ at    \in [Tasks -> BitsSteps]
  /\ req   \in [Tasks -> Requests \union {NoRequest}]
  /\ mine  \in [Tasks -> Nat]
  /\ left  \in [Tasks -> SUBSET Words]
  /\ cur   \in [Tasks -> SUBSET Bits]
  /\ acc   \in [Tasks -> SUBSET Bits]
  /\ got   \in [Tasks -> (SUBSET Bits) \union {NoBits}]

Writing(t) == at[t] \in {"load", "store"}

(* Writers exclude each other and are visible to readers: the number is odd *)
(* exactly while one thread is between its first load and its last store,   *)
(* although a writer that is late takes the number from a plain load        *)
(* (sync.rs:251-272).                                                      *)
OneWriter ==
  /\ seq % 2 = 1 <=> \E t \in Tasks : Writing(t)
  /\ \A t, u \in Tasks : Writing(t) /\ Writing(u) => t = u

(* A writer that was admitted finishes, whatever readers and other writers  *)
(* do: the number does not stay odd, which would stop every reader and      *)
(* every writer of the outputs for good.                                   *)
WritesEnd == (seq % 2 = 1) ~> (seq % 2 = 0)

(* The four words act as one: the register has a write's value from the     *)
(* moment the writer is admitted, because nobody can look before it ends.   *)
Admitted == IF \E t \in Tasks : Writing(t)
            THEN LET w == CHOOSE t \in Tasks : Writing(t)
                 IN  (Flat \ req[w].mask)
                       \union (req[w].value \intersect req[w].mask)
            ELSE Flat

Atomic == INSTANCE BitRegister WITH
  Threads <- Tasks,
  value <- Admitted,
  asked <- [t \in Tasks |-> IF at[t] = "begin" THEN req[t] ELSE NoRequest]

ImplementsRegister == Atomic!Spec

=============================================================================
