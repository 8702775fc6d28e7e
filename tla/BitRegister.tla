---------------------------- MODULE BitRegister ----------------------------
(***************************************************************************)
(* What a register of output bits shared by many tasks promises: a write   *)
(* changes the bits of its mask, and no other, at one instant between its  *)
(* call and its return, exactly once; a read returns the whole register as *)
(* it was at one instant between its call and its return, or nothing.      *)
(***************************************************************************)
CONSTANTS
  Threads,    \* the tasks that use the register
  Bits,       \* its bits
  Requests,   \* the writes they ask for: [mask, value], both sets of bits
  NoRequest,  \* the thread has no write waiting
  NoBits      \* the thread's last read has not returned a value

VARIABLES
  value,      \* the bits that are set
  asked,      \* asked[t]: the write t has called and that has no effect yet
  got         \* got[t]: what the last read of t returned

vars == <<value, asked, got>>

Replace(bits, r) == (bits \ r.mask) \union (r.value \intersect r.mask)

Init ==
  /\ value \in SUBSET Bits
  /\ asked = [t \in Threads |-> NoRequest]
  /\ got   = [t \in Threads |-> NoBits]

Ask(t, r) ==
  /\ asked[t] = NoRequest
  /\ asked' = [asked EXCEPT ![t] = r]
  /\ UNCHANGED <<value, got>>

Write(t) ==
  /\ asked[t] # NoRequest
  /\ value' = Replace(value, asked[t])
  /\ asked' = [asked EXCEPT ![t] = NoRequest]
  /\ UNCHANGED got

StartRead(t) ==
  /\ got' = [got EXCEPT ![t] = NoBits]
  /\ UNCHANGED <<value, asked>>

Read(t) ==
  /\ got[t] = NoBits
  /\ got' = [got EXCEPT ![t] = value]
  /\ UNCHANGED <<value, asked>>

Next == \E t \in Threads :
  \/ \E r \in Requests : Ask(t, r)
  \/ Write(t)
  \/ StartRead(t)
  \/ Read(t)

Spec == Init /\ [][Next]_vars

=============================================================================
