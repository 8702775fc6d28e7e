----------------------------- MODULE MCSeqBits -----------------------------
(* TLC instance of SeqBits: two words, three bits, a write of each kind.    *)
EXTENDS SeqBits

MCBits   == {0, 1, 2}
MCWords  == {0, 1}
MCWordOf == [b \in MCBits |-> b \div 2]

MCRequests ==
  { [mask |-> MCBits,  value |-> {0, 2}],    \* store_bits
    [mask |-> {1},     value |-> {1}],       \* set_bit
    [mask |-> {0, 2},  value |-> {2}] }      \* mask_replace

(* No set of bits of the register.                                         *)
MCNoBits == {3}

=============================================================================
