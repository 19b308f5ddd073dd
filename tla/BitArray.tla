------------------------------ MODULE BitArray ------------------------------
(***************************************************************************)
(* The arrays T and L of a tree-encoded bitmap, as functions from positions*)
(* to bits, whole words long.  Insertions and removals move the bits that  *)
(* follow; bits moved past the end of the last word are lost.  TebWords    *)
(* checks that this is what the word-wise code does wherever the faults    *)
(* below are not met.                                                      *)
(***************************************************************************)
EXTENDS Integers, FiniteSets

CONSTANT W          \* bits per word (64 in the code)

ASSUME BitArrayAssumption == W \in Nat \ {0, 1}

Words(bit_cnt) == (bit_cnt + W - 1) \div W
Array(bit_cnt) == 0 .. W * Words(bit_cnt) - 1
Capacity(a)    == Cardinality(DOMAIN a)
Bit(a, i)      == i \in DOMAIN a /\ a[i]

InsertBits(a, begin_idx, cnt, val) ==
  [k \in DOMAIN a |-> IF k < begin_idx THEN a[k]
                      ELSE IF k < begin_idx + cnt THEN val
                      ELSE a[k - cnt]]

RemoveBits(a, begin_idx, cnt) ==
  [k \in DOMAIN a |-> IF k < begin_idx THEN a[k] ELSE Bit(a, k + cnt)]

SetBit(a, i, val) == [k \in DOMAIN a |-> IF k = i THEN val ELSE a[k]]

FaultIf(cond, name) == IF cond THEN {name} ELSE {}

\* What goes wrong word-wise for an insertion or a removal of cnt > 0 bits:
\* "null", a write through the pointer of an array of no words; "past_end",
\* one behind the last word; "shift", a shift by a word or more.
InsertFaults(a, begin_idx, cnt) ==
  LET spills == (begin_idx % W) + cnt >= W IN
  FaultIf(DOMAIN a = {}, "null")
    \cup FaultIf(cnt >= W, "shift")
    \cup FaultIf(spills /\ W * (begin_idx \div W + 1) >= Capacity(a) /\ DOMAIN a # {},
                      "past_end")

RemoveFaults(a, begin_idx, cnt) ==
  FaultIf(DOMAIN a = {}, "null")
    \cup FaultIf(cnt + 1 >= W /\ W * (begin_idx \div W + 1) < Capacity(a), "shift")

WriteFaults(a, i) ==
  FaultIf(DOMAIN a = {}, "null") \cup FaultIf(DOMAIN a # {} /\ i \notin DOMAIN a, "past_end")
=============================================================================
