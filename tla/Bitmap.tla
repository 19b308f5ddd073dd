------------------------------- MODULE Bitmap -------------------------------
(***************************************************************************)
(* What every bitmap of the library promises to the program that holds it: *)
(* a vector of N bits that only a write changes, and only at the written   *)
(* position.  Maintenance (merging a diff, pruning, shrinking, recoding)   *)
(* is visible as a call, and leaves every bit as it was.                   *)
(*                                                                         *)
(* The detailed modules (Diff, Teb, Part) are shown to implement this one with   *)
(* content mapped to what their test() function returns.                   *)
(***************************************************************************)
EXTENDS Naturals

CONSTANT N      \* the length of the bitmap

Pos == 0 .. N - 1

VARIABLES
  content,      \* the bit a reader finds at each position
  call          \* the last call made by the client

vars == <<content, call>>

Write(i, val) == [op |-> "write", pos |-> i, val |-> val]
Maintenance   == [op |-> "maintain"]
NoCall        == [op |-> "none"]

Calls == {Write(i, val) : i \in Pos, val \in BOOLEAN} \cup {Maintenance, NoCall}

TypeOK ==
  /\ content \in [Pos -> BOOLEAN]
  /\ call \in Calls

Init ==
  /\ content \in [Pos -> BOOLEAN]
  /\ call = NoCall

Put(i, val) ==
  /\ call' = Write(i, val)
  /\ content' = [content EXCEPT ![i] = val]

Maintain ==
  /\ call' = Maintenance
  /\ UNCHANGED content

Next ==
  \/ \E i \in Pos, val \in BOOLEAN : Put(i, val)
  \/ Maintain

Spec == Init /\ [][Next]_vars
=============================================================================
