------------------------------ MODULE TebAlone ------------------------------
(***************************************************************************)
(* A tree-encoded bitmap on its own: built from a plain bitmap, then       *)
(* updated in place.  Teb adds the clients that prune it.                  *)
(***************************************************************************)
EXTENDS TebState

varsAlone == <<teb, content, call>>

InitAlone(contents) ==
  \E bits \in contents : /\ teb = Serialize(bits)
                         /\ content = Decode(teb)
                         /\ call = [op |-> "build", bits |-> bits]

\* update(i, val), with the diff bit of i where the caller passes one
UpdateAs(mode, i, val, diff_val) ==
  \E answer \in {update(teb, i, val, mode, diff_val)} :
    /\ mode = "direct" => ~diff_val
    /\ teb' = answer.teb
    /\ content' = IF Sound(teb') THEN Decode(teb') ELSE content
    /\ call' = IF answer.res = 1
                 THEN [op |-> "update", res |-> 1, pos |-> i, val |-> (val # diff_val)]
                 ELSE [op |-> "update", res |-> answer.res]

\* The client that updates through a diff, and does not prune
NextAlone ==
  /\ Sound(teb)
  /\ \E i \in Pos, val \in BOOLEAN, diff_val \in BOOLEAN : UpdateAs("hybrid", i, val, diff_val)

SpecAlone == InitAlone([Pos -> BOOLEAN]) /\ [][NextAlone]_varsAlone

-----------------------------------------------------------------------------
\* A TEB answers as the bitmap it was built from, however the tree was
\* pruned and whatever of it is only counted.
BuildKeepsBits == call.op = "build" => content = call.bits

\* An update that answers 1 has changed the bit it was asked to change, and
\* no other.
UpdateChangesOneBit ==
  [][(call'.op = "update" /\ call'.res = 1)
       => content' = [content EXCEPT ![call'.pos] = call'.val]]_varsAlone
=============================================================================
