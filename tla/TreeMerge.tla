----------------------------- MODULE TreeMerge -----------------------------
(***************************************************************************)
(* The tree merge (merge_tree): a TEB is opened as a mutable bitmap tree,  *)
(* the tree takes writes, and a TEB is made from it that replaces the old  *)
(* one.  Between two merges the TEB is updated in place through a diff;    *)
(* TreePrune adds the clients that also prune it then.  A TEB that is a    *)
(* single leaf is not opened: the constructor of the tree asserts that it  *)
(* is not.                                                                 *)
(***************************************************************************)
EXTENDS TebState, MutableTree

CONSTANTS
  Contents,     \* the bitmaps a TEB is built from
  Touched       \* the positions that are written to

ASSUME TreeMergeAssumption ==
  /\ Contents \subseteq [Pos -> BOOLEAN]
  /\ Touched \subseteq Pos

\* A value for Contents: one run of 1-bits with ends on and off the boundaries
\* of subtrees; and bits spread so that the upper levels are perfect.
RunsAndSpread ==
  {[i \in Pos |-> i \in b .. e] : b \in {0, 1, n \div 2}, e \in {3, n \div 2 + 1, N - 1}}
    \cup {[i \in Pos |-> i \in {0, n \div 4 + 1, n \div 2 + 3}]}

VARIABLE mbt    \* the tree made from the TEB, or NoTree; it answers while there is one

varsTree == <<teb, mbt, content, call>>

NoTree == [inner |-> {}, active |-> {}, labels |-> {}, perfect |-> 0]

TreeBits(t) == [i \in Pos |-> tree_test(t, i)]

InitTree ==
  \E bits \in Contents : /\ teb = Serialize(bits)
                         /\ mbt = NoTree
                         /\ content = bits
                         /\ call = [op |-> "none"]

\* update(), with the diff bit of the position
UpdateTeb(i, diff_val) ==
  \E answer \in {update(teb, i, ~(content[i] # diff_val), "hybrid", diff_val)} :
    /\ teb' = answer.teb
    /\ content' = IF teb'.faults = {} THEN Decode(teb') ELSE content
    /\ call' = IF answer.res = 1 THEN [op |-> "write", pos |-> i, val |-> ~content[i]]
               ELSE [op |-> "maintain"]
    /\ UNCHANGED mbt

\* The constructor of the tree
OpenTree ==
  /\ teb.implicit_inner_node_cnt > 0
  /\ mbt' = FromTeb(teb)
  /\ content' = TreeBits(mbt')
  /\ call' = [op |-> "maintain"]
  /\ UNCHANGED teb

\* One bit of the diff
ToggleBit(i) ==
  /\ mbt' = toggle(mbt, i)
  /\ content' = TreeBits(mbt')
  /\ call' = [op |-> "write", pos |-> i, val |-> ~content[i]]
  /\ UNCHANGED teb

WriteBit(i, val) ==
  /\ mbt' = set(mbt, i, val)
  /\ content' = TreeBits(mbt')
  /\ call' = [op |-> "write", pos |-> i, val |-> val]
  /\ UNCHANGED teb

\* The tree is serialized and replaces the TEB.
CloseTree ==
  /\ teb' = ToTeb(mbt)
  /\ mbt' = NoTree
  /\ content' = Decode(teb')
  /\ call' = [op |-> "maintain"]

NextTree ==
  \/ /\ mbt = NoTree /\ teb.faults = {}
     /\ \/ \E i \in Touched, diff_val \in BOOLEAN : UpdateTeb(i, diff_val)
        \/ OpenTree
  \/ /\ mbt # NoTree
     /\ \/ \E i \in Touched : ToggleBit(i)
        \/ \E i \in Touched, val \in BOOLEAN : WriteBit(i, val)
        \/ CloseTree

SpecTree == InitTree /\ [][NextTree]_varsTree

-----------------------------------------------------------------------------
\* While there is a tree, its flags describe one: see IsTree.
TypeOK ==
  /\ content \in [Pos -> BOOLEAN]
  /\ mbt # NoTree => IsTree(mbt)

\* The constructor of the tree relies on the first stored node being a leaf,
\* which the builder makes sure of; no in-place update or prune may change it.
FirstExplicitIsLeaf ==
  teb.faults = {} /\ (\E i \in Pos : content[i])
    => teb.tree_bit_cnt > 0 /\ ~Bit(teb.T, 0)

\* The levels that test(), set() and toggle() skip are perfect for as long as
\* the tree lives, however many nodes are collapsed.
SkippedLevelsStay == mbt # NoTree => SkippedArePerfect(mbt)

\* A write leaves nothing on its path that could be collapsed below the first
\* level that may be: the runs it joins are one leaf again, on all levels.
PathIsPruned ==
  [][mbt # NoTree /\ mbt' # NoTree /\ content' # content
       => \A l \in mbt.perfect + 1 .. h - 1 :
            LET v == NodeAbove(call'.pos, l)
            IN  v \in mbt'.inner => ~Collapsible(mbt', v)]_varsTree

\* TEB and tree together are a plain bitmap: opening the tree and encoding it
\* again change no bit, and a write changes the bit it is for, whichever nodes
\* it expands and collapses.
Abstract == INSTANCE Bitmap
ImplementsBitmap == Abstract!Spec
=============================================================================
