------------------------------ MODULE TebIter ------------------------------
(***************************************************************************)
(* teb_iter: the 1-run iterator of a tree-encoded bitmap.  It keeps the    *)
(* nodes it has still to visit on a stack, except leaves with a 0-label;   *)
(* the nodes of the last perfect level are taken one after the other.      *)
(* skip_to() either climbs the stack to the part of the tree that holds    *)
(* the position or starts from the root again, whichever looks cheaper.    *)
(*                                                                         *)
(* A path is the number of the node in its level; the code adds a sentinel *)
(* bit to it, which gives the level.  The entry that next_top_node() leaves *)
(* on the stack when no top node is left is never read, and left out.      *)
(***************************************************************************)
EXTENDS TebPrune, SequencesExt

CONSTANT UpCost     \* what a step up costs in steps down (8)

TopLevel(t) == t.perfect_level_cnt - 1
TopBegin(t) == 2 ^ TopLevel(t) - 1          \* top_node_idx_begin_
TopEnd(t)   == 2 ^ t.perfect_level_cnt - 1  \* top_node_idx_end_

Node(node, path, level) == [node |-> node, path |-> path, level |-> level]

\* The children of an inner node on a path
LeftChild(t, e)  == Node(2 * rank_inclusive(t, e.node) - 1, 2 * e.path, e.level + 1)
RightChild(t, e) == Node(2 * rank_inclusive(t, e.node), 2 * e.path + 1, e.level + 1)

ToVisit(t, e) == is_inner_node(t, e.node) \/ get_label(t, e.node)

\* Mutant of PushToVisit: leaves are not kept.
PushInner(t, stack, e) == IF is_inner_node(t, e.node) THEN Append(stack, e) ELSE stack

PushToVisit(t, stack, e) == IF ToVisit(t, e) THEN Append(stack, e) ELSE stack

next_top_node(t, s) ==
  LET found == {v \in s.top + 1 .. TopEnd(t) - 1 : ToVisit(t, Node(v, v - TopBegin(t), TopLevel(t)))}
      v     == Min(found)
  IN  IF found = {} THEN [s EXCEPT !.top = TopEnd(t)]
      ELSE [s EXCEPT !.top = v, !.stack = Append(@, Node(v, v - TopBegin(t), TopLevel(t)))]

\* From a node to the leftmost leaf below it
RECURSIVE GoLeft(_, _, _)
GoLeft(t, stack, e) ==
  IF is_inner_node(t, e.node)
    THEN GoLeft(t, PushToVisit(t, stack, RightChild(t, e)), LeftChild(t, e))
    ELSE [stack |-> stack, leaf |-> e]

\* The iterator stands on the run of a leaf.
AtLeaf(s, e) ==
  [s EXCEPT !.pos = e.path * 2 ^ (h - e.level), !.length = 2 ^ (h - e.level), !.current = e]

RECURSIVE next(_, _)
next(t, s) ==
  IF s.top >= TopEnd(t) THEN [s EXCEPT !.pos = N, !.length = 0]
  ELSE IF s.stack = <<>> THEN next(t, next_top_node(t, s))
  ELSE LET down   == GoLeft(t, Front(s.stack), Last(s.stack))
           popped == [s EXCEPT !.stack = down.stack]
       IN  IF down.leaf = Last(s.stack) \/ get_label(t, down.leaf.node)
             THEN AtLeaf(popped, down.leaf)
             ELSE next(t, popped)

\* The constructor
it(t) ==
  next(t, next_top_node(t, [stack |-> <<>>, top |-> TopBegin(t) - 1, pos |-> 0, length |-> 0,
                            current |-> Node(TopBegin(t), 0, TopLevel(t))]))

Clipped(s, to_pos) == [s EXCEPT !.length = @ - (to_pos - s.pos), !.pos = to_pos]

\* From an inner node above the position, or a leaf, down to its leaf
RECURSIVE nav_downwards(_, _, _)
nav_downwards(t, s, to_pos) ==
  LET e == s.current IN
  IF ~is_inner_node(t, e.node)
    THEN IF get_label(t, e.node) THEN Clipped(AtLeaf(s, e), to_pos) ELSE next(t, s)
  ELSE IF DirectionBit(to_pos, h - e.level - 1) = 0
    THEN nav_downwards(t, [s EXCEPT !.stack = PushToVisit(t, @, RightChild(t, e)),
                                    !.current = LeftChild(t, e)], to_pos)
    ELSE nav_downwards(t, [s EXCEPT !.current = RightChild(t, e)], to_pos)

nav_from_root_to(t, s, to_pos) ==
  LET path == to_pos \div 2 ^ (h - TopLevel(t))
  IN  nav_downwards(t, [s EXCEPT !.stack = <<>>, !.top = TopBegin(t) + path,
                                 !.current = Node(TopBegin(t) + path, path, TopLevel(t))],
                    to_pos)

\* The level of the lowest node above both a node and a position
CommonLevel(e, to_pos) ==
  Max({l \in 0 .. e.level : e.path \div 2 ^ (e.level - l) = to_pos \div 2 ^ (h - l)})

\* Mutant of Climb: the entry that shows that the child is not there goes.
RECURSIVE ClimbDrops(_, _, _, _)
ClimbDrops(t, s, at, to_pos) ==
  LET e == Last(s.stack) IN
  IF s.stack = <<>> THEN nav_from_root_to(t, s, to_pos)
  ELSE IF e.level < at.level THEN next(t, [s EXCEPT !.stack = Front(@)])
  ELSE IF e.path = at.path /\ e.level = at.level
    THEN nav_downwards(t, [s EXCEPT !.stack = Front(@), !.current = e], to_pos)
  ELSE ClimbDrops(t, [s EXCEPT !.stack = Front(@)], at, to_pos)

\* The stack is taken down to the right child of the common ancestor.  If that
\* child is not there, it is a leaf with a 0-label and the next run is due.
RECURSIVE Climb(_, _, _, _)
Climb(t, s, at, to_pos) ==
  LET e == Last(s.stack) IN
  IF s.stack = <<>> THEN nav_from_root_to(t, s, to_pos)
  ELSE IF e.level < at.level THEN next(t, s)
  ELSE IF e.path = at.path /\ e.level = at.level
    THEN nav_downwards(t, [s EXCEPT !.stack = Front(@), !.current = e], to_pos)
  ELSE Climb(t, [s EXCEPT !.stack = Front(@)], at, to_pos)

nav_to(t, s, to_pos) ==
  LET width    == 2 ^ (h - TopLevel(t))     \* 1 << partition_shift_
      ancestor == CommonLevel(s.current, to_pos)
      upstep   == Last(s.stack).level - ancestor
      downstep == ancestor - TopLevel(t)
      child    == [level |-> ancestor + 1,
                   path  |-> 2 * (s.current.path \div 2 ^ (s.current.level - ancestor)) + 1]
  IN  IF \/ s.pos \div width # to_pos \div width
         \/ s.stack = <<>>
         \/ upstep < 0                      \* wraps: above the height
         \/ upstep * UpCost > downstep
        THEN nav_from_root_to(t, s, to_pos)
        ELSE Climb(t, s, child, to_pos)

skip_to(t, s, to_pos) ==
  IF to_pos >= N THEN [s EXCEPT !.pos = N, !.length = 0]
  ELSE IF to_pos < s.pos + s.length THEN Clipped(s, to_pos)
  ELSE nav_to(t, s, to_pos)
=============================================================================
