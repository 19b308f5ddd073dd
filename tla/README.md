# Thuja in TLA+

Thuja is a C++ library of compressed bitmaps. Its centre is the *tree-encoded
bitmap* (TEB): a bitmap of length n is seen as the leaves of a binary tree,
subtrees of equal bits are pruned to one labelled leaf, and the pruned tree is
stored as two bit arrays, T (the shape, level by level) and L (the labels). This
code base adds in-place updates and in-place pruning to it, and a *hybrid* of a
TEB with a differential bitmap for the updates the tree declines.

This directory holds TLA+ modules for the parts that change state, TLC
configurations that check them on small instances, and proofs checked by TLAPS.
`PROJECT.json` lists components, runs, mutants, hazards, findings, theorems, and
for each definition the source lines it stands for.

## 1. The system

| Component | State | Operations | Works with |
|---|---|---|---|
| `diff/diff.hpp` | bitmap, diff bitmap, `has_pending_updates_` | `set`, `update`, `merge<M>`, `shrink`, `test` | reads and updates the bitmap; merge strategies replace it |
| `diff/merge*.hpp` | none | naive, naive_iter, inplace, not, forward, tree | rebuild the bitmap of a diff |
| `util/bitmap_tree.hpp` | node and label bitmaps, counters | build labels, prune, count | input of the builder |
| `teb_builder.hpp` | none | `serialize` | bitmap tree to the words of a TEB |
| `teb_flat.hpp` | T, L, rank table, level offsets, nine counters | `test`, `update`, `runbreaking_update`, `prune`, word-wise insert, remove, prepend | owned by `teb_wrapper`, called by diff and the experiments |
| `part/*.hpp` | a vector of partitions, each a bitmap, a diff or a value | `set`, `merge`, `test`, iterators | above or below diff |
| `util/mutable_bitmap_tree.hpp` | a bitmap tree decoded from a TEB | `test`, `set`, `toggle` (expand, collapse) | the tree merge decodes a TEB, toggles, and builds a new one |
| `teb_iter.hpp` | a stack of nodes, position, length | `next`, `skip_to` | runs of a TEB |
| `teb_scan_iter.hpp` | a position in T and L per level, a batch of runs | `next`, `skip_to` | runs of a TEB, for merges and decoding |
| `bitwise_operations.hpp` | two iterators, the current run | `next`, `skip_to` | diff reads through XOR |
| `xah`, `uah`, `concise`, `bah`, `bbc`, `xah_skip`, `uah_skip` | words or byte streams, a skip index | encode a bitmap, `test`, iterator with `next`, `skip_to` | diff bitmaps and baselines |
| `experiments/util/threading.hpp` | an atomic counter | `dispatch` | every experiment |
| `experiments/prune/*` | a TEB, a reference bitmap | update and prune streams | clients of the above |

Only `dispatch()` is concurrent. Everything else is sequential, and hard for
other reasons:

* State that must agree is kept in several places at once (the bit arrays, nine
  `u32` counters, two tables of level offsets, the rank table), changed step by
  step by deltas, and never recomputed.
* Much of a TEB is only *counted*: inner nodes in front of T, leaves behind it,
  0-labels at both ends of L. Whether a bit is stored or counted changes with
  every update, and the bits that can still be stored are limited to the free
  bits of the last word.
* The diff stores the XOR with a bitmap that `update()` changes below it.
* Two write functions (`set`, `update`) and a flag that only one of them raises.
* Insertions and removals cross words and blocks of the rank table.
* The codecs rewrite the word they wrote last: a word fills up, overflows, changes its
  kind or absorbs the word before it, depending on what was appended before.
* Iterators keep positions in several streams, or a stack of nodes from which some were
  left out, and skip over words and subtrees without reading them.
* A batch size computed from an atomic counter before the batch is claimed.

What makes each part correct:

* **diff**: a reader sees a plain bitmap in which only the written bit changes,
  whatever the bitmap takes in place, whatever the diff holds and whenever it is
  merged; merge empties the diff.
* **TEB**: built from a bitmap, it answers as that bitmap; an update that answers
  1 changes that bit and no other, one that answers 0 or 2 and a prune change
  none; the counters stay those of one full binary tree, the offsets the
  beginnings of its levels, the free bits those not in use; nothing outside the
  arrays is touched.
* **run iterators**: read forward, with `next` and `skip_to` in any mix, they give
  every 1-bit of the result from where the reader is, nothing else, and end; for
  `bitwise_iter` the result is the operation bit by bit, for a partitioned bitmap
  what `test` answers.
* **partitions**: a write changes its bit and no other, whatever its partition holds.
* **mutable tree**: opening, writing and encoding again change the written bits and no
  other; the flags are those of a tree, its upper levels stay perfect, and what a write
  joins is one leaf again.
* **codecs**: the words hold the bits appended to them, `test` and the iterator find them.
* **words**: the words hold the array, the rank table its counts.
* **dispatch**: each task is run exactly once, and the threads end.

## 2. The modules

| Module | Models |
|---|---|
| `Bitmap` | the abstract specification: a vector of bits, written one at a time, and maintenance that changes none |
| `Diff` | `diff<B,D>` and the merge strategies, over bits |
| `DiffProofs` | theorems about `Diff` |
| `BitmapTree` | construction, pruning and counters of the tree (operators) |
| `BitArray` | inserting, removing and setting bits of an array of whole words, and when the word-wise code goes wrong doing it |
| `TebFlat` | `serialize`, the teb_flat object, reading it, growing its arrays and counters |
| `TebUpdate` | `update` and `runbreaking_update` |
| `TebPrune` | `prune` and `prune_traverse` |
| `TebAlone` | one TEB on its own: built, updated |
| `Teb` | the life of one TEB: built, updated, pruned; its properties |
| `HybridTeb` | `diff<teb_wrapper, D>`: `Diff` with the TEB of `TebUpdate` in it, merged through `MutableTree` or by reading the TEB; what is read is a parameter |
| `HybridPrune` | the same with a client that also prunes the tree below the diff, and with merges that read by `ScanMerge` |
| `ScanMerge` | what `merge_naive` and `merge_naive_iter` read of a TEB and a diff, by the scan iterator (operators) |
| `MutableTree` | a TEB decoded into a tree, writes to the tree, the way back (operators) |
| `TebState` | the state of a TEB with what a client reads of it, and its invariants; shared by `TebAlone`, `HybridTeb` and `TreeMerge` |
| `TreeMerge` | the life of a TEB that is updated, opened as a tree, written to and encoded again; its properties |
| `TreePrune` | the same with a client that also prunes the TEB |
| `TebWords` | the words of T and L and the rank table below `BitArray` |
| `RunIter` | what a 1-run iterator gives (operators) |
| `RunOps` | `bitwise_iter` with and, or, xor and xor_re |
| `Part` | `part_upforward`, `part_updirect`, `part_run` and their iterator |
| `TebIter` | `teb_iter`: the stack of nodes, `next`, `skip_to` and its navigation (operators) |
| `TebLoops` | which loop of `teb_scan_iter` reads a TEB, and which TEBs the loops read wrong |
| `TebScan` | `teb_scan_iter`: the loops that fill a batch, the traversal, `next`, `skip_to` (operators) |
| `RunWords` | what the codecs share: runs of a bitmap, reading words, 1-run iterators, the skip index (operators) |
| `Xah`, `Uah`, `Concise`, `Bah`, `Bbc` | encoding and decoding of each codec (operators) |
| `WordCodecs` | a bitmap encoded by any of them, tested and read; its properties |
| `Codecs` | the same with TEBs beside the words, read with either of their iterators |
| `CodecProofs` | theorems about `WordCodecs`: `Xah`, `Uah`, `Concise` and the readers of `RunWords` |
| `Dispatch` | the threads of `dispatch` |
| `DispatchProofs` | theorems about `Dispatch` |
| `NatLemmas` | lemmas: minima, maxima and ranks in sets of naturals, powers of two, places in rows of blocks, runs of 1-bits |
| `RunOpsProofs`, `PartProofs`, `TebWordsProofs` | theorems about `RunOps`, `Part` and `TebWords` |
| `TreeProofs` | theorems about the operators of `TebFlat`, `MutableTree` and `TebUpdate`, about `HybridTeb`, `TreeMerge` and `TebAlone` |

How they hang together:

    Bitmap <---- Diff <---- HybridTeb          (each implements the one to its left)
    Bitmap <---- Teb                           (the same, for the TEB on its own)
    Bitmap <---- TreeMerge                     (the same, for TEB and tree together)
    BitmapTree, BitArray <- TebFlat <- TebUpdate <- TebPrune                     (EXTENDS)
    TebPrune <- TebIter, TebScan;  TebFlat <- MutableTree, TebLoops              (EXTENDS)
    TebLoops <- TebScan, HybridTeb;  TebScan <- ScanMerge                        (EXTENDS)
    TebUpdate <- TebState <- TebAlone;  TebAlone, TebPrune <- Teb                (EXTENDS)
    TebState, MutableTree <- HybridTeb, TreeMerge                                (EXTENDS)
    HybridTeb, TebPrune <- HybridPrune;  TreeMerge, TebPrune <- TreePrune        (EXTENDS)
    RunWords <- Xah, Uah, Concise, Bah, Bbc    (EXTENDS)
    Xah, Uah, Concise, Bah, Bbc <- WordCodecs;  TebIter, TebScan <- Codecs;  TebScan <- Teb     (INSTANCE)
    ScanMerge <- HybridPrune;  RunIter <- ScanMerge                              (INSTANCE)
    WordCodecs <- Codecs, CodecProofs          (EXTENDS)
    BitArray <- TebWords                       (the words behind the arrays)
    RunIter <- RunOps, Part                    (EXTENDS)
    Bitmap <---- Part                          (implements)
    NatLemmas <- TebWordsProofs, TreeProofs, CodecProofs, RunOpsProofs, PartProofs   (EXTENDS)
    HybridTeb, TreeMerge, TebAlone <- TreeProofs                                 (EXTENDS)

### State and actions

*Diff.* `bitmap_`, `diff_`, `has_pending_updates_` are the members; `size` is
`bitmap_->size()`; `call` is the last call with its outcome, which action
properties refer to. One action per function: `Set`, `Update` (three results:
0 cancelled, 1 in place, 2 into the diff), `Merge` for each strategy, `Shrink`.
Which of the results 1 and 2 the bitmap gives is left open, so that `Diff` holds
for every bitmap that answers truthfully. `client` is the set of write functions
that the client of the object calls, out of `Interfaces`: the older experiments call
`set`, the hybrid ones `update`. The
merge strategies `not` and `forward` forward to the bitmap's own operations and
apply to other classes than diff's; they are not strategies here.

*Teb.* A TEB is a record with the fields of the `teb_flat` object: the arrays `T`
and `L` (functions from bit positions, always whole words long), the counters
(`tree_bit_cnt`, `implicit_inner_node_cnt`, ..., the names of the code), the
level offsets and `perfect_level_cnt`. Each function of `teb_flat.hpp` is an
operator from a TEB to a TEB (or to a TEB and an answer), the statements of the
code in their order as nested calls. `content` is what `test()` answers at each
position, so that properties can speak of a step's effect on it. Counters are
`u32` in the code; differences below zero wrap (`U`), with 2^16 for 2^32.

*Faults.* Where the code leaves C++ (writes behind an array, writes through the
pointer of an empty array, shifts by a word or more) or fails an assertion of its
own, the model records the fault in the TEB and the behaviour ends there: nothing
is claimed about a program after undefined behaviour. `NoFaults` says that no
fault happens; the runs that expect a violation say which ones do.

*HybridTeb, HybridPrune.* The actions of `Diff` with the update of `TebUpdate` inside, called
with the diff bit. A merge toggles the bits of the diff in the tree made from the TEB
(`MergeByTree`, as `merge_tree` does), or builds the TEB anew from plain bits (`MergeByScan`). Those
bits are not the bits of the TEB by definition: they are the constant operator `Scanned`, what the strategy
reads of the TEB and the diff. Its value in the run is `MergedBits` of `ScanMerge`, which runs the code's
loops: `merge_naive` sets the bits of all runs that the scan iterator of the TEB gives and xors those of the
diff, `merge_naive_iter` runs `bitwise_xor` over both iterators, `next` and `skip_to`, until it gives an
empty run. The scan iterator is that of `TebScan`, its one wrong loop included. `HybridPrune` adds `prune()` of the
tree below; what `Diff` calls shrink stands for both kinds of maintenance that change no bit.
The two are apart because the iterator and `prune` are recursive, and `HybridTeb` is proved about. The run
checks the larger one.

A merge through the tree leaves a bitmap of the length rounded up, which `Diff` describes. `HybridTeb` keeps its
length, so its assumption allows clients that use both kinds of merge at lengths that are powers of two
only. A merge by the scan iterator of a TEB for which the loops do not end (`Overruns`, below) is
not a step.

*MutableTree, TreeMerge, TreePrune.* The tree is a record of node sets: `inner`, `active` and
`labels` are the three bitmaps of the code, nodes numbered as in `BitmapTree`; `perfect`
is `perfect_level_cnt_`. `FromTeb` is the constructor: it reads T and L in order and takes
the first stored node for a leaf, as the code does. `Expand` and `CollapseUp` are the two
loops that `set` and `toggle` share. `ToTeb` hands the flags to the counters and the builder
(`CountersOf`, `SerializeTree`, shared with the way from a plain bitmap). The actions of
`TreeMerge` are the calls: `UpdateTeb` while there is a TEB only, `OpenTree`, then `ToggleBit`
and `WriteBit`, then `CloseTree`; `TreePrune` adds `prune()` of a TEB that is not open.
That all calls may follow each other in any order is more than
`merge_tree` does, which toggles each set bit of the diff once.

*WordCodecs, Codecs.* The encoders are run to their end when a bitmap is constructed (nothing can be
appended later), so that encoding is an operator: `append_run` for one run of the bitmap after the
other for xah and uah, `append` for one 1-bit after the other for concise, and segment by segment
for bah and bbc. Words are records (a literal with its 1-bits, a fill with its count, a
byte of a stream), never integers; `WordOK` says that the fields do not overflow, and the
property `WordsHoldBits` that decoding gives the bits back. A reader sees every word as a
*view*, a number of bits and those of them that are 1. `test` and the iterators, which the
code writes out for each codec in almost the same words, are stated once over views in
`RunWords`, with what differs beside the codec: the dirty bit that concise's `test` and
iterator see in different places, the end that concise's `next` reports, the index of the
skip variants. Loops (the runs that are appended, the words that `next` passes, the steps of a
skip) are functions over the number of rounds. For bah the view takes the data, index and counter streams at the positions
the reader has in them. The actions are `Advance` (`next`) and `Skip` (`skip_to`); `from` is
how far the client has read. `Codecs` adds the TEBs as two more kinds of codec, with actions of
their own (`AdvanceTree`, `SkipTree`); the two modules are apart because the iterators of a TEB are
recursive, and `WordCodecs` is proved about. The run checks the larger one.

*TebIter.* The state of `teb_iter` is a record with the stack of nodes, the current top node
and the run. Paths are node numbers within a level, without the sentinel bit. `GoLeft`,
`Climb` and `nav_downwards` are the loops of the code, recursive here, which keeps them out of
modules with proofs.

*TebScan.* The state of `teb_scan_iter` is a record: `results`, `cnt` and `read` are the batch,
whose entries are written before it is known whether they count, and are never cleared; `path`
is the position in the three loops (`BitNode`, `PairNode`, `QuadNode`) and the path in the
traversal (`GoLeft`, `LeafVisit`, `GoRight`). The sizes 129, 64, 63, 31 and 15 are the constants
`BatchSize`, `Spare` and `Round`. The words the loops buffer are left out: a round consumes
fewer bits than they hold. `overrun` says that the assertion `pos < n` failed.

*TebWords.* Words are sets of bit positions; `Shl`, `Shr` and `Ones(k)` are `<<`,
`>>` and `(1 << k) - 1`. Beside the words runs the array `bits` of `BitArray`, and
the invariants say that the two agree; this is what allows `TebFlat` to use the
arrays. The deltas the code adds to the rank table are kept per word (`InsertGain`,
`RemoveGain`) and summed by block (`LutAfter`).

*RunIter, RunOps.* A run iterator is a record with the bits below, `pos`, `length`
and the *cuts*, the places where a run comes in pieces: the iterators of a plain
bitmap give maximal runs (no cuts), those of trees and partitions may cut anywhere
between two 1-bits. `RunOps` has one action per operation, a round of its loop; a
call of `next` or `skip_to` sets `pc` to "loop", and the rounds follow until the call
returns. `seen` is how far the client has read, which the properties refer to. The
second iterator of `xor_re` holds at least the bits of the first, as its comment
("Applicable only in case of range encoding") asks.

*Part.* A partition is a record of the 1-bits of its bitmap and, in
`part_upforward`, of its diff; `is_value` is the tagged pointer of `part_run`. The
last partition has P bits like the others. The iterator (`cursor`) holds the nested
iterator of `RunIter`; a write closes it.

*Dispatch.* Per thread a program counter with three steps: `Size` reads the
counter and computes the batch size, `Claim` is the `fetch_add` with the exit
test, `Run` runs one task of the batch.

## 3. The runs

Passing runs:

| Run | Instance | Shows |
|---|---|---|
| `diff` | N = 3, clients with `set`, `update` or both, all four strategies | every interleaving of writes, merges and shrinks is a plain bitmap; without `update` the flag covers the diff and merge empties it |
| `teb` | N = 8, W = 4, all 256 bitmaps | any number of updates through a diff and prunes, up to the first fault of a prune: no fault of an update, consistent counters and offsets, each update writes its bit, a prune none; the scan iterator gives the bits wherever it can (below) |
| `tree_merge` | N = 32, W = 8, ten bitmaps, three positions written | updates and prunes of the TEB, then the tree opened, written and encoded again, over and over: a plain bitmap, a well-formed and pruned tree |
| `hybrid` | N = 16, W = 4, 24 bitmaps, two positions written, `set` and `update`, three strategies | diff over a real TEB, all calls, merges by the scan iterator and through the tree, prunes: each step is a step of `Diff` but a merge that meets runs counted twice; any other TEB is read right by both merges that scan; free bits, counters and level offsets are those of one tree |
| `teb_words` | three words of five bits, blocks of two words | all 32768 contents, every insertion, removal, flip and word move |
| `run_ops` | all pairs of 5-bit bitmaps with all cuts, four operations | the pointwise operation, nothing lost, calls return |
| `part` | 5 bits in partitions of two, three kinds | a plain bitmap; the iterator misses nothing |
| `codecs` | N = 13, up to three runs of 1-bits, words of three to five bits, eight codecs; TEBs of 16 leaves, fresh or updated and pruned, with two iterators | encoding keeps every bit; `test` and any mix of `next` and `skip_to` find them |
| `dispatch` | 41 tasks, 2 threads | each task once; termination |

Runs that TLC is expected to violate, each a disagreement between the code and
what its comments, assertions or tests say (quoted in `PROJECT.json`, findings):

| Run | What happens |
|---|---|
| `teb_direct` | a run-breaking update answers 1 and other bits have changed |
| `run_ops_and_skip` | `skip_to` of a conjunction loses the overlap it lands on |
| `part_run_set` | a write to a single-valued partition is lost |

More disagreements are consequences of the modelled code and have no run of
their own:

* `update()` flips a bit of the diff and does not raise the flag that `merge()` looks at, so
  that `merge()` returns at once and leaves the bit there; its comment says "Apply the pending
  updates and clear the diff." (diff.hpp:140). Reads stay right. `MergeClearsSetDiff` says for
  which clients the comment holds, and is violated without its condition on `client`;
* after a tree merge `size()` is the length rounded up to a power of two, not "the
  length of the original bitmap" (diff.hpp:52; `TypeOK` of `Diff` allows both);
* `prune()` of a TEB whose tree is only counted inserts through the null pointer of
  an empty T (teb_flat.hpp:1545), the fault "null" in `teb`'s behaviours;
* `prune()` of a TEB without a 1-bit subtracts one from a label count of zero
  (teb_flat.hpp:1325) and its counters wrap, so that the assertion at
  teb_flat.hpp:1740 would not hold;
* a write to a single-valued partition of `part_run` leaves a bitmap of n_ bits in
  the partition, whose runs reach into the next one when n_ > P + 1;
* with `Mode = "hybrid_plus"` (the two-run option of `diff::update`) `Teb` violates
  `UpdateChangesOneBit` as it does with "direct";
* an insertion that ends with the last word writes the word behind the labels
  (teb_flat.hpp:816), the fault "past_end" in `teb`'s behaviours;
* a direct update that is declined answers 2, which
  `experiments/prune/update_test.cpp:28` reads as success;
* `prune_tree` breaks off early (bitmap_tree.hpp:315), so that sibling leaves with
  the same label remain, which its comment excludes (bitmap_tree.hpp:240);
* nothing lowers `has_pending_updates_`, so that every merge after the first `set`
  rebuilds the bitmap, though the flag is there to avoid that (diff.hpp:31);
* the constructor of the mutable tree asserts that the TEB has an inner node that is only
  counted (mutable_bitmap_tree.hpp:58); a TEB that is one leaf cannot be merged through the
  tree. The first stored node is taken for a leaf and its bit in T only compared in an
  assertion; after the updates that `teb_direct` shows to be wrong it may be an inner node;
* the loop of `teb_scan_iter` for two imperfect levels adds the length of a run to the number of
  results (teb_scan_iter.hpp:514) where the loop for one adds 1. Two 1-bits below a node, which
  the builder never leaves but updates in place do, bring an entry with them that was not
  written for them: an empty run at 0, or what a former batch left there, which may be a run of
  0-bits it had dropped. "Forwards the iterator to the next 1-fill (if any)."
  (teb_scan_iter.hpp:175) does not hold, and a merge that reads such a TEB may be wrong, though
  its comment says "The bitmap is decompressed, the diff is applied on the decompressed bitmap."
  (merge.hpp:15): `merge_naive` may set bits that were 0, and `merge_naive_iter` may in addition lose 1-bits, since an
  empty run ends its exclusive or wherever the two iterators are (bitwise_operations.hpp:344).
  `ScanGivesBits` says in both directions for which TEBs this happens (`CountsTwice`), `ScanRight` that
  merges are right for all others, and `ImplementsDiff` makes these merges its one exception
  (`MisreadMerge`). Behaviours of `hybrid` have merges that set bits, and merges that lose bits, after an
  update in place has set position 5;
* the loops for one and two imperfect levels end where the position equals the length, in steps
  of two and four bits (teb_scan_iter.hpp:426, 541); other lengths fail the assertion
  `pos < n`, and without assertions the loop does not end. `Codecs` has such a length, and
  `TreeRunIsNext` allows for it there (`ScanLost`);
* `test()` of concise repeats the dirty bit of a fill in every block of the fill
  (concise.hpp:415), though it says "Returns the value of the bit at the position pos."
  (concise.hpp:389); the iterator has the bit once. `TestAgrees` states exactly where `test`
  is wrong (`RepeatedDirty`), which a run of the plain property would find at once;
* `compress()` of concise asks whether a word is all zeros and all ones at the same time
  (concise.hpp:201), so that a full literal behind a 0-fill reaches the assertion
  `is_literal_word(w_prev)`; without assertions it leaves that word alone if the payload read
  from the fill has more than one 1-bit, which `Concise` takes for granted. Nothing keeps a
  fill from counting past its bits but an assertion;
* `to_plain_bitmap()` of concise counts the repetitions of a fill from one, the encoder from
  zero, and it forgets dirty bits (concise.hpp:364);
* a fill of exactly 2^28 bytes, the maximum bbc allows (bbc.hpp:30), is written with five
  bytes of length, of which the decoder reads four (bbc.hpp:308). The properties of `WordCodecs`
  leave out such bitmaps (`Lossy`).

The findings divide the update paths clearly: updates of bits with a leaf of their
own, through a diff (`teb`), are sound; run-breaking updates are not, and
`prune()` is up to the faults above.

### Bounds, and why they suffice

* *Diff*: the actions treat positions alike and touch one at a time (merge all of
  them alike), so three positions hold every relation of a written, an untouched
  and a pending bit; N = 3 is not a power of two, so lengths are rounded. The
  proofs lift the bound.
* *TEB*: with 8 bits there are four levels, trees with every mixture of perfect,
  pruned and lowest levels, leading and trailing nodes and labels on both sides.
  W = 4 makes T and L up to two words long, so that words are crossed and free bits
  run out within the instance, as they do with 64 bits in large bitmaps. Lengths that are
  rounded up are in `codecs` (13 bits, 16 leaves). All contents are built, so no shape of these sizes is missed.
  `teb_direct` takes W = 16 to leave free bits in T, and the contents whose TEB has
  words of both kinds. `hybrid` multiplies the TEBs by the diffs and the merges. Its TEBs of 16 bits have
  from none to four imperfect levels, so that every loop and the traversal of the scan iterator read them for a
  merge; with two imperfect levels there are several nodes to read, so that what is read twice may be
  bits of another node. The bitmaps put up to one bit into each of the first two groups of four beside a full
  group and an empty one, and add the extremes; writes at 1 and 5 make pairs of 1-bits in either group
  or both, are declined for want of a leaf, or of free bits, and go to a diff of up to two bits.
* *Words*: W = 5 is the least word in which an insertion of up to two bits (more
  than that is only inserted at the front) can lie in the middle, spill, or end
  with the word; three words and blocks of two give a block of two words and a short
  last one.
* *Tree merge*: below the perfect levels of a TEB of 32 bits there are up to three levels
  that may collapse and one that may not (the level the code marks "unclear"), so that a
  collapse goes on over several levels, stops at a sibling, and stops at the limit. The
  ten contents are one run with ends on and off subtree boundaries, and one with bits spread
  so that upper levels are perfect; writes at 0, 1 and 9 share a parent, a subtree, or
  only the root.
* *Codecs*: a literal has three or four bits and a fill of xah up to three repetitions, one of
  uah up to seven bits, so that in 13 bits words fill up, overflow into a second fill, and end
  with a partial literal. bah has three-bit words, two-word segments, and a table with a one-byte
  and four two-byte codes; bbc three-bit bytes, and lengths of two binary digits. Index entries
  stand at every second word. Three 1-runs give every neighbourhood of kinds of words; the TEBs
  that are updated start from at most one. The choice of `teb_iter` between climbing and starting
  at the root weighs costs (a factor of 8); with the true factor four levels never make climbing
  cheaper, so `UpCost` is 0 and climbing is taken wherever it can be. This changes which of the
  two ways is taken, never where either leads. Batches have six entries and rounds one to three
  nodes, so that in 8 bits (`teb`: all three loops) and in 13 (`codecs`: the traversal) runs go on
  in a second batch. 13 bits end with a 0-leaf, so the entry the traversal reserves for the end
  is never the one it needs.
* *RunOps*: two runs of different lengths per bitmap, touching, overlapping, nested or
  cut, and a 0 at either end fit into five bits. Every operation compares two runs and
  looks at nothing else.
* *Part*: with partitions of two bits each partition is empty, full, or mixed; three of
  them, the last one bit short, give runs across partitions and skips over one. Writes of
  `part_run` are in the run `part_run_set` only.
* *Dispatch*: 41 is the least number of tasks for two threads with a batch size of
  two, so that claims overshoot the end. The proof lifts the bound.

Deadlock is checked where the system can always go on. Runs of `Teb`,
`TreePrune` and `HybridPrune` say `CHECK_DEADLOCK FALSE`: a step that leaves a fault ends the
behaviour. So does `codecs`: a reader at its end has nothing left to call.

### Fairness

`Dispatch` states weak fairness of each thread's steps, for the termination of
`dispatch`; `RunOps` weak fairness of `Round`, for the return of every call: a call in
its loop goes on running. The threads are operating system threads that
never block within `dispatch()`; tasks are functions that return, and
`run_in_parallel` joins all threads. The bitmaps are passive objects: nothing obliges
a client to call them, and no other liveness is claimed.

### Mutants

For every property of every passing run `PROJECT.json` names a mutant, a plausible
slip in the mapped code that the run finds: a flag raised too late, a count not
adjusted, a mask one bit short, an off-by-one in a cost. The mutant operators stand
before the definitions they change.

## 4. The proofs

What is proved holds for every value of the constants that the named assumptions of the
modules allow. Each theorem of an invariant has the same three steps: the inductive invariant
holds at the start, every action keeps it (a lemma for each action), and it implies what the
theorem states. TLC checked each of these invariants on the instance of the run before.

The installed provers cannot instantiate a theorem that takes an operator, such as an
induction principle. `NatLemmas` has the form that serves instead: a set of naturals that is
not empty has a least element (`LeastNatural`, from the well-foundedness of <). A proof takes
the least counterexample. That 2^k is positive follows from counting subsets; `BlockOf`,
`PlaceInBlock` and `BeforeBlock` are division with remainder, in the form in which words,
blocks and partitions use it.

`DiffProofs` (every length N, every set of interfaces and strategies):

* `TypeCorrect`: the type invariant.
* `PendingCovers`: for a client without `update()`, a non-empty diff has its flag raised. Inductive as it stands: the flag is raised by the only action that sets diff
  bits and never lowered.
* `MergeClears`: hence every merge of such a client empties the diff. The condition is
  necessary: a client of `update()` leaves bits in the diff that merge() does not see.
* `Refinement`: `Spec => Bitmap!Spec`, with the XOR of bitmap and diff for the content.
  Each step is mapped: a set or update to a write of that bit, whichever of the two
  bitmaps takes it; merge and shrink to maintenance. It needs the type invariant only: XOR
  with FALSE after a merge is the merged bit, and a flip of either bitmap flips the view.

`DispatchProofs` (every task count and finite set of threads):

* `TasksOnce`: no task is lost or run twice. `EachTaskOnce` says of every task whether it
  is run, waiting in the batch of exactly one thread, or not yet claimed, according to the
  side of the counter it is on. It is not inductive alone: it needs `Types`, in which the
  size of a batch is any natural number and the batch of a thread is empty unless the
  thread is running it, so that a claim overwrites nothing. That the size was computed
  from a stale counter does not matter: the claim starts at the counter's value at the claim.
* `TypeCorrect`: the type invariant with the bound on the counter, which passes the last task
  by at most one batch for each thread. `Overshoot` is the invariant: behind the last task,
  each step of the counter belongs to a thread that is done, since a thread that claims
  nothing leaves, and no batch is larger than the cap (`Batches`).

`RunOpsProofs` (every length, every set of operations, all bitmaps and cuts):

* `TypeCorrect`: the type invariant.
* `HoldsTheRest` (`NothingLost`): when a round begins, what the iterators still hold and what
  has been read of the run make up the rest of the result. This is the loop invariant that
  the code nowhere states. It is proved for each branch of the loops from lemmas about the
  result bit by bit (`Gives`, `EmitAKeeps`, `EmitBKeeps`): the run that is emitted begins with
  the first 1-bit of the result that was not read, and the iterator that is moved gives up no
  bit that can still count.
* `GivesNextRun` (`RunIsNext`): hence a call that returns stands on the next run of the result,
  and at the end only when none is left.

The last two assume `"and" \notin Skipped`, a client that does not skip a conjunction, as in
the run `run_ops`. The assumption is needed: `run_ops_and_skip` is the counterexample without it.
The iterators beneath are those of `RunIter`, with cuts anywhere; `ForwardToStands` in `NatLemmas` states
what their `next` and `skip_to` find, for `RunOps` and `Part` alike.

`PartProofs` (every length, every partition size, every kind that is not written to as a
value):

* `TypeCorrect`, `GivesNextRun` (`RunIsNext`): with the inductive invariant `IInv`. It says that
  partitions hold no bit behind the end, that the cursor stands on a 1-bit of its partition
  with the nested iterator where it should be (`Stood`), and that no 1-bit lies between what the
  client has seen and the cursor (`FirstFrom`). The hard step is a skip into another
  partition (`SkipToStands`): the partitions between are passed over, and the nested iterator
  of the last is opened and skipped in turn.
* `Refinement`: `Spec => Bitmap!Spec`, with `test` for the content. A write changes its bit and
  no other (`SetWrites`), forwarded to a diff, in place, or by recompressing the partition; a
  merge changes none (`MergeKeeps`).

They assume `"run" \notin Written`, as in the run `part`: `part_run_set` shows that a write to a
single-valued partition of `part_run` is lost.

`TebWordsProofs` (every word length, number of words, and block size; no further assumption):

* `WordsHold` (`WordsHoldBits`): the words hold the array. `Holds`, which adds the types, is
  inductive; the work is in `InsertHolds` and `RemoveHolds`, which follow each bit through the
  shifts of the first, second and further words, spilling or not, and the masks of the last.
* `RankLutExact` (`RankLutIsExact`): the table is never recomputed and stays exact. The argument
  has three parts. What a word gains by an operation is what the code computes from the old
  words before it shifts them (`InsertGainIsExact`, `RemoveGainIsExact`): both are counts of
  ranges of the array, and ranges that are moved count the same (`CountMoved`, by a bijection).
  A sum over words is what the words gain together (`GainsSumUp`): `SumIs` identifies the fold
  with any function of the subsets that grows with each element by its gain, as
  counting the 1-bits in a set of words does. And an entry of the table counts the words before
  its block (`LutHolds`).
* `TypeCorrect`: the type invariant; an entry is a count of bits.

`TreeProofs` (every length N and word length W, every tree; the modules below reach no
recursive operator). Writes to the mutable tree first:

* `ToggleFlipsOneBit`, `SetWritesOneBit`: a toggle flips its bit and no other, `set` writes it.
  The tree stays a tree (`IsTree`) and its skipped levels stay perfect (`SkippedArePerfect`). The
  proof reads a tree as one number for each slot, the level where its path ends in a
  leaf (`Ends`). Paths of two slots that part never meet again (`PathsPart`), so that what
  `Expand` opens and `Collapse` joins on one path is seen from the others only
  through the siblings, which are given the label of the leaf they come from
  (`ExpandKeeps`), or have the same label as the node joined to them (`CollapseKeeps`).
  That the hypotheses hold in every state is `TreeTypeCorrect` and `SkippedStay` below.
* `MergeFlipsTheDiff`: hence `merge_tree`, a toggle for each bit of the diff, gives the XOR.
* `OpenGivesTree`: the constructor from a TEB gives a tree whose skipped levels are perfect,
  if the implicit inner nodes are inner nodes and T marks no node of the last level. The
  bits of T may be any other: what is not below an inner node is passed over.

Then the way into a TEB and back:

* `EncodingKeepsBits`: `test()` of the TEB made from a tree answers as the tree does, at every
  position. A TEB numbers the active nodes in level order, so that the number of a node is its
  `Rank`: how many active nodes come before it. `Encodes` says what T, `rank_inclusive` and the
  labels answer when they are asked through ranks, and has two halves. That the stored
  bits answer so, with the leading inner nodes, trailing leaves and 0-labels only counted, is
  `TreeBitsAnswer` and `LabelBitsAnswer`. That the walk of `test()` finds the leaf by them is
  `EncodedWalk` and `EncodedTest`: the children of the k-th inner node are the active nodes
  number 2k-1 and 2k (`RankOfChild`), which is the arithmetic the whole encoding is built on.
* `BuildingKeepsBits`: what is serialized decodes to the bitmap, with whatever `prune_tree` joins
  or, where it breaks off early, does not: the pruned tree is a tree with the same bits
  (`PrunedIsTree`, `PrunedLabels`).
* `OpeningKeepsBits`: the constructor of the mutable tree reads a tree back that has the bits
  of the TEB, node by node (`ReadNext`, `ReadsBack`): after each node it has read what is
  above it, and has passed over as many bits of T and L as there are stored nodes and labels.
* `TreeMergeIsXor`, `BuiltMergeIsXor`: opening a TEB, toggling and encoding again gives the XOR of
  TEB and diff. A TEB that is a single leaf is excepted, as in the code, which asserts that
  there is an inner node that is only counted. That the first stored node is a leaf, which the
  constructor takes for granted, is proved of encoded trees (`ToTebOpens`).

Then updates in place, and the whole:

* `UpdateFlipsOneBit`: `update()` as `diff` calls it answers 0 and leaves the TEB alone where the
  reader sees the value already, 1 with its bit flipped and all others as they were, or 2 with the
  TEB as it was. `InOrder` is what it needs and keeps: the TEB encodes some tree, its last
  level offset is the number of nodes above the last level, and L with its free bits fills
  whole words, with 0 in the free ones (`LabelsKept`). Leaves with numbers from that offset on are
  leaves of the lowest level (`OwnLeafIsLowest`), whose label stands for one bit. Labels that were
  only counted are stored first and answer as before (`MadeExplicit`, `PrependedLabels`).
* `HybridImplementsDiff`: for `HybridTeb`, `Spec /\ []ScanRight => ImplementsDiff`: each step is one of `Diff`, or
  a merge by the scan iterator of a TEB in which runs are counted twice (`MisreadMerge`). `ScanRight` is what
  the proof takes from the iterators, which are a parameter of the module: that they give the
  other TEBs right. It is not proved, because they are recursive; `hybrid` checks it in every state,
  with the iterators of the code. The inductive invariant `HybridInv`
  says that the TEB is in order for some tree with perfect skipped levels, that
  `content` is what it decodes to, and that less than a word of L is free. Encoded trees are in
  order (`ToTebInOrder`), so rebuilding, from whatever bits, and merging through the tree establish it
  (`MergeKeepsOrder`); updates keep it. So the invariants below need neither assumption nor exception.
* `TreeClientImplementsDiff`: a client that merges through the tree only has a `Diff` without exception
  (`Spec => Diff!Spec`), and nothing is assumed of iterators.
  With `Refinement` of `DiffProofs`, its TEB behind a diff behaves as a plain bitmap.
* `HybridHasNoFaults` (`NoFaults`): no update writes outside L or shifts by a word or more, because less than a
  word is free, and updates that need more are declined. So the clause that ends behaviours
  after a fault ends none in `HybridTeb`. After a prune more may be free, and `Teb` shows what
  happens then.
* `HybridTypeCorrect` (`TebTypeOK`), `HybridFreeBits` (`FreeBitsAreTheRest`), `HybridTreeIsFull`
  (`TreeIsFull`) and `HybridOffsets` (`OffsetsPointToLevels`): what a TEB counts stays what its tree
  and its arrays hold. All four follow from `InOrder` (`OrderedShape`): it says which
  active nodes T stores, the others being counted in front and behind, so that the counts of
  nodes add up (`NodesParted`, `NodeCounts`); it says of the offsets that they are ranks, and
  `LevelBegins` shows, by the first level where it would fail, that counting the children of the
  inner nodes, as `OffsetsPointToLevels` does from T alone, gives the same ranks
  (`CountByRank`). A 1-bit is read from L, so L is not empty when there is one (`OneIsStored`).
  `HybridPrune` and `Teb` check these invariants with prunes between the updates as well.

For a tree that is opened and written to, call by call:

* `TreeTypeCorrect` (`TypeOK`), `FirstLeafStays`
  (`FirstExplicitIsLeaf`), `SkippedStay` (`SkippedLevelsStay`), `WritesPrune` (`PathIsPruned`) and
  `TreeMergeImplementsBitmap` (`ImplementsBitmap`), for `TreeMerge`: the same in whatever order a
  client opens, writes, closes and updates. The invariant `TreeInv` says that the TEB is
  in order (`InOrder`) and, while it is open, that the tree is one with perfect skipped levels
  and holds `content`. That the first stored node is a leaf needs the whole of it: nothing in the TEB
  alone says so, the builder stores from the first leaf on and every update keeps that.
* `TreeKeepsShape`: the four invariants above, and no faults, for this client too.

For a TEB on its own, updated through a diff and neither merged nor pruned (`TebAlone`):

* `AloneKeepsBits` (`BuildKeepsBits`), `AloneChangesOneBit` (`UpdateChangesOneBit`), and
  `AloneKeepsShape`, the four invariants and no faults once more. `teb_direct` is the
  counterexample to the second for a client whose updates break runs.

`CodecProofs` (every length, every word size from three bits on, every skip distance, bitmaps
with any number of runs; xah, uah, their skip variants and concise):

* `NoBitLost` (`WordsHoldBits`): what is appended run by run, or 1-bit by 1-bit, is in the words. The
  invariant of a constructor's loop (`Kept`, and `KeptTo` for concise) says that the words so far
  begin at places that add up their sizes and hold the bits appended so far, none behind them
  (`HoldUpTo`), that a last literal which still has room is a literal, with as much room as the code
  counts, and that every word is within its fields. Each case of the append functions keeps it:
  a fill that is extended (`GrowFill`), a literal that takes part of a run (`GrowLiteral`) and
  becomes a fill when it is full of one kind, a short fill of uah that is turned into a literal,
  what is left as a row of fills, and the words of concise that swallow the literal
  before them. An induction over the runs, by the least run where it would fail, ends it
  (`XahSound`, `UahSound`, `ConciseSound`). xah turns a literal that has filled up with equal bits
  into a fill of as many repetitions as the literal has bits, which would be a wrong count: the
  proof shows that it never does, since the literal begins with bits of another run
  (`MixedLiteral`, `XahFillUp`).
* `WordsWithinBits` (`TypeOK`): hence no count exceeds its field, no bit is outside the payload.
* `TestRightEverywhere` (`TestAgrees`): `test()` finds each bit, from the first word or from the word
  its index names. The last entry that is not behind the position is one of a word that is not
  behind it either, and from there the words are passed over as from the first one. For concise it is
  proved where `test()` is right and that it is wrong in the repeated blocks.
* `NoRunLost` (`RunIsNext`): iterators moved by `next()` and `skip_to()` in any order lose no run and
  give none twice. `ReaderInv` is the invariant: an iterator stands behind the run it
  gives, at the right bit of its word (`Standing`), and that run is the first one that the client has
  not passed (`FirstFrom`). A skip walks by `next()` as often as it takes, forward from where
  it stands or from the indexed word; that it gets there within N steps is part of the proof.

The invariants of the readers need of an encoder only that its words hold the bits
(`Encoders`, in `ReadersRight`). That is not proved of bah and bbc, whose encoders are left to the run.

Assumptions are the named ones in the modules (`DiffAssumption`, `HybridAssumption`, `DispatchAssumption`,
`RunOpsAssumption`, `PartAssumption`, `BitmapTreeAssumption`, `BitArrayAssumption`,
`CountersAssumption`, `TebWordsAssumption`, `TreeMergeAssumption`, `WordCodecsAssumption`): positive
lengths and sizes, a tree whose nodes a counter can count with a word to spare (2^32 in the code), words of two bits at least, subsets of the known interfaces, strategies,
operations and kinds, a natural number of tasks, a non-empty finite set of threads.

Only model-checked:

* liveness: `CallReturns` of `RunOps` and `AllTasksRun` of `Dispatch`, which are out of the
  prover's reach;
* `Teb`, `TreePrune`, `HybridPrune` and the trees of `Codecs`, that is, all clients that prune or
  iterate over a tree, with all their properties; `ScanGivesBits` of `Teb`, `ScanRight` of `HybridTeb`
  and `TreeRunIsNext` of `Codecs` are proved for no client as they stand. Their modules reach
  recursive operators (the traversal of `prune`, the navigation of `teb_iter`, the batches of
  `teb_scan_iter`), behind which the prover has no SMT. Of what they use, the operators
  of `MutableTree`, reading and building in `TebFlat` and the updates of a lowest leaf are
  proved about in `TreeProofs`; `prune`, `runbreaking_update` and the iterators of a TEB are
  not;
* bah and bbc: their encoders and streams.

## 5. Not modelled

Listed with reasons in `PROJECT.json`. In short:

* Of `teb_scan_iter`, the traversal compiled for AVX-512 (registers of 64 nodes), the traversals
  that nothing calls, and the way through `teb_iter` for a TEB without level offsets, which the
  builder always writes.
* `next_off()` and the `bench_` functions of `teb_iter`: unused, or for measurements.
* Word-level utilities (`bitmap_fun`, `bitmap_writer`, `bitmap_seq_reader`, `plain_bitmap`) other
  than the shifts, masks and counts in `TebWords`: sequential, with direct unit tests.
* Rank structures that are never updated in place.
* `teb_legacy.hpp`, which the current code supersedes; the size estimation, the other optimisation
  levels with their lossy compression, and `run_optimize` of `bitmap_tree`.
* `to_plain_bitmap()` of xah, uah, concise and bah, which only debugging code calls; generated BAH
  patterns.
* Printing, size reports, allocation, benchmark output; measurement programs and their database.
* Adapters of third-party bitmaps; vendored code (SQLite, Roaring, googletest), which is nearly all
  of the repository by lines.

In `TebFlat` the header layout in bytes is left out: fields are fields of a record.

## 6. Plan

1. `Bitmap`, `Diff`, their runs and proofs *(done)*.
2. The TEB: `BitmapTree`, `TebFlat`, `TebUpdate`, `TebPrune`, `TebAlone`, `Teb`, `HybridTeb`
   *(done)*.
3. `TebWords` below the arrays *(done)*; `Dispatch` with proofs *(done)*.
4. `RunIter`, `RunOps`: the bitwise operations *(done)*; `Part`: partitioned bitmaps *(done)*.
5. `MutableTree`, `TreeMerge`: the tree merge, also in `HybridTeb` *(done)*; `ScanMerge`: the merges that
   read the TEB by runs *(done)*.
6. `TebIter`, `TebScan`, `RunWords` and the codecs, `WordCodecs`, `Codecs` *(done)*.
7. Proofs: `Dispatch` with the counter's bound, `RunOps`, `Part` implements `Bitmap`, the words
   and the rank table, writes to the mutable tree, the round trip of a TEB, `HybridTeb` implements
   `Diff` (as far as its iterators are right) and keeps the invariants of a TEB, `TreeMerge`, `TebAlone`, the codecs xah, uah and concise and the
   readers of all words *(done)*. Left: one collapse of `prune` keeps the
   bits; the streams of bah and bbc.
