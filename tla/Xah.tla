-------------------------------- MODULE Xah --------------------------------
(***************************************************************************)
(* xah: words of W bits, one of which tells literals from fills.  A        *)
(* literal holds the other P bits as they are; a fill counts repetitions   *)
(* of P equal bits.                                                        *)
(***************************************************************************)
EXTENDS RunWords

CONSTANT W      \* word_bitlength

payload_bit_cnt      == W - 1
max_fill_repetitions == 2^(W - 2) - 1

\* The encoded bitmap so far
Empty == [words |-> <<>>, length |-> 0, remaining |-> 0]

Size(w) == IF w.fill THEN w.cnt * payload_bit_cnt ELSE payload_bit_cnt

\* What is left of a run at the end: fills, then one literal
Rest(val, len) ==
  LET reps     == len \div payload_bit_cnt
      tail     == len % payload_bit_cnt
      fill_cnt == (reps + max_fill_repetitions - 1) \div max_fill_repetitions
      fills    == [k \in 1 .. fill_cnt |->
                     Fill(val, AtMost(max_fill_repetitions, reps - (k - 1) * max_fill_repetitions))]
  IN  IF tail = 0 THEN fills ELSE Append(fills, Literal(IF val THEN 0 .. tail - 1 ELSE {}))

AppendRest(e, val, len) ==
  LET words == Rest(val, len)
  IN  IF len = 0 THEN e
      ELSE [words     |-> e.words \o words,
            length    |-> e.length + len,
            remaining |-> IF Last(words).fill THEN e.remaining
                          ELSE payload_bit_cnt - (len % payload_bit_cnt)]

\* The first word: a fill of as many repetitions as it can count, or a literal
FirstWord(val, len) ==
  LET rep == AtMost(max_fill_repetitions, len \div payload_bit_cnt)
  IN  IF len >= payload_bit_cnt
        THEN [e |-> [words |-> <<Fill(val, rep)>>, length |-> rep * payload_bit_cnt,
                     remaining |-> 0],
              len |-> len - rep * payload_bit_cnt]
        ELSE [e |-> [words |-> <<Literal(IF val THEN 0 .. len - 1 ELSE {})>>, length |-> len,
                     remaining |-> payload_bit_cnt - len],
              len |-> 0]

\* A long run extends a fill of its kind.
ExtendFill(e, val, len) ==
  LET w   == Last(e.words)
      rep == AtMost(max_fill_repetitions - w.cnt, len \div payload_bit_cnt)
  IN  IF len >= payload_bit_cnt /\ w.fill /\ w.val = val
        THEN [e   |-> [e EXCEPT !.words = ReplaceLast(@, Fill(val, w.cnt + rep)),
                                !.length = @ + rep * payload_bit_cnt],
              len |-> len - rep * payload_bit_cnt]
        ELSE [e |-> e, len |-> len]

\* Mutant of Closed: a literal of zeros and ones is taken for a fill of ones.
ClosedOnTop(ones) ==
  IF payload_bit_cnt - 1 \in ones THEN Fill(TRUE, payload_bit_cnt)
  ELSE IF ones = {} THEN Fill(FALSE, payload_bit_cnt)
  ELSE Literal(ones)

\* A literal that has filled up with equal bits becomes a fill, of
\* payload_bit_cnt repetitions.
Closed(ones) ==
  IF ones = 0 .. payload_bit_cnt - 1 THEN Fill(TRUE, payload_bit_cnt)
  ELSE IF ones = {} THEN Fill(FALSE, payload_bit_cnt)
  ELSE Literal(ones)

\* The run goes on in the room that the last literal has.
FillUpLiteral(e, val, len) ==
  LET w     == Last(e.words)
      cnt   == AtMost(e.remaining, len)
      begin == payload_bit_cnt - e.remaining
      ones  == w.ones \cup (IF val THEN begin .. begin + cnt - 1 ELSE {})
  IN  IF ~w.fill /\ e.remaining > 0
        THEN [e   |-> [words     |-> ReplaceLast(e.words, IF cnt = e.remaining THEN Closed(ones)
                                                          ELSE Literal(ones)),
                       length    |-> e.length + cnt,
                       remaining |-> e.remaining - cnt],
              len |-> len - cnt]
        ELSE [e |-> e, len |-> len]

append_run(e, run) ==
  LET s0 == IF e.words = <<>> THEN FirstWord(run.val, run.len) ELSE [e |-> e, len |-> run.len]
      s1 == IF s0.len = 0 THEN s0 ELSE ExtendFill(s0.e, run.val, s0.len)
      s2 == IF s1.len = 0 THEN s1 ELSE FillUpLiteral(s1.e, run.val, s1.len)
  IN  AppendRest(s2.e, run.val, s2.len)

encode(bits) ==
  LET runs == RunsOf(bits)
      after[k \in 0 .. Len(runs)] == IF k = 0 THEN Empty ELSE append_run(after[k - 1], runs[k])
  IN  after[Len(runs)]

\* The words are within what their bits can count.
WordOK(w) ==
  IF w.fill THEN w.cnt \in 1 .. max_fill_repetitions ELSE w.ones \subseteq 0 .. payload_bit_cnt - 1

View(words) ==
  [k \in DOMAIN words |->
     [size |-> Size(words[k]),
      ones |-> IF ~words[k].fill THEN words[k].ones
               ELSE IF words[k].val THEN 0 .. Size(words[k]) - 1 ELSE {}]]
=============================================================================
