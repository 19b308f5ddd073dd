-------------------------------- MODULE Uah --------------------------------
(***************************************************************************)
(* uah: as xah, but a fill counts single bits, so that a run of any length *)
(* is a fill at first; a fill shorter than a literal is turned into one    *)
(* when a run of the other kind follows.                                   *)
(***************************************************************************)
EXTENDS RunWords

CONSTANT W      \* word_bitlength

payload_bit_cnt == W - 1
max_fill_length == 2^(W - 2) - 1

\* init(): a fill of no bits, of the kind of the first run
init(val) == [words |-> <<Fill(val, 0)>>, length |-> 0, remaining |-> 0]

\* Fills for what is left of a run; a literal before them is not added to.
AppendRest(e, val, len) ==
  LET fill_cnt == (len + max_fill_length - 1) \div max_fill_length
      fills    == [k \in 1 .. fill_cnt |->
                     Fill(val, AtMost(max_fill_length, len - (k - 1) * max_fill_length))]
  IN  [words |-> e.words \o fills, length |-> e.length + len, remaining |-> 0]

ExtendFill(e, val, len) ==
  LET w   == Last(e.words)
      cnt == AtMost(max_fill_length - w.cnt, len)
  IN  [e   |-> [e EXCEPT !.words = ReplaceLast(@, Fill(val, w.cnt + cnt)), !.length = @ + cnt],
       len |-> len - cnt]

\* Mutant of Fill2Literal: the new bits begin at the front.
Fill2LiteralFromFront(e, val, len) ==
  LET w    == Last(e.words)
      cnt  == AtMost(payload_bit_cnt - w.cnt, len)
  IN  [e   |-> [words     |-> ReplaceLast(e.words, Literal(0 .. (IF val THEN cnt ELSE w.cnt) - 1)),
                length    |-> e.length + cnt,
                remaining |-> payload_bit_cnt - w.cnt - cnt],
       len |-> len - cnt]

\* A short fill and the first bits of the run behind it share a literal.
Fill2Literal(e, val, len) ==
  LET w    == Last(e.words)
      cnt  == AtMost(payload_bit_cnt - w.cnt, len)
      ones == IF val THEN w.cnt .. w.cnt + cnt - 1 ELSE 0 .. w.cnt - 1
  IN  [e   |-> [words     |-> ReplaceLast(e.words, Literal(ones)),
                length    |-> e.length + cnt,
                remaining |-> payload_bit_cnt - w.cnt - cnt],
       len |-> len - cnt]

FillUpLiteral(e, val, len) ==
  LET cnt   == AtMost(e.remaining, len)
      begin == payload_bit_cnt - e.remaining
      ones  == Last(e.words).ones \cup (IF val THEN begin .. begin + cnt - 1 ELSE {})
  IN  [e   |-> [words     |-> ReplaceLast(e.words, Literal(ones)),
                length    |-> e.length + cnt,
                remaining |-> e.remaining - cnt],
       len |-> len - cnt]

append_run(e, run) ==
  LET w == Last(e.words)
      s == IF w.fill /\ w.val = run.val THEN ExtendFill(e, run.val, run.len)
           ELSE IF w.fill /\ w.cnt < payload_bit_cnt THEN Fill2Literal(e, run.val, run.len)
           ELSE IF ~w.fill /\ e.remaining > 0 THEN FillUpLiteral(e, run.val, run.len)
           ELSE [e |-> e, len |-> run.len]
  IN  IF s.len = 0 THEN s.e ELSE AppendRest(s.e, run.val, s.len)

encode(bits) ==
  LET runs == RunsOf(bits)
      after[k \in 0 .. Len(runs)] ==
        IF k = 0 THEN init(bits[0]) ELSE append_run(after[k - 1], runs[k])
  IN  after[Len(runs)]

WordOK(w) ==
  IF w.fill THEN w.cnt \in 1 .. max_fill_length ELSE w.ones \subseteq 0 .. payload_bit_cnt - 1

View(words) ==
  [k \in DOMAIN words |->
     LET w == words[k] IN
     IF w.fill THEN [size |-> w.cnt, ones |-> IF w.val THEN 0 .. w.cnt - 1 ELSE {}]
     ELSE [size |-> payload_bit_cnt, ones |-> w.ones]]
=============================================================================
