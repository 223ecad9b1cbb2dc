------------------------------- MODULE DataFlow -------------------------------
(***************************************************************************)
(* What DataProto and the dispatch of the workers do to the rows of a      *)
(* batch.  A batch is a sequence of rows; the columns of a row stay        *)
(* together in every operation, so that only the order of rows matters.    *)
(***************************************************************************)
EXTENDS Integers, Sequences, SequencesExt

CeilDiv(a, b) == (a + b - 1) \div b

\* DataProto.repeat with interleave=True: the copies of a row are neighbours.
Repeat(rows, n) ==
  [i \in 1..(n * Len(rows)) |-> rows[(i - 1) \div n + 1]]

PadSize(length, divisor) ==
  IF length % divisor = 0 THEN 0 ELSE divisor - (length % divisor)

\* pad_dataproto_to_divisor appends slices from the start of the batch, as
\* often as it takes.
Pad(rows, divisor) ==
  [i \in 1..(Len(rows) + PadSize(Len(rows), divisor)) |->
     rows[((i - 1) % Len(rows)) + 1]]

\* Mutant: the padding is taken off the front.
UnpadFront(rows, size) == SubSeq(rows, size + 1, Len(rows))

Unpad(rows, size) == SubSeq(rows, 1, Len(rows) - size)

\* Equal chunks; chunk() asserts that the length is a multiple.
Chunk(rows, chunks) ==
  LET size == Len(rows) \div chunks IN
  [k \in 1..chunks |-> SubSeq(rows, (k - 1) * size + 1, k * size)]

\* DataProto.split: the last part may be shorter.
Split(rows, size) ==
  [k \in 1..CeilDiv(Len(rows), size) |->
     SubSeq(rows, (k - 1) * size + 1,
            IF k * size < Len(rows) THEN k * size ELSE Len(rows))]

Concat(parts) == FlattenSeq(parts)

=============================================================================
