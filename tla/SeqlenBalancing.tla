---------------------------- MODULE SeqlenBalancing ----------------------------
(***************************************************************************)
(* utils/seqlen_balancing.py: cutting the rows of a mini-batch into        *)
(* micro-batches of like work (largest differencing method), and putting   *)
(* results back into the order of the rows.  Rows are numbered from 1.     *)
(*                                                                         *)
(* A part is a sequence of items <<index, value>>, a state of the method a *)
(* sequence of k parts in decreasing order.                                *)
(***************************************************************************)
EXTENDS Integers, Sequences, SequencesExt, FiniteSets

Ceil(a, b) == (a + b - 1) \div b
Indices(values) == 1..Len(values)

Total(numbers) == FoldLeft(LAMBDA a, b : a + b, 0, numbers)

\* How many entries sorted() puts before entry i: it is stable.
Earlier(list, Before(_, _), i) ==
  Cardinality({j \in Indices(list) : IF j < i THEN ~Before(list[i], list[j])
                                     ELSE Before(list[j], list[i])})

\* SubSeq makes a tuple of a function, whose entries TLC computes once.
Tuple(list) == SubSeq(list, 1, Len(list))

SortBy(list, Before(_, _)) ==
  LET entries == Tuple(list)
      earlier == Tuple([i \in Indices(list) |-> Earlier(entries, Before, i)])
  IN Tuple([n \in Indices(list) |-> entries[CHOOSE i \in Indices(list) : earlier[i] = n - 1]])

PartSum(part) == Total([j \in 1..Len(part) |-> part[j][2]])

\* Python's order of lists of pairs.
ItemBefore(a, b) == a[1] < b[1] \/ (a[1] = b[1] /\ a[2] < b[2])
ItemsBefore(p, q) ==
  \E n \in 0..(IF Len(p) < Len(q) THEN Len(p) ELSE Len(q)) :
    /\ \A k \in 1..n : p[k] = q[k]
    /\ \/ n = Len(p) /\ n < Len(q)
       \/ n < Len(p) /\ n < Len(q) /\ ItemBefore(p[n + 1], q[n + 1])

PartBefore(p, q) ==
  \/ PartSum(p) < PartSum(q)
  \/ PartSum(p) = PartSum(q) /\ Len(p) < Len(q)
  \/ PartSum(p) = PartSum(q) /\ Len(p) = Len(q) /\ ItemsBefore(p, q)

Decreasing(parts) == SortBy(parts, LAMBDA p, q : PartBefore(q, p))

Spread(state) == PartSum(state[1]) - PartSum(state[Len(state)])

\* The state the heap gives out first: largest spread, then largest part.
PoppedBefore(s, t) ==
  \/ Spread(s) > Spread(t)
  \/ Spread(s) = Spread(t) /\ PartBefore(t[1], s[1])

InitialState(items, k) ==
  Decreasing([i \in 1..k |-> IF i <= Len(items) THEN <<items[i]>> ELSE << >>])

\* The states the method starts from, one per row (equal_size is not used for
\* micro-batches), in whichever order the heap is filled.
InitialStates(values, k) == {InitialState(<< <<i, values[i]>> >>, k) : i \in Indices(values)}

\* The largest part of one with the smallest of the other.
Merge(s, t) == Decreasing([i \in 1..Len(s) |-> s[i] \o t[Len(t) + 1 - i]])

First(states) ==
  CHOOSE s \in states : \A t \in states \ {s} : PoppedBefore(s, t)

MergeFirst(states) ==
  LET s == First(states)
      t == First(states \ {s})
  IN (states \ {s, t}) \cup {Merge(s, t)}

\* Merge the two first states until one is left.
KarmarkarKarp(values, k) ==
  LET after[n \in 0..(Len(values) - 1)] ==
        IF n = 0 THEN InitialStates(values, k) ELSE MergeFirst(after[n - 1])
      final == CHOOSE s \in after[Len(values) - 1] : TRUE
  IN [m \in 1..k |-> [j \in 1..Len(final[m]) |-> final[m][j][1]]]

\* get_seqlen_balanced_partitions; its assertions are properties here.
BalancedPartitions(values, k) ==
  LET parts == KarmarkarKarp(values, k) IN
  [m \in 1..k |-> SortBy(parts[m], LAMBDA a, b : a < b)]

-----------------------------------------------------------------------------
(***************************************************************************)
(* Micro-batches                                                           *)
(***************************************************************************)

Workload(length) == 24576 * length + length * length

\* The number of micro-batches a rank needs for itself.
MicroBatchCount(lengths, maxTokens) ==
  LET needed == Ceil(Total(lengths), maxTokens) IN
  IF needed < Len(lengths) THEN needed ELSE Len(lengths)

\* Every other one in reverse, then the others: the small ones come first
\* and last.
SmallOnesOutside(parts) ==
  LET odd  == [i \in 1..Ceil(Len(parts), 2) |-> parts[2 * i - 1]]
      even == [i \in 1..(Len(parts) \div 2) |-> parts[2 * i]]
  IN Reverse(odd) \o even

\* The work of a part, and what part it is among parts of the same work.
Heavier(work, p, q) ==
  LET workOf(part) == Total([j \in 1..Len(part) |-> work[part[j]]])
      first(part) == IF part = << >> THEN 0 ELSE part[1]
  IN workOf(p) > workOf(q) \/ (workOf(p) = workOf(q) /\ first(p) > first(q))

\* rearrange_micro_batches, given the number of micro-batches.
RearrangeMicroBatches(lengths, k) ==
  LET work == [i \in Indices(lengths) |-> Workload(lengths[i])]
      parts == BalancedPartitions(work, k)
  IN SmallOnesOutside(SortBy(parts, LAMBDA p, q : Heavier(work, p, q)))

\* get_reverse_idx: where in the concatenated micro-batches each row is.
ReverseIndex(order) == [row \in Indices(order) |-> CHOOSE i \in Indices(order) : order[i] = row]

\* Mutant: the order of the rows is used as its own inverse.
RestoreForward(results, parts) ==
  LET order == FlattenSeq(parts) IN [row \in Indices(order) |-> results[order[row]]]

\* restore_dynamic_batch.
Restore(results, parts) ==
  LET place == ReverseIndex(FlattenSeq(parts)) IN
  [row \in DOMAIN place |-> results[place[row]]]

=============================================================================
