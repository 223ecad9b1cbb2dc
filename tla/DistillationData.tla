--------------------------- MODULE DistillationData ---------------------------
(***************************************************************************)
(* What the dataset, the collator and the loss of the distillation stage   *)
(* (watermark_kd_ray) make of one sample: which token predictions count,   *)
(* which per-token label each of them gets, and which loss terms it feeds. *)
(*                                                                         *)
(* A sample has an actor prompt, a reference prompt and one response, of   *)
(* which only the lengths matter.  Token n >= 0 of the response is named   *)
(* by its offset n, the last token of the prompt by -1, and so on down.    *)
(* Positions in a sequence start at 0, as in the code.  Padding is left    *)
(* out: its loss mask is 0, so no position of it is ever selected.         *)
(***************************************************************************)
EXTENDS Integers, Sequences

CONSTANTS
  MaxLength,   \* data.max_length
  Truncation   \* data.truncation

ASSUME LengthAssumption == MaxLength \in Nat \ {0}
ASSUME TruncationAssumption == Truncation \in {"left", "right", "error"}

Tasks == {"green", "initials", "neg", "acrostics"}

\* The weighted terms of the loss.  A forward and a reverse divergence are
\* routed alike and share a name.  "cleanpos" is the clean-reference term
\* of the positions of a green sample that carry no green token.
Terms == {"ce", "green", "biased", "clean", "cleanpos", "self"}

Lesser(a, b) == IF a < b THEN a ELSE b
Greater(a, b) == IF a > b THEN a ELSE b

-----------------------------------------------------------------------------
(***************************************************************************)
(* Tokenisation: P tokens of prompt, R of response (the last one is eos)   *)
(***************************************************************************)

SeqLen(P, R) == Lesser(P + R, MaxLength)
Dropped(P, R) == P + R - SeqLen(P, R)

TooLong(P, R) == P + R > MaxLength /\ Truncation = "error"

\* The token at each position of input_ids, as an offset.
TokenAt(P, R) ==
  [p \in 0..(SeqLen(P, R) - 1) |->
     p - P + IF Truncation = "left" THEN Dropped(P, R) ELSE 0]

\* The positions whose loss mask is 1.  The prompt length is that before
\* the truncation.
LossMask(P, R) ==
  LET len == SeqLen(P, R) IN
  {p \in 0..(len - 1) : /\ P > 1 => p >= Lesser(P, len) - 1
                        /\ p /= Lesser(P + R, len) - 1}

\* The worker drops column 0 of the mask and of the token ids alike: the
\* logits of position p - 1 are scored against the token at position p.
Scored(P, R) == LossMask(P, R) \ {0}

\* Mutant: the labels are not moved with a prompt that is cut at the left.
LiftNotMoved(labels, P, R) ==
  [p \in 0..(SeqLen(P, R) - 1) |->
     IF p >= P /\ p - P < Len(labels) THEN labels[p - P + 1] ELSE -1]

\* A list with one label per response token, put at the positions of these
\* tokens; -1 where there is no label.
Lift(labels, P, R) ==
  LET len    == SeqLen(P, R)
      drop   == P + R - len
      whole  == P + R <= len
      left   == ~whole /\ Truncation = "left"
      start  == IF left THEN Greater(0, P - drop) ELSE P
      offset == IF left THEN Greater(0, drop - P) ELSE 0
      kept   == IF whole THEN R
                ELSE IF left THEN R - offset
                ELSE Lesser(Greater(0, len - P), R)
  IN [p \in 0..(len - 1) |->
        LET step == offset + p - start IN
        IF p - start \in 0..(kept - 1) /\ step < Len(labels)
        THEN labels[step + 1]
        ELSE -1]

-----------------------------------------------------------------------------
(***************************************************************************)
(* Samples and the routing of their predictions                            *)
(*                                                                         *)
(* letters and active are the label columns of the training file, << >>    *)
(* where the file has no such column or no value; green is the set of      *)
(* tokens, by offset, that are in the green list of the sample.            *)
(***************************************************************************)

Scores(s) == Scored(s.prompt, s.response)
RefScores(s) == Scored(s.promptRef, s.response)
Target(s, p) == TokenAt(s.prompt, s.response)[p]
RefTarget(s, p) == TokenAt(s.promptRef, s.response)[p]
LetterAt(s, p) == Lift(s.letters, s.prompt, s.response)[p]
ActiveAt(s, p) == Lift(s.active, s.prompt, s.response)[p]

\* compute_initials_active_idx_response: entry t tells whether token t + 1
\* begins a word with a first letter.  words is a set of offsets, R the
\* length of the response with its eos, which is not passed to it.
ActiveLabels(words, R) ==
  [i \in 1..(R - 1) |-> IF i \in words /\ i < R - 1 THEN 0 ELSE -1]

GreenTarget(s, p) == Target(s, p) \in s.green

\* Whether the prediction of position p feeds a term of the loss when its
\* weight is positive; mode is green_active_mode.  The dataset gives
\* every row a tensor of active positions, all -1 where the file has no
\* such column: the path of loss.py for a batch without it is never taken.
Feeds(term, s, p, mode) ==
  CASE term = "ce"       -> TRUE
    [] term = "green"    -> s.task = "green"
    [] term = "biased"   -> \/ s.task = "green" /\ (mode = "none" \/ GreenTarget(s, p))
                            \/ s.task = "initials" /\ ActiveAt(s, p) >= 0
                            \/ s.task = "acrostics" /\ LetterAt(s, p) >= 0
    [] term = "clean"    -> s.task = "neg"
    [] term = "cleanpos" -> /\ s.task = "green"
                            /\ mode = "cleanref"
                            /\ ~GreenTarget(s, p)
    [] term = "self"     -> s.task = "green" /\ mode = "none"

\* The terms with a positive weight: the clean-reference weight also turns
\* on the clean term of green samples.
Weighted(weights) == weights \cup {t \in {"cleanpos"} : "clean" \in weights}

=============================================================================
