--------------------------- MODULE AcrosticController ---------------------------
(***************************************************************************)
(* One request of the sentence acrostic teacher: the sampler appends       *)
(* tokens to the response, and before each of them AcrosticBiasController  *)
(* absorbs what is new, decides which letter of the secret to favour, and  *)
(* gives up on a letter that does not come.  Later the finished response   *)
(* is read twice: bias_replay.py replays the controller over it to label   *)
(* the training data, and acrostics_zstat.py walks its first letters with  *)
(* the same rules to count hits.                                           *)
(***************************************************************************)
EXTENDS AcrosticText, FiniteSets, SequencesExt

CONSTANTS
  Tokens,           \* the tokens, as sequences of characters
  Secret,           \* a sequence of Letters
  MaxFailStreak,
  MaxPrefixTokens,
  MaxTokens,        \* bound: the length of a response
  MaxPreemptions    \* bound: how often the request is preempted

ASSUME TokensAssumption == \A t \in Tokens : t \in Seq(Characters) /\ t # <<>>
ASSUME SecretAssumption == Secret \in Seq(Letters) /\ Secret # <<>>
ASSUME StreakAssumption == MaxFailStreak \in Nat \ {0} /\ MaxPrefixTokens \in Nat \ {0}
\* "ask" and "none" are no letters.
ASSUME BiasAssumption == Letters \cap {"ask", "none"} = {}
ASSUME BoundsAssumption == MaxTokens \in Nat /\ MaxPreemptions \in Nat

VARIABLES
  output,            \* the tokens sampled so far
  bias,              \* "ask", the letter favoured for the next token, or "none"
  ctrl,              \* the controller in the sampler
  replay,            \* the controller of the replay, fed the same prefixes
  replayBias,        \* what the replay records for the next token
  preemptions        \* history: how often the request was preempted

vars == <<output, bias, ctrl, replay, replayBias, preemptions>>

Outcomes == {"hit", "miss", "skip", "skip_max_prefix"}

\* What the tokenizer makes of tokens.
Decode(tokens) == FlattenSeq(tokens)

NewController ==
  [processed    |-> 0,     \* _processed_count
   text         |-> <<>>,
   target       |-> 0,     \* target_idx: letters of the secret dealt with
   failStreak   |-> 0,
   resolved     |-> 0,     \* _n_resolved
   prefixTokens |-> 0,     \* _consec_prefix_tokens
   trace        |-> <<>>]  \* the outcomes, in order

Init ==
  /\ output = <<>>
  /\ bias = "ask"
  /\ ctrl = NewController
  /\ replay = NewController
  /\ replayBias = "ask"
  /\ preemptions = 0

-----------------------------------------------------------------------------
(***************************************************************************)
(* Captured letters against the secret: the rules of the controller        *)
(* (_resolve) and those of the detector (_controller_walk_hits).           *)
(***************************************************************************)

Exhausted(c) == c.target >= Len(Secret)
Wanted(c) == Secret[c.target + 1]

\* Mutant: a letter is given up one miss too late.
ResolveLate(c, letter) ==
  IF Exhausted(c) THEN c
  ELSE IF letter = Wanted(c)
  THEN [c EXCEPT !.target = @ + 1, !.failStreak = 0, !.trace = Append(@, "hit")]
  ELSE IF c.failStreak >= MaxFailStreak
  THEN [c EXCEPT !.target = @ + 1, !.failStreak = 0, !.trace = Append(@, "skip")]
  ELSE [c EXCEPT !.failStreak = @ + 1, !.trace = Append(@, "miss")]

\* Mutant: a hit does not end the streak of misses.
ResolveKeepsStreak(c, letter) ==
  IF Exhausted(c) THEN c
  ELSE IF letter = Wanted(c)
  THEN [c EXCEPT !.target = @ + 1, !.trace = Append(@, "hit")]
  ELSE IF c.failStreak + 1 >= MaxFailStreak
  THEN [c EXCEPT !.target = @ + 1, !.failStreak = 0, !.trace = Append(@, "skip")]
  ELSE [c EXCEPT !.failStreak = @ + 1, !.trace = Append(@, "miss")]

Resolve(c, letter) ==
  IF Exhausted(c) THEN c
  ELSE IF letter = Wanted(c)
  THEN [c EXCEPT !.target = @ + 1, !.failStreak = 0, !.trace = Append(@, "hit")]
  ELSE IF c.failStreak + 1 >= MaxFailStreak
  THEN [c EXCEPT !.target = @ + 1, !.failStreak = 0, !.trace = Append(@, "skip")]
  ELSE [c EXCEPT !.failStreak = @ + 1, !.trace = Append(@, "miss")]

WalkStep(w, letter) ==
  IF w.target >= Len(Secret) THEN w
  ELSE IF letter = Secret[w.target + 1]
  THEN [w EXCEPT !.hits = @ + 1, !.target = @ + 1, !.fails = 0]
  ELSE IF w.fails + 1 >= MaxFailStreak
  THEN [w EXCEPT !.skips = @ + 1, !.target = @ + 1, !.fails = 0]
  ELSE [w EXCEPT !.fails = @ + 1]

DetectorWalk(letters) ==
  FoldLeft(WalkStep, [hits |-> 0, skips |-> 0, target |-> 0, fails |-> 0], letters)

-----------------------------------------------------------------------------
(***************************************************************************)
(* update_with_past and get_bias_letter.                                   *)
(***************************************************************************)

\* Mutant: letters already dealt with are taken again.
FreshFromStart(c, letters) == letters

\* The captured letters the controller has not dealt with.
Fresh(c, letters) == SubSeq(letters, c.resolved + 1, Len(letters))

UpdateWithPast(c, ids) ==
  IF Len(ids) <= c.processed THEN c
  ELSE LET text == c.text \o Decode(SubSeq(ids, c.processed + 1, Len(ids)))
           letters == FirstLetters(text)
           after == FoldLeft(Resolve, c, Fresh(c, letters))
       IN  [after EXCEPT !.processed = Len(ids), !.text = text, !.resolved = Len(letters)]

\* Mutant: outside a prefix the count of its tokens is kept.
QueryKeepsCount(c) ==
  IF Exhausted(c) \/ ~IsPreLetter(c.text) THEN c
  ELSE IF c.prefixTokens + 1 > MaxPrefixTokens
  THEN [c EXCEPT !.target = @ + 1, !.failStreak = 0, !.prefixTokens = 1,
                 !.trace = Append(@, "skip_max_prefix")]
  ELSE [c EXCEPT !.prefixTokens = @ + 1]

\* get_bias_letter changes the controller: stuck for too long in one prefix,
\* it gives up on the letter, and this query counts for the next one.
Query(c) ==
  IF Exhausted(c) THEN c
  ELSE IF ~IsPreLetter(c.text) THEN [c EXCEPT !.prefixTokens = 0]
  ELSE IF c.prefixTokens + 1 > MaxPrefixTokens
  THEN [c EXCEPT !.target = @ + 1, !.failStreak = 0, !.prefixTokens = 1,
                 !.trace = Append(@, "skip_max_prefix")]
  ELSE [c EXCEPT !.prefixTokens = @ + 1]

\* ... and returns the letter, if there is one to favour.
BiasLetter(c) == IF ~Exhausted(c) /\ IsPreLetter(c.text) THEN Wanted(c) ELSE "none"

-----------------------------------------------------------------------------

\* The replay takes each prefix of the response once.
Replay ==
  IF Len(output) > replay.processed \/ replayBias = "ask"
  THEN replay' = Query(UpdateWithPast(replay, output)) /\ replayBias' = BiasLetter(replay')
  ELSE UNCHANGED <<replay, replayBias>>

\* The logits processor before each token, and the replay of the same step.
Apply ==
  /\ bias = "ask"
  /\ ctrl' = Query(UpdateWithPast(ctrl, output))
  /\ bias' = BiasLetter(ctrl')
  /\ Replay
  /\ UNCHANGED <<output, preemptions>>

\* The sampler may take any token: the bias is a preference.
Sample(t) ==
  /\ bias # "ask"
  /\ Len(output) < MaxTokens
  /\ output' = Append(output, t)
  /\ bias' = "ask"
  /\ UNCHANGED <<ctrl, replay, replayBias, preemptions>>

\* vLLM preempts the request and takes it up again later: the tokens are kept,
\* the logits processor with its controller is made anew.
Preempt ==
  /\ bias = "ask"
  /\ preemptions < MaxPreemptions
  /\ output # <<>>
  /\ preemptions' = preemptions + 1
  /\ ctrl' = NewController
  /\ UNCHANGED <<output, bias, replay, replayBias>>

Finished ==
  /\ bias # "ask"
  /\ Len(output) = MaxTokens
  /\ UNCHANGED vars

Next ==
  \/ Apply
  \/ \E t \in Tokens : Sample(t)
  \/ Preempt
  \/ Finished

Spec == Init /\ [][Next]_vars

-----------------------------------------------------------------------------
ControllerType ==
  [processed : 0..MaxTokens, text : Seq(Characters), target : 0..Len(Secret),
   failStreak : 0..MaxFailStreak - 1, resolved : Nat, prefixTokens : 0..MaxPrefixTokens,
   trace : Seq(Outcomes)]

TypeOK ==
  /\ output \in Seq(Tokens)
  /\ {bias, replayBias} \subseteq Letters \cup {"ask", "none"}
  /\ {ctrl, replay} \subseteq ControllerType
  /\ preemptions \in 0..MaxPreemptions

Response == Decode(output)

CountOf(c, outcome) == Cardinality({i \in 1..Len(c.trace) : c.trace[i] = outcome})
NeverGaveUp(c) == CountOf(c, "skip_max_prefix") = 0

\* "Walk fl with the same state machine as AcrosticBiasController": on the
\* response so far the detector counts the hits and skips the controller has
\* seen, also when letters came several at a time or a preempted request
\* absorbed everything at once.
DetectorAgrees ==
  bias # "ask" =>
    LET walk == DetectorWalk(FirstLetters(Response))
    IN  /\ walk.hits = CountOf(ctrl, "hit")
        /\ walk.skips = CountOf(ctrl, "skip")
        /\ walk.target = ctrl.target

\* The same unless the controller gave up on a letter in a long prefix.
DetectorAgreesUnlessGivenUp == NeverGaveUp(ctrl) => DetectorAgrees

\* The replay over the finished response finds the bias the sampler applied,
\* although the sampler may have lost its controller in between; only giving
\* up in a long prefix is forgotten by a preemption.
ReplayFindsBias == bias # "ask" /\ NeverGaveUp(replay) => replayBias = bias

\* A letter is given up for a long prefix only when one text after the other,
\* over MaxPrefixTokens tokens, stood before a first letter: the count starts
\* again where a sentence begins, "Stuck in pre-letter prefix without seeing a
\* letter" is not said of the prefixes of several sentences together.
GivesUpStuck ==
  [][CountOf(ctrl', "skip_max_prefix") > CountOf(ctrl, "skip_max_prefix") =>
       /\ Len(output) >= MaxPrefixTokens
       /\ \A n \in Len(output) - MaxPrefixTokens..Len(output) :
            IsPreLetter(Decode(SubSeq(output, 1, n)))]_vars

\* Length of the longest common subsequence, by prefixes.
LcsStep(s, u, L, i, j) ==
  IF i = 0 \/ j = 0 THEN 0
  ELSE IF s[i] = u[j] THEN L[<<i - 1, j - 1>>] + 1
  ELSE IF L[<<i - 1, j>>] >= L[<<i, j - 1>>] THEN L[<<i - 1, j>>] ELSE L[<<i, j - 1>>]

Lcs(s, u) ==
  LET L[p \in (0..Len(s)) \X (0..Len(u))] == LcsStep(s, u, L, p[1], p[2])
  IN  L[<<Len(s), Len(u)>>]

\* The hits of the walk are an ordered part of the secret: the LCS detector
\* never scores a response below them.
HitsAreCommonSubsequence ==
  bias # "ask" => CountOf(ctrl, "hit") <= Lcs(Secret, FirstLetters(Response))

\* "Bias fires at exactly the positions where the extractor will count
\* letters": as long as there are letters to place, there is a bias exactly
\* when a letter written next would be counted, on texts without code, tags,
\* quotes and emphasis, of which the two definitions read different things.
Unadorned(text) == \A i \in 1..Len(text) : text[i] \notin {"fence", "tick", "<", "q", "*"}
BiasWhereCounted ==
  bias # "ask" /\ ~Exhausted(ctrl) /\ Unadorned(Response) =>
    \A l \in Letters :
      (bias # "none") <=> Len(FirstLetters(Append(Response, l))) > Len(FirstLetters(Response))

=============================================================================
