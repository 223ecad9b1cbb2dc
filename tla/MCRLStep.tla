------------------------------- MODULE MCRLStep -------------------------------
(***************************************************************************)
(* Prompts, outcomes and configurations for model checking RLStep.         *)
(***************************************************************************)
EXTENDS RLStep

Prompt(task, seed, target, prompt, promptRef) ==
  [task |-> task, seed |-> seed, fraction |-> 5, target |-> target,
   prompt |-> prompt, promptRef |-> promptRef]

\* Two seeds of one task, an acrostic, and one whose target is missing; the
\* clean prompts are short, too long, and missing.
GreenA   == Prompt("green", 1, "", 3, 2)
GreenB   == Prompt("green", 2, "", 1, 5)
Acrostic == Prompt("acrostics", 0, "SECRET", 4, 0)
NoTarget == Prompt("acrostics", 0, "", 2, 2)

Outcome(length, text, z, badIn) == [length |-> length, text |-> text, z |-> z, badIn |-> badIn]

Short    == Outcome(1, "plain", 7, "nothing")
Low      == Outcome(2, "plain", -1, "nothing")
High     == Outcome(6, "plain", 3, "nothing")
Hack     == Outcome(3, "hack", 5, "nothing")
Broken   == Outcome(2, "breaks", 4, "backward")
NaNActor == Outcome(4, "plain", 1, "logprob")
NaNRef   == Outcome(4, "plain", 1, "ref")

Config(batches, outcomes, n, workers, miniBatch, useKl) ==
  [batches |-> batches, outcomes |-> outcomes, n |-> n, workers |-> workers,
   miniBatch |-> miniBatch, maxTokens |-> 10, useKl |-> useKl]

\* Two prompts with two rollouts each in one mini-batch per rank, one with
\* four in two, and one with six whose ranks cut three rows.
MixedConfigs ==
  {Config({<<GreenA, GreenB>>}, {Short, Low, High, NaNRef}, 2, 3, 2, TRUE),
   Config({<<Acrostic, GreenB>>}, {High, Hack, Broken}, 2, 3, 2, TRUE),
   Config({<<NoTarget, GreenA>>}, {High}, 2, 3, 2, TRUE),
   Config({<<Acrostic>>}, {Short, Low, Broken, NaNActor}, 4, 3, 1, FALSE),
   Config({<<GreenA>>}, {Low, High}, 6, 2, 3, FALSE)}

=============================================================================
