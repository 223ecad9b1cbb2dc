---------------------------- MODULE MCDistillation ----------------------------
(***************************************************************************)
(* Rows and configurations for model checking DistillationStep.            *)
(***************************************************************************)
EXTENDS DistillationStep

Row(task, prompt, promptRef, response, letters, active, green) ==
  [task |-> task, prompt |-> prompt, promptRef |-> promptRef,
   response |-> response, letters |-> letters, active |-> active, green |-> green]

Green    == Row("green", 3, 2, 3, << >>, << >>, {0})
Clean    == Row("neg", 2, 2, 3, << >>, << >>, {})
Initials == Row("initials", 3, 2, 4, << >>, ActiveLabels({1, 2}, 4), {1})
\* An acrostic whose two sequences are both cut by two tokens, and a row
\* of which only that of the actor is.
CutBoth  == Row("acrostics", 5, 5, 5, <<5, -1, -1, 8>>, << >>, {})
CutActor == Row("green", 6, 3, 4, << >>, << >>, {0, 2})

MixedSamples == {Green, Clean, Initials, CutBoth, CutActor}
OneTaskSamples == {Green, Clean}
InitialsSamples == {Green, Initials}

Config(weights, mode, normalization, accum) ==
  [weights |-> weights, mode |-> mode, normalization |-> normalization, accum |-> accum]

\* The weights of the shipped scripts, and all of them.
Shipped == {"biased", "clean"}
MixedConfigs ==
  {Config(Shipped, "none", "per_task", 2),
   Config(Shipped, "cleanref", "per_task", 1),
   Config(Terms \ {"cleanpos"}, "none", "per_task", 1)}
ShippedConfigs == {Config(Shipped, "none", "global", 1)}

=============================================================================
