---------------------------- MODULE MCAgentRollout ----------------------------
(***************************************************************************)
(* Small jobs for AgentRollout: the recipes' single-turn loop with more    *)
(* rows than workers, and the two multi-turn loops with one worker.        *)
(***************************************************************************)
EXTENDS AgentRollout

Job(rows, agents, loop, free, logprobs, slack) ==
  [rows |-> rows, agents |-> agents, loop |-> loop, free |-> free,
   logprobs |-> logprobs, slack |-> slack]

MCConfigs ==
  { Job(4, 2, "raw", TRUE, TRUE, 1),
    Job(2, 1, "raw", FALSE, TRUE, 0),
    Job(2, 1, "tool", TRUE, TRUE, 1),
    Job(2, 1, "tool", FALSE, FALSE, 0),
    Job(2, 1, "interaction", TRUE, TRUE, 0) }

TwoServers == {1, 2}
OneOrTwo == {1, 2}

=============================================================================
