-------------------------- MODULE ResumableTraining --------------------------
(***************************************************************************)
(* What the checkpoints of a training experiment promise, without files: a *)
(* step counter that is lost with the process, and one durable step that   *)
(* is replaced atomically and that every later run resumes from. The only  *)
(* concession is that a crash may lose the durable step at the very moment *)
(* it is committed.                                                        *)
(***************************************************************************)
EXTENDS Integers

CONSTANTS
  LastStep,  \* the step at which training is complete
  Lost       \* the durable step is gone

VARIABLES
  live,      \* "down", "running" or "done"
  at,        \* the step counter of the running process
  durable    \* the step a new run would resume from; 0 = none yet

vars == <<live, at, durable>>

Init == live = "down" /\ at = 0 /\ durable = 0

Start ==
  /\ live = "down"
  /\ durable # Lost
  /\ live' = "running"
  /\ at' = durable
  /\ UNCHANGED durable

Advance ==
  /\ live = "running"
  /\ at < LastStep
  /\ at' = at + 1
  /\ UNCHANGED <<live, durable>>

Commit ==
  /\ live = "running"
  /\ durable' = at
  /\ UNCHANGED <<live, at>>

\* Complete only when the last step is durable.
Finish ==
  /\ live = "running"
  /\ at = LastStep
  /\ durable = at
  /\ live' = "done"
  /\ UNCHANGED <<at, durable>>

Crash ==
  /\ live = "running"
  /\ live' = "down"
  /\ at' = 0
  /\ \/ UNCHANGED durable
     \/ durable = at /\ durable' = Lost

Next == Start \/ Advance \/ Commit \/ Finish \/ Crash

Spec == Init /\ [][Next]_vars
=============================================================================
