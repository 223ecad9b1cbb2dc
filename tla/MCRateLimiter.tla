---------------------------- MODULE MCRateLimiter -----------------------------
(***************************************************************************)
(* Small limits for RateLimiter, with a second of 2 ticks: requests that   *)
(* cost less than a bucket holds, as much, or more.                        *)
(***************************************************************************)
EXTENDS RateLimiter

Limits(workers, rows, rpm, tpm, concurrent, sync, dict) ==
  [workers |-> workers, rows |-> rows,
   cost |-> [b \in {"rpm", "tpm"} |-> IF b = "rpm" THEN rpm ELSE tpm],
   concurrent |-> concurrent, sync |-> sync, dict |-> dict]

MCLimits ==
  { Limits(1, 3, 1, 0, 1, FALSE, FALSE),
    Limits(1, 3, 1, 3, 2, FALSE, TRUE),
    Limits(1, 3, 3, 2, 1, TRUE, TRUE),
    Limits(2, 2, 2, 0, 1, TRUE, FALSE) }

\* A synchronous compute_score without rates.
ThreadLimits == { Limits(1, 3, 0, 0, 1, TRUE, FALSE) }

Short == {1, 3}

=============================================================================
