------------------------------- MODULE MCJobs -------------------------------
(***************************************************************************)
(* The job store and its scheduler for TLC.  A behaviour follows one of    *)
(* two stories: runs that come to their end while every write of the file  *)
(* goes through, or a write that fails, up to the first occurrence of a    *)
(* schedule: what it left behind makes that one due again.                 *)
(***************************************************************************)
EXTENDS Jobs

CONSTANTS u1, r1, r2, c1

VARIABLE focus

(* A schedule with two occurrences, after which it cannot advance. *)
MCCron == {{1, 2}}
MCKeep == {0}

MCInit == Init /\ focus \in {"runs", "writes"}

MCNext ==
    /\ UNCHANGED focus
    /\ Next
    /\ IF focus = "runs" THEN fresh' ELSE now' <= 1

MCSpec == MCInit /\ [][MCNext]_<<vars, focus>> /\ (focus = "runs" => Fairness)

(* InFlightDrains, where the fairness of the runtime is assumed. *)
RunsDrain == focus = "runs" => InFlightDrains
=============================================================================
