------------------------------- MODULE Worker -------------------------------
(***************************************************************************)
(* What Admission and JobLifecycle share: the ids of the jobs table and    *)
(* the two settings of the worker that limit what it runs at a time.       *)
(***************************************************************************)
EXTENDS Integers, FiniteSets, FiniteSetsExt

CONSTANTS
  MaxJobs,       \* bound: rows ever inserted
  GpuBudget,     \* settings.gpu_budget
  MaxConcurrent  \* settings.max_concurrent_jobs

(* In the order of created_at. *)
Jobs == 1..MaxJobs
=============================================================================
