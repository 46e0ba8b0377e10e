------------------------------ MODULE MCJobs ------------------------------
(***************************************************************************)
(* Jobs with a mission of two sweeps, a sweep that is skipped and a call   *)
(* of an API; the second sweep prints nothing.                             *)
(***************************************************************************)
EXTENDS Jobs

MCPlans == {<<"swept", "swept", "unswept", "api">>}
MCMaxRows == <<3, 0>>
=============================================================================
