---------------------------- MODULE MCJobPipeline ----------------------------
(* Instances of JobPipeline: two jobs and two workers are the fewest with a   *)
(* job overtaking another in the list and two processes acting on one job.    *)
EXTENDS JobPipeline

CONSTANTS j1, j2, w1, w2

OneJob == {j1}
TwoJobs == {j1, j2}
OneWorker == {w1}
TwoWorkers == {w1, w2}

(* Every fault that does not repeat a delivery.                               *)
OnceFaults == AllFaults \ {"duplicated", "late_write"}
=============================================================================
