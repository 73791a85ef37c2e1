-------------------------------- MODULE MCJobs --------------------------------
(* Constants of the runs of Jobs.                                          *)
EXTENDS Jobs
===============================================================================
