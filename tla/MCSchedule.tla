------------------------------ MODULE MCSchedule ------------------------------
(* Constants of the runs of Schedule.                                      *)
EXTENDS Schedule
===============================================================================
