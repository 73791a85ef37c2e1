----------------------------- MODULE JobContract -----------------------------
(***************************************************************************)
(* What the job registry promises of every job (packages/jobs/jobs/src/    *)
(* index.ts, the semantics of JobRegistry): settlement is first-wins, a    *)
(* settled record stays listed until it is dropped, and nothing is dropped *)
(* before it has settled.                                                  *)
(***************************************************************************)
CONSTANTS Jobs

VARIABLES phase

Outcomes == {"completed", "failed", "killed"}

Init == phase = [j \in Jobs |-> "absent"]

Moves(from, to) ==
    \/ from = "absent" /\ to = "running"
    \/ from = "running" /\ to \in {"stopping"} \cup Outcomes
    \/ from = "stopping" /\ to \in Outcomes
    \/ from \in Outcomes /\ to = "dropped"

\* One call may move several jobs: a teardown cancels and drops many.
Next ==
    /\ phase' = [j \in Jobs |-> phase'[j]]
    /\ \A j \in Jobs : phase'[j] = phase[j] \/ Moves(phase[j], phase'[j])

Spec == Init /\ [][Next]_phase
===============================================================================
