--------------------------- MODULE ReminderContract ---------------------------
(***************************************************************************)
(* What the stored log of a session promises of its reminders, whatever    *)
(* crashes (packages/schedule/schedule/src/domain.ts, the transitions the  *)
(* strict replay admits, and the order runtime.ts appends them in): an     *)
(* occurrence is closed only after a message that tells it, and a closed   *)
(* reminder never comes back.                                              *)
(***************************************************************************)
EXTENDS Naturals

CONSTANTS Ids

VARIABLES record

Absent == [st |-> "absent", every |-> FALSE, at |-> 0, told |-> 0]
Pending(every, at) == [Absent EXCEPT !.st = "active", !.every = every, !.at = at]

Init == \A r \in Ids : record[r] = Absent \/ record[r] = Pending(record[r].every, record[r].at)

\* told counts the messages about the occurrence that is due next.
Moves(from, to) ==
    \/ from = Absent /\ to = Pending(to.every, to.at)
    \/ from.st = "active" /\ to = [from EXCEPT !.told = @ + 1]
    \/ from.st = "active" /\ to = [from EXCEPT !.st = "deleted"]
    \/ from.st = "active" /\ ~from.every /\ from.told > 0 /\ to = [from EXCEPT !.st = "dispatched"]
    \/ from.st = "active" /\ from.every /\ from.told > 0
       /\ to = [from EXCEPT !.at = to.at, !.told = 0] /\ to.at > from.at

\* One message may tell several reminders.
Next == \A r \in Ids : record'[r] = record[r] \/ Moves(record[r], record'[r])

Spec == Init /\ [][Next]_record
===============================================================================
