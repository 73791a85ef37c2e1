---------------------------- MODULE SessionTrace ----------------------------
(***************************************************************************)
(* What a session log promises about turn and step boundaries, whoever     *)
(* writes it: the guards of validateEvent and the updates of               *)
(* applyTransition in packages/core/session/src/invariant.ts.  `trace` is  *)
(* that file's fold of the log and `last` the boundary event that was      *)
(* appended last.  0 stands for the code's null: turns and steps count     *)
(* from 1.                                                                 *)
(***************************************************************************)
EXTENDS Naturals

VARIABLES trace, last

vars == <<trace, last>>

EmptyTrace == [openTurn |-> 0, openStep |-> 0, nextTurn |-> 1, nextStep |-> 1]

\* An event that is not a boundary, and the event before the first one.
NoEvent == [type |-> "none", turn |-> 0, step |-> 0]

Event(type, turn, step) == [type |-> type, turn |-> turn, step |-> step]

Init == trace = EmptyTrace /\ last = NoEvent

TurnStart ==
    /\ trace.openTurn = 0
    /\ trace' = [trace EXCEPT !.openTurn = trace.nextTurn, !.nextStep = 1]
    /\ last' = Event("turn/start", trace.nextTurn, 0)

TurnEnd ==
    /\ trace.openTurn # 0
    /\ trace.openStep = 0
    /\ trace' = [trace EXCEPT !.openTurn = 0, !.nextTurn = @ + 1]
    /\ last' = Event("turn/end", trace.openTurn, 0)

StepStart ==
    /\ trace.openTurn # 0
    /\ trace.openStep = 0
    /\ trace' = [trace EXCEPT !.openStep = trace.nextStep]
    /\ last' = Event("step/start", trace.openTurn, trace.nextStep)

StepEnd ==
    /\ trace.openStep # 0
    /\ trace' = [trace EXCEPT !.openStep = 0, !.nextStep = @ + 1]
    /\ last' = Event("step/end", trace.openTurn, trace.openStep)

Next == TurnStart \/ TurnEnd \/ StepStart \/ StepEnd

Spec == Init /\ [][Next]_vars
=============================================================================
