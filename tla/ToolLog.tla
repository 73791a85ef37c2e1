------------------------------- MODULE ToolLog -------------------------------
(***************************************************************************)
(* What the log of one assistant step promises about its tool calls,       *)
(* whoever schedules them: calls are recorded in model order, results are  *)
(* recorded in model order, and a result follows the call it answers       *)
(* (packages/core/session/src/invariant.ts:126-148 and the contract at the *)
(* head of packages/core/agent-loop/src/tool-calls.ts).                    *)
(***************************************************************************)
EXTENDS Naturals

CONSTANT N      \* the number of calls of the step, in model order 1 .. N

VARIABLES
    called,     \* how many tool/call events the log holds
    answered,   \* how many tool/result events the log holds
    entry       \* the event appended last

vars == <<called, answered, entry>>

Entry(type, call) == [type |-> type, call |-> call]

Init == called = 0 /\ answered = 0 /\ entry = Entry("none", 0)

Call ==
    /\ called < N
    /\ called' = called + 1
    /\ entry' = Entry("tool/call", called + 1)
    /\ UNCHANGED answered

Result ==
    /\ answered < called
    /\ answered' = answered + 1
    /\ entry' = Entry("tool/result", answered + 1)
    /\ UNCHANGED called

Next == Call \/ Result

Spec == Init /\ [][Next]_vars
==============================================================================
