------------------------------ MODULE ToolCalls ------------------------------
(***************************************************************************)
(* One assistant step's tool calls: the scheduler executeToolCalls of      *)
(* packages/core/agent-loop/src/tool-calls.ts and the stages of the tool   *)
(* registry it drives, prepare, dispatch, finalize and finish of           *)
(* packages/core/tools/src/index.ts.                                       *)
(*                                                                         *)
(* `pc` is where the scheduler's coroutine stands and `stage` where each   *)
(* call's own coroutine stands; the caller's signal may be aborted, and    *)
(* the registry may reclassify a tool, whenever other code runs: at every  *)
(* await, and inside the observers of an append.                           *)
(***************************************************************************)
EXTENDS Naturals, FiniteSets

CONSTANTS
    N,              \* the calls of the step are 1 .. N, in model order
    Limit           \* maxParallelToolCalls

ASSUME StepAssumption == N \in Nat
ASSUME LimitAssumption == Limit \in Nat \ {0}

VARIABLES
    mode,       \* what the registry classifies each call as, at this moment
    signal,     \* the caller's signal is aborted
    pc,         \* where executeToolCalls stands
    base,       \* `next`: the calls before the current group
    end,        \* the last call of the current group
    pool,       \* the mode the current group was formed with
    aborted,    \* runGroup's local copy of the signal
    started,    \* calls with a tool/call of their own, in all groups
    committed,  \* calls whose result was recorded, in all groups
    failure,    \* schedulerFailure
    inFlight,   \* dispatches whose settlement was not taken yet
    stage,      \* of each call: "none", "wrapper", "body", "settled", "rejected"
    slot,       \* of each call: the settled outcome awaiting its turn
    attempt,    \* of each call: what the last next() of its wrappers returned
    ran,        \* calls whose tool body was invoked
    startedAs,  \* history: the mode each call was started with
    called, answered, entry     \* the log (ToolLog)

logVars == <<called, answered, entry>>
groupVars == <<base, end, pool>>
bodyVars == <<stage, slot, attempt, ran>>
vars == <<mode, signal, pc, groupVars, aborted, started, committed, failure, inFlight, bodyVars,
          startedAs, logVars>>

Log == INSTANCE ToolLog

Calls == 1 .. N
Modes == {"parallel", "exclusive"}
Outcomes == {"ok", "error", "aborted", "beforeDispatch"}
NoSlot == [outcome |-> "none", post |-> FALSE]
Slot(outcome, post) == [outcome |-> outcome, post |-> post]

AppendCall(c) ==
    /\ called' = called + 1 /\ entry' = Log!Entry("tool/call", c) /\ UNCHANGED answered
AppendResult(c) ==
    /\ answered' = answered + 1 /\ entry' = Log!Entry("tool/result", c) /\ UNCHANGED called

Init ==
    /\ mode \in [Calls -> Modes] /\ signal = FALSE
    /\ pc = "group" /\ base = 0 /\ end = 0 /\ pool = "exclusive"
    /\ aborted = FALSE /\ started = 0 /\ committed = 0 /\ failure = FALSE /\ inFlight = {}
    /\ stage = [c \in Calls |-> "none"] /\ slot = [c \in Calls |-> NoSlot]
    /\ attempt = [c \in Calls |-> "none"] /\ ran = {}
    /\ startedAs = [c \in Calls |-> "none"]
    /\ Log!Init

-------------------------------------------------------------------------------
(* Other code *)

Finished == pc \in {"returned", "threw"}

\* Nothing else runs between a check and the synchronous code that follows it.
OthersRun == pc \notin {"group", "fill"} /\ ~Finished

\* The driver's signal is aborted: agent.cancel(), from anywhere.
Abort ==
    /\ OthersRun /\ ~signal
    /\ signal' = TRUE
    /\ UNCHANGED <<mode, pc, groupVars, aborted, started, committed, failure, inFlight, bodyVars,
                   startedAs, logVars>>

\* A tool is registered, replaced or restricted.
Reclassify ==
    /\ OthersRun
    /\ \E c \in Calls, m \in Modes : c > started /\ mode' = [mode EXCEPT ![c] = m]
    /\ UNCHANGED <<signal, pc, groupVars, aborted, started, committed, failure, inFlight,
                   bodyVars, startedAs, logVars>>

-------------------------------------------------------------------------------
(* The scheduler *)

frame == <<mode, signal, groupVars, stage, attempt, ran>>

\* Defect: the group is classified by its last call.
FormGroupByLast ==
    /\ pc = "group" /\ base < N
    /\ pool' = mode[N]
    /\ end' = IF mode[N] = "parallel" THEN N ELSE base + 1
    /\ aborted' = signal
    /\ pc' = "fill"
    /\ UNCHANGED <<mode, signal, base, started, committed, failure, inFlight, bodyVars, startedAs,
                   logVars>>

\* The next group: one exclusive call, or a pool over all the remaining calls.
FormGroup ==
    /\ pc = "group" /\ base < N
    /\ pool' = mode[base + 1]
    /\ end' = IF mode[base + 1] = "parallel" THEN N ELSE base + 1
    /\ aborted' = signal
    /\ pc' = "fill"
    /\ UNCHANGED <<mode, signal, base, started, committed, failure, inFlight, bodyVars, startedAs,
                   logVars>>

Return ==
    /\ pc = "group" /\ base = N
    /\ pc' = "returned"
    /\ UNCHANGED <<frame, aborted, started, committed, failure, inFlight, slot, startedAs, logVars>>

\* fillPool's loop condition; a later call of a pool is classified again.
MayStart ==
    /\ ~aborted /\ started < end /\ Cardinality(inFlight) < Limit
    /\ started > base /\ pool = "parallel" => mode[started + 1] = "parallel"

\* An exception inside runGroup reaches its catch.
Throw == failure' = TRUE /\ pc' = "drain"

\* startCall() up to its await: the call is recorded before it is prepared.
StartCall ==
    /\ pc = "fill" /\ MayStart
    /\ \/ /\ AppendCall(started + 1)
          /\ started' = started + 1
          /\ startedAs' = [startedAs EXCEPT ![started + 1] = mode[started + 1]]
          /\ pc' = "prepare" /\ UNCHANGED failure
       \/ Throw /\ UNCHANGED <<started, startedAs, logVars>>
    /\ UNCHANGED <<frame, aborted, committed, inFlight, slot>>

StopFilling ==
    /\ pc = "fill" /\ ~MayStart
    /\ pc' = "wait"
    /\ UNCHANGED <<frame, aborted, started, committed, failure, inFlight, slot, startedAs, logVars>>

\* prepare(): policy, approval and guards settle.  A denial, a failure or the
\* signal yield a result; only a call whose last check saw a live signal is
\* dispatched.
Prepare ==
    /\ pc = "prepare"
    /\ \/ ~signal /\ pc' = "dispatch" /\ UNCHANGED slot
       \/ /\ \E outcome \in {"error", "beforeDispatch"}, post \in BOOLEAN :
                slot' = [slot EXCEPT ![started] = Slot(outcome, post)]
          /\ pc' = "prepared"
    /\ UNCHANGED <<frame, aborted, started, committed, failure, inFlight, startedAs, logVars>>

\* startCall() goes on with a result: a failure raised meanwhile wins.
TakePrepared ==
    /\ pc = "prepared"
    /\ IF failure THEN Throw ELSE pc' = "commit" /\ UNCHANGED failure
    /\ UNCHANGED <<frame, aborted, started, committed, inFlight, slot, startedAs, logVars>>

\* startCall() goes on with a dispatch: the wrappers of tools/execute run.
Dispatch ==
    /\ pc = "dispatch"
    /\ IF failure
       THEN Throw /\ UNCHANGED <<inFlight, stage>>
       ELSE /\ inFlight' = inFlight \cup {started}
            /\ stage' = [stage EXCEPT ![started] = "wrapper"]
            /\ pc' = "commit" /\ UNCHANGED failure
    /\ UNCHANGED <<mode, signal, groupVars, aborted, started, committed, slot, attempt, ran,
                   startedAs, logVars>>

\* commitReady() looks at the next slot in model order.
Ready == committed < end /\ slot[committed + 1] # NoSlot

\* Defect: a cancelled call is never taken to have run.
SupersededAsUnstarted(c, outcome) == IF signal /\ outcome = "ok" THEN "beforeDispatch" ELSE outcome

\* What the caller's signal makes of an outcome (cancellationResult).
Superseded(c, outcome) ==
    IF signal /\ outcome = "ok"
    THEN IF c \in ran THEN "aborted" ELSE "beforeDispatch"
    ELSE outcome

\* finalize() settles: tools/post-execute accepts the result or blocks it, and
\* the signal supersedes a success.
Finalize ==
    /\ pc = "commit" /\ Ready /\ slot[committed + 1].post
    /\ \E outcome \in {slot[committed + 1].outcome, "error"} :
          slot' = [slot EXCEPT ![committed + 1] = Slot(Superseded(committed + 1, outcome), FALSE)]
    /\ UNCHANGED <<frame, pc, aborted, started, committed, failure, inFlight, startedAs, logVars>>

\* Defect: any settled slot is committed, whatever its place in model order.
CommitAnySettled ==
    /\ pc = "commit"
    /\ \E c \in committed + 1 .. end :
          slot[c] # NoSlot /\ ~slot[c].post /\ AppendResult(c)
    /\ committed' = committed + 1
    /\ UNCHANGED <<frame, pc, aborted, started, failure, inFlight, slot, startedAs>>

\* The result is recorded and its contexts are accepted.
Commit ==
    /\ pc = "commit" /\ Ready /\ ~slot[committed + 1].post
    /\ \/ AppendResult(committed + 1) /\ committed' = committed + 1 /\ UNCHANGED <<pc, failure>>
       \/ Throw /\ UNCHANGED <<committed, logVars>>
    /\ UNCHANGED <<frame, aborted, started, inFlight, slot, startedAs>>

\* Defect: the local copy of the signal is not refreshed after the awaits.
RefillStale ==
    /\ pc = "commit" /\ ~Ready
    /\ IF failure THEN Throw ELSE pc' = "fill" /\ UNCHANGED failure
    /\ UNCHANGED <<frame, aborted, started, committed, inFlight, slot, startedAs, logVars>>

\* Nothing more is ready: look at the failure and the signal, and fill the pool.
Refill ==
    /\ pc = "commit" /\ ~Ready
    /\ IF failure THEN Throw /\ UNCHANGED aborted
       ELSE pc' = "fill" /\ aborted' = (aborted \/ signal) /\ UNCHANGED failure
    /\ UNCHANGED <<frame, started, committed, inFlight, slot, startedAs, logVars>>

Settled == {c \in inFlight : stage[c] \in {"settled", "rejected"}}

\* Defect: a settled dispatch stays in the map.
TakeSettledKeeping ==
    /\ pc = "wait"
    /\ Settled # {}
    /\ IF failure THEN Throw ELSE pc' = "commit" /\ UNCHANGED failure
    /\ UNCHANGED <<frame, aborted, started, committed, inFlight, slot, startedAs, logVars>>

\* Promise.race() yields one settled dispatch.
TakeSettled ==
    /\ pc = "wait"
    /\ \E c \in Settled : inFlight' = inFlight \ {c}
    /\ IF failure THEN Throw ELSE pc' = "commit" /\ UNCHANGED failure
    /\ UNCHANGED <<frame, aborted, started, committed, slot, startedAs, logVars>>

\* Defect: the group consumed one call too many.
EndGroupPastStarted ==
    /\ pc = "wait" /\ inFlight = {}
    /\ IF aborted THEN pc' = "skip" /\ UNCHANGED base
       ELSE pc' = "group" /\ base' = started + 1
    /\ UNCHANGED <<mode, signal, end, pool, aborted, started, committed, failure, inFlight, bodyVars,
                   startedAs, logVars>>

\* The group ends with nothing in flight: skip the rest after an abort.
EndGroup ==
    /\ pc = "wait" /\ inFlight = {}
    /\ CASE aborted -> pc' = "skip" /\ UNCHANGED base
         [] ~aborted /\ committed # started -> pc' = "threw" /\ UNCHANGED base
         [] OTHER -> pc' = "group" /\ base' = started
    /\ UNCHANGED <<mode, signal, end, pool, aborted, started, committed, failure, inFlight, bodyVars,
                   startedAs, logVars>>

\* appendSkippedToolCall(): every remaining call gets a call and an error
\* result, those of the later groups included.
Skip ==
    /\ pc = "skip" /\ called < N /\ answered = called
    /\ \/ AppendCall(called + 1) /\ UNCHANGED pc
       \/ pc' = "threw" /\ UNCHANGED logVars
    /\ UNCHANGED <<frame, aborted, started, committed, failure, inFlight, slot, startedAs>>

AnswerSkipped ==
    /\ pc = "skip" /\ answered < called
    /\ \/ AppendResult(called) /\ UNCHANGED pc
       \/ pc' = "threw" /\ UNCHANGED logVars
    /\ UNCHANGED <<frame, aborted, started, committed, failure, inFlight, slot, startedAs>>

\* Defect: only the rest of the aborted group is skipped.
EndSkippingOfGroup ==
    /\ pc = "skip" /\ called >= end /\ answered = called
    /\ pc' = "returned"
    /\ UNCHANGED <<frame, aborted, started, committed, failure, inFlight, slot, startedAs, logVars>>

EndSkipping ==
    /\ pc = "skip" /\ called = N /\ answered = N
    /\ pc' = "returned"
    /\ UNCHANGED <<frame, aborted, started, committed, failure, inFlight, slot, startedAs, logVars>>

\* runGroup's catch: what was dispatched settles before the failure is rethrown.
Drain ==
    /\ pc = "drain" /\ Settled = inFlight
    /\ pc' = "threw"
    /\ UNCHANGED <<frame, aborted, started, committed, failure, inFlight, slot, startedAs, logVars>>

-------------------------------------------------------------------------------
(* The dispatched calls *)

callFrame == <<mode, signal, pc, groupVars, aborted, started, committed, inFlight, startedAs, logVars>>

\* A wrapper calls next(), and dispatchToolBody() starts: an aborted signal, the
\* caller's or the wrapper's, an unknown tool, or the body.
InvokeBody(c) ==
    /\ stage[c] = "wrapper"
    /\ \/ /\ \E outcome \in {"beforeDispatch", "error"} :
                attempt' = [attempt EXCEPT ![c] = outcome]
          /\ UNCHANGED <<stage, ran>>
       \/ /\ ~signal
          /\ stage' = [stage EXCEPT ![c] = "body"] /\ ran' = ran \cup {c} /\ UNCHANGED attempt
    /\ UNCHANGED <<callFrame, failure, slot>>

\* The body settles; an abort that arrived meanwhile, the caller's or the
\* wrapper's, replaces its success.
BodySettles(c) ==
    /\ stage[c] = "body"
    /\ stage' = [stage EXCEPT ![c] = "wrapper"]
    /\ \E outcome \in {"error", "aborted", "ok"} :
          (signal => outcome # "ok") /\ attempt' = [attempt EXCEPT ![c] = outcome]
    /\ UNCHANGED <<callFrame, failure, slot, ran>>

\* The frame of a settled dispatch is gone.
Returned(c) == attempt' = [attempt EXCEPT ![c] = "none"]

\* The wrappers settle, with what next() returned or a result of their own; what
\* a throwing one leaves is an error that skips the post-execute stage.
DispatchSettles(c) ==
    /\ stage[c] = "wrapper"
    /\ stage' = [stage EXCEPT ![c] = "settled"]
    /\ \E outcome \in {attempt[c], "ok", "error"} \ {"none"}, post \in BOOLEAN :
          /\ ~post => outcome = "error"
          /\ slot' = [slot EXCEPT ![c] = Slot(Superseded(c, outcome), post)]
    /\ Returned(c)
    /\ UNCHANGED <<callFrame, failure, ran>>

\* A failure of the registry itself rejects the dispatch; the first one is kept.
DispatchRejects(c) ==
    /\ stage[c] = "wrapper"
    /\ stage' = [stage EXCEPT ![c] = "rejected"]
    /\ failure' = TRUE
    /\ Returned(c)
    /\ UNCHANGED <<callFrame, slot, ran>>

-------------------------------------------------------------------------------
Scheduler ==
    \/ FormGroup \/ Return \/ StartCall \/ StopFilling \/ Prepare \/ TakePrepared \/ Dispatch
    \/ Finalize \/ Commit \/ Refill \/ TakeSettled \/ EndGroup
    \/ Skip \/ AnswerSkipped \/ EndSkipping \/ Drain

Dispatched ==
    \E c \in Calls : InvokeBody(c) \/ BodySettles(c) \/ DispatchSettles(c) \/ DispatchRejects(c)

Next == Abort \/ Reclassify \/ Scheduler \/ Dispatched

\* What the scheduler awaits settles: policies and bodies return, and a wrapper
\* does not call next() again for ever.
Fairness ==
    /\ WF_vars(Scheduler)
    /\ WF_vars(\E c \in Calls : BodySettles(c))
    /\ SF_vars(\E c \in Calls : DispatchSettles(c) \/ DispatchRejects(c))

Spec == Init /\ [][Next]_vars
FairSpec == Spec /\ Fairness

-------------------------------------------------------------------------------
(* Properties *)

Positions == {"group", "fill", "prepare", "prepared", "dispatch", "commit", "wait", "skip",
              "drain", "returned", "threw"}
Slots == {NoSlot} \cup [outcome : Outcomes, post : BOOLEAN]

TypeScheduler ==
    /\ mode \in [Calls -> Modes] /\ signal \in BOOLEAN
    /\ pc \in Positions /\ base \in 0 .. N /\ end \in 0 .. N /\ pool \in Modes
    /\ aborted \in BOOLEAN /\ started \in 0 .. N /\ committed \in 0 .. N /\ failure \in BOOLEAN
    /\ inFlight \subseteq Calls
    /\ startedAs \in [Calls -> Modes \cup {"none"}]
TypeDispatched ==
    /\ stage \in [Calls -> {"none", "wrapper", "body", "settled", "rejected"}]
    /\ slot \in [Calls -> Slots] /\ attempt \in [Calls -> Outcomes \cup {"none"}]
    /\ ran \subseteq Calls
TypeLog ==
    /\ called \in 0 .. N /\ answered \in 0 .. N
    /\ entry \in [type : {"none", "tool/call", "tool/result"}, call : 0 .. N]

\* Every variable keeps the shape the code's types give it (tool-calls.ts:22-39, 135-143).
TypeOK == TypeScheduler /\ TypeDispatched /\ TypeLog

\* Calls and results are recorded in model order, one result per call and never
\* before it, however the dispatches overtake each other (tool-calls.ts:146-161).
LogOrdered == Log!Spec

\* Why these hold: the log counts what the scheduler counts; what is in flight
\* belongs to the current group; and of the started calls the first that is not
\* recorded is still in flight whenever the scheduler is about to wait for it.
Counted ==
    /\ pc \notin {"skip", "returned", "threw"} => called = started /\ answered = committed
    /\ pc = "skip" => answered \in {called - 1, called}
    /\ committed <= started
    /\ pc \notin {"group", "returned", "threw"} => base <= started /\ started <= end
    /\ pc = "group" => base = started /\ committed = started /\ inFlight = {}
    /\ pc \in {"prepare", "prepared", "dispatch", "commit"} => base < started
    /\ \A c \in Calls : slot[c] # NoSlot \/ stage[c] # "none" => c <= started

Grouped ==
    /\ pool = "exclusive" /\ pc # "group" => end <= base + 1
    /\ \A c \in inFlight : base < c /\ c <= started /\ startedAs[c] = pool
    /\ pc \in {"prepare", "prepared", "dispatch"} => startedAs[started] = pool
    /\ pc = "fill" /\ started = base /\ base < end => mode[base + 1] = pool

Awaited ==
    /\ \A c \in Calls : stage[c] = "rejected" => failure
    /\ \A c \in Calls : stage[c] = "settled" => slot[c] # NoSlot
    /\ pc \in {"prepare", "dispatch"} => started \notin inFlight
    /\ pc \in {"prepare", "dispatch", "prepared", "commit", "fill", "wait"} =>
          \A c \in committed + 1 .. started :
              \/ c \in inFlight \/ slot[c] # NoSlot
              \/ pc \in {"prepare", "dispatch"} /\ c = started
    /\ pc \in {"fill", "wait"} /\ committed < started => committed + 1 \in inFlight

Running == {c \in Calls : stage[c] \in {"wrapper", "body"}}

\* What runs is in flight, the pool is filled below its limit, and a failure is
\* noticed at the latest when the dispatch that raised it is taken.
Pooled ==
    /\ Running \subseteq inFlight
    /\ pc \in {"group", "skip", "returned"} => inFlight = {}
    /\ pc = "threw" => Running = {}
Bounded ==
    /\ Cardinality(inFlight) <= Limit
    /\ pc \in {"prepare", "prepared", "dispatch"} => Cardinality(inFlight) < Limit
Failed ==
    /\ failure /\ pc \in {"fill", "wait"} => \E c \in inFlight : stage[c] = "rejected"
    /\ failure => pc \notin {"group", "skip", "returned"}

\* No more dispatches overlap than the configuration allows (tool-calls.ts:200).
PoolBounded == Cardinality(Running) <= Limit

\* A call started as exclusive overlaps with no other dispatch, whatever is
\* reclassified while it runs (tool-calls.ts:79-86, 203-204).
ExclusiveAlone ==
    \A c \in Running : startedAs[c] = "exclusive" => Running = {c}

\* The two rules of the pool: its limit and the barrier of an exclusive call.
PoolKept == PoolBounded /\ ExclusiveAlone

\* When the scheduler returns every call of the step has its result, and after a
\* scheduler failure no result is made up for a call that was not executed
\* (tool-calls.ts:8-11, 232-242).
ResultsAccounted ==
    /\ pc = "returned" => called = N /\ answered = N
    /\ failure => answered = committed

\* The error of tool-calls.ts:245 is unreachable, as the comment above it says.
AllCommitted == pc = "wait" /\ inFlight = {} /\ ~aborted => committed = started

\* The step never ends under a running dispatch, however it ends (tool-calls.ts:232-236).
Quiescent == Finished => Running = {}

\* However the step ends, its calls are accounted for and none of them is still
\* running (tool-calls.ts:218-246).
StepAccounted == ResultsAccounted /\ Quiescent

\* Once the signal is aborted no further call is started and no body is invoked
\* (tool-calls.ts:200, 212, 228; tools/src/index.ts:1557-1560).
NothingStartsAfterAbort ==
    [][signal => started' = started /\ ran' = ran]_vars

\* What a result says of a cancelled call is true of it: "aborted" only where the
\* body was invoked; and of a call whose body was invoked "aborted before
\* dispatch" only where its wrappers called next() again and took a cancelled
\* answer of that call for theirs, however late the abort arrives: in the body,
\* in the wrappers or in the post-execute stage
\* (tools/src/index.ts:1348-1352, 1526-1542, 1557-1560).
CancellationTold ==
    [][\A c \in Calls : slot'[c] # slot[c] =>
          /\ slot'[c].outcome = "aborted" => c \in ran
          /\ slot'[c].outcome = "beforeDispatch" /\ c \in ran =>
                "beforeDispatch" \in {slot[c].outcome, attempt[c]}]_vars

\* The step's calls come to an end (tool-calls.ts:218-246).
Terminates == <>Finished
==============================================================================
