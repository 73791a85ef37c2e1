----------------------------- MODULE AgentDriver -----------------------------
(***************************************************************************)
(* The default agent driver, ReactLoopAgent of                             *)
(* packages/core/agent-loop/src/agent.ts, with its inbox (inbox.ts).       *)
(*                                                                         *)
(* The code is single threaded: other code runs while the driver awaits,   *)
(* and also inside the driver's own calls, because every append and every  *)
(* agent/* emit runs observers that may call back into the agent.  `pc` is *)
(* where the driver's coroutine stands; an action is the code between two  *)
(* points where other code can run.  `calls` is the stack of unfinished    *)
(* synchronous calls, innermost first, and an action that follows an await *)
(* waits until it is empty.                                                *)
(***************************************************************************)
EXTENDS Naturals, Sequences, Functions

CONSTANTS
    Msgs,       \* identities of the user messages that may be sent
    Causes,     \* cancel causes of the callers ("user", "parent", "hook")
    MaxSteps,   \* bound: the model asks for tools only in steps below it
    MaxNest,    \* bound: depth of the stack of unfinished calls
    MaxInsert   \* bound: messages that one inbox command inserts

ASSUME CausesAssumption == Causes \subseteq {"user", "parent", "hook"}
ASSUME BoundsAssumption == MaxSteps \in Nat /\ MaxNest \in Nat /\ MaxInsert \in Nat

VARIABLES
    phase,      \* the Phase union: kind, turn or lastTurn, step, abort, wakeRequested
    pc,         \* where the driver coroutine stands, "off" outside kick()
    calls,      \* unfinished synchronous calls, innermost first
    inbox,      \* the two durable pending lists
    trace,      \* fold of the log's boundary events (SessionTrace)
    last,       \* the boundary event appended last
    turnEnds,   \* local of turn(): how the turn would end
    stepEnd,    \* what step() returned
    target,     \* local of turn(): what the next claim takes
    batch,      \* messages of the proposed or entered step
    decision,   \* what preStep resolved to
    raised,     \* an exception is on its way to turn()'s catch
    again,      \* turn() reached its hasPending check instead of returning early
    disposal,   \* the lifecycle's dispose: "no", "closing", "closed"
    fate,       \* history: what became of each message
    waking      \* history: how a waking send found the driver

turnVars == <<turnEnds, stepEnd, target, batch, decision, raised, again>>
logVars == <<trace, last>>
vars == <<phase, pc, calls, inbox, logVars, turnVars, disposal, fate, waking>>

Targets == {"next-turn", "next-step"}
AllCauses == Causes \cup {"disposed"}
Live == "live"          \* the cause of a signal that is not aborted
StepReasons == {"completed", "max-tokens"}
Reasons == StepReasons \cup {"blocked", "aborted", "error"}

Trace == INSTANCE SessionTrace

-------------------------------------------------------------------------------
(* Phases, calls and the log *)

\* Defect: the turn counter falls back by one when a phase is replaced.
PhaseForgettingTurn(kind, turn) ==
    [kind |-> kind, turn |-> turn - 1, step |-> 0, cause |-> Live, wake |-> FALSE]

Phase(kind, turn) ==
    [kind |-> kind, turn |-> turn, step |-> 0, cause |-> Live, wake |-> FALSE]

Aborted == phase.cause # Live

HasPending == \E t \in Targets : inbox[t] # <<>>

Pending == UNION {Range(inbox[t]) : t \in Targets}

\* The identities callers may try to insert: new ones, and ones that are
\* pending already.
Offered == {m \in Msgs : fate[m] \in {"unsent", "pending"}}

\* mutate() refuses a candidate that would hold an identity twice, in one list
\* or across the two.
Duplicated(lists) == ~IsInjective(lists["next-turn"] \o lists["next-step"])

\* An unfinished call: what it still has to do, and the locals it does it with.
Frame(op, flag, cause) == [op |-> op, flag |-> flag, cause |-> cause]
DriveFrame == Frame("drive", FALSE, Live)

\* Other code may call into the agent, from its own turn of the event loop when
\* `calls` is empty and from an observer of the innermost call otherwise.
\* Between turn()'s decision to stop and its turn/end nothing else runs, except
\* the observers of agent/error.
CanCall ==
    /\ Len(calls) < MaxNest
    /\ disposal # "closed"
    /\ pc = "endTurn" => turnEnds = "error"

\* wakeDriver() runs kick() up to its first await before it returns.
InKick == calls # <<>> /\ Head(calls).op = "drive"
DriverRuns == calls = <<>> \/ InKick
LeaveKick == calls' = IF InKick THEN Tail(calls) ELSE calls

\* Session.append folds the event into the boundary projections at once.
Logged(type, turn, step) ==
    /\ last' = Trace!Event(type, turn, step)
    /\ trace' = CASE type = "turn/start" -> [trace EXCEPT !.openTurn = turn, !.nextStep = 1]
                  [] type = "turn/end" -> [trace EXCEPT !.openTurn = 0, !.nextTurn = @ + 1]
                  [] type = "step/start" -> [trace EXCEPT !.openStep = step]
                  [] type = "step/end" -> [trace EXCEPT !.openStep = 0, !.nextStep = @ + 1]

SetFate(S, f) == fate' = [m \in Msgs |-> IF m \in S THEN f ELSE fate[m]]

\* A driver that starts, or goes on to another turn, serves the wakes latched so far.
Released == [m \in Msgs |-> IF waking[m] \in {"late", "within"} THEN "no" ELSE waking[m]]

Init ==
    /\ phase = Phase("idle", 0) /\ pc = "off" /\ calls = <<>>
    /\ inbox = [t \in Targets |-> <<>>]
    /\ trace = Trace!EmptyTrace /\ last = Trace!NoEvent
    /\ turnEnds = "none" /\ stepEnd = "none" /\ target = "next-turn"
    /\ batch = {} /\ decision = "none" /\ raised = FALSE /\ again = FALSE
    /\ disposal = "no"
    /\ fate = [m \in Msgs |-> "unsent"]
    /\ waking = [m \in Msgs |-> "no"]

-------------------------------------------------------------------------------
(* Calls into the agent *)

\* Defect: the insertion is appended without looking for duplicates.
SendUnchecked(m, list, wakeup) ==
    /\ CanCall /\ m \in Offered
    /\ inbox' = [inbox EXCEPT ![list] = Append(@, m)]
    /\ SetFate({m}, "pending")
    /\ calls' = IF wakeup THEN <<Frame("wake", FALSE, Live)>> \o calls ELSE calls
    /\ UNCHANGED <<phase, pc, logVars, turnVars, disposal, waking>>

\* send() up to the end of its insertion: the classification of the wake, and
\* with it the list, is fixed before the insertion's observers run.  When the
\* insertion throws, send() ends there and wakes nobody.
Send(m, list, wakeup) ==
    LET late == wakeup /\ phase.kind # "idle" /\ Aborted
        to == IF late THEN "next-turn" ELSE list
        sent == [inbox EXCEPT ![to] = Append(@, m)]
        within == \E i \in DOMAIN calls : calls[i].op \in {"clear", "abort"}
        found == CASE ~wakeup \/ phase.kind = "idle" \/ phase.cause = "disposed" -> "no"
                   [] phase.kind = "running" /\ ~late -> "live"
                   [] within -> IF phase.kind = "running" THEN "within" ELSE "no"
                   [] OTHER -> "late"
    IN  /\ CanCall /\ m \in Offered
        /\ IF Duplicated(sent)
           THEN UNCHANGED <<inbox, fate, waking, calls>>
           ELSE /\ inbox' = sent
                /\ SetFate({m}, "pending")
                /\ waking' = [waking EXCEPT ![m] = found]
                /\ calls' = IF wakeup THEN <<Frame("wake", late, Live)>> \o calls ELSE calls
        /\ UNCHANGED <<phase, pc, logVars, turnVars, disposal>>

\* wakeDriver(): start a driver, or latch the wake behind an activity that
\* cannot deliver it.
WakeDriver(afterAbort, rest) ==
    IF phase.kind = "idle"
    THEN /\ phase' = Phase("running", phase.turn)
         /\ pc' = "turn"
         /\ calls' = <<DriveFrame>> \o rest
         /\ waking' = Released
    ELSE /\ phase' = IF phase.cause # "disposed" /\ (phase.kind = "maintenance" \/ afterAbort)
                     THEN [phase EXCEPT !.wake = TRUE] ELSE phase
         /\ calls' = rest
         /\ UNCHANGED <<pc, waking>>

\* The rest of send(), once the insertion's observers have returned.
SendWakes ==
    /\ calls # <<>> /\ Head(calls).op = "wake"
    /\ WakeDriver(Head(calls).flag, Tail(calls))
    /\ UNCHANGED <<inbox, logVars, turnVars, disposal, fate>>

\* The rest of cancel() after inbox.clear(): the first cause of an activity wins.
AbortActivity(cause, dropWake) ==
    /\ phase' = IF phase.kind = "idle" THEN phase
                ELSE [phase EXCEPT !.wake = @ /\ ~dropWake,
                                   !.cause = IF Aborted THEN @ ELSE cause]
    /\ waking' = IF phase.kind # "idle" /\ phase'.cause = "disposed" THEN Released ELSE waking

\* One splice of clear(): the observers of the removal run before the call goes
\* on with what `op` names.
ClearList(list, op, cause, rest) ==
    /\ inbox' = [inbox EXCEPT ![list] = <<>>]
    /\ SetFate(Range(inbox[list]), "canceled")
    /\ calls' = <<Frame(op, TRUE, cause)>> \o rest
    /\ UNCHANGED <<phase, waking>>

\* clear() has emptied next-step: what is queued by now goes too, and then the
\* activity is aborted.
ClearQueued(cause, rest) ==
    IF inbox["next-turn"] # <<>>
    THEN ClearList("next-turn", "abort", cause, rest)
    ELSE AbortActivity(cause, TRUE) /\ calls' = rest /\ UNCHANGED <<inbox, fate>>

\* cancel(): removing nothing has no observers.
CancelWith(cause, keepInbox) ==
    /\ CanCall
    /\ IF keepInbox THEN AbortActivity(cause, FALSE) /\ UNCHANGED <<calls, inbox, fate>>
       ELSE IF inbox["next-step"] # <<>> THEN ClearList("next-step", "clear", cause, calls)
       ELSE ClearQueued(cause, calls)
    /\ UNCHANGED <<pc, logVars, turnVars>>

Cancel(cause, keepInbox) == CancelWith(cause, keepInbox) /\ UNCHANGED disposal

\* The observers of the first removal have returned.
CancelClears ==
    /\ calls # <<>> /\ Head(calls).op = "clear"
    /\ ClearQueued(Head(calls).cause, Tail(calls))
    /\ UNCHANGED <<pc, logVars, turnVars, disposal>>

CancelAborts ==
    /\ calls # <<>> /\ Head(calls).op = "abort"
    /\ AbortActivity(Head(calls).cause, Head(calls).flag)
    /\ calls' = Tail(calls)
    /\ UNCHANGED <<pc, inbox, logVars, turnVars, disposal, fate>>

\* The structural inbox commands, all of them one splice: append, prepend,
\* replace, remove and splice itself.  A duplicate makes the command throw.
Splice(list, start, removed, inserted) ==
    LET old == inbox[list]
        gone == {old[i] : i \in start + 1 .. start + removed}
        spliced == [inbox EXCEPT ![list] =
                        SubSeq(old, 1, start) \o inserted \o SubSeq(old, start + removed + 1, Len(old))]
    IN  /\ CanCall
        /\ start + removed <= Len(old)
        /\ removed > 0 \/ inserted # <<>>
        /\ IF Duplicated(spliced)
           THEN UNCHANGED <<inbox, fate>>
           ELSE /\ inbox' = spliced
                /\ fate' = [m \in Msgs |-> IF m \in Range(inserted) THEN "pending"
                                           ELSE IF m \in gone THEN "canceled" ELSE fate[m]]
        /\ UNCHANGED <<phase, pc, calls, logVars, turnVars, disposal, waking>>

Insertions == UNION {[1 .. n -> Offered] : n \in 0 .. MaxInsert}

EditInbox ==
    \E list \in Targets, inserted \in Insertions :
        \E start, removed \in 0 .. Len(inbox[list]) : Splice(list, start, removed, inserted)

\* runMaintenance(): claims the idle phase; public status stays idle.
RunMaintenance ==
    /\ CanCall
    /\ phase.kind = "idle"
    /\ phase' = Phase("maintenance", phase.turn)
    /\ UNCHANGED <<pc, calls, inbox, logVars, turnVars, disposal, fate, waking>>

\* The maintenance job settled, either way.
EndMaintenance ==
    /\ calls = <<>> /\ phase.kind = "maintenance"
    /\ IF phase.cause # "disposed" /\ phase.wake /\ HasPending
       THEN /\ phase' = Phase("running", phase.turn)
            /\ pc' = "turn"
            /\ calls' = <<DriveFrame>>
            /\ waking' = Released
       ELSE phase' = Phase("idle", phase.turn) /\ UNCHANGED <<pc, calls, waking>>
    /\ UNCHANGED <<inbox, logVars, turnVars, disposal, fate>>

\* The lifecycle's dispose(): a disposed cancel, then whenIdle().
BeginDispose ==
    /\ disposal = "no"
    /\ disposal' = "closing"
    /\ CancelWith("disposed", FALSE)

FinishDispose ==
    /\ disposal = "closing" /\ calls = <<>> /\ phase.kind = "idle"
    /\ disposal' = "closed"
    /\ UNCHANGED <<phase, pc, calls, inbox, logVars, turnVars, fate, waking>>

-------------------------------------------------------------------------------
(* The driver: kick(), turn(), preStep() and step() *)

\* signal.throwIfAborted(), or a failure of what was awaited, inside turn().
Raise == raised' = TRUE /\ pc' = "catch"

\* turn() up to its first await, or its rejection when the signal is aborted.
OpenTurn ==
    /\ pc = "turn" /\ DriverRuns
    /\ IF Aborted
       THEN /\ pc' = "exit" /\ LeaveKick
            /\ UNCHANGED <<phase, logVars, turnVars>>
       ELSE /\ Logged("turn/start", phase.turn + 1, 0)
            /\ phase' = [phase EXCEPT !.turn = @ + 1]
            /\ turnEnds' = "none" /\ target' = "next-turn" /\ again' = FALSE
            /\ pc' = "claim"
            /\ UNCHANGED <<calls, stepEnd, batch, decision, raised>>
    /\ UNCHANGED <<inbox, disposal, fate, waking>>

\* inbox.claim(): all next-step input, and at a turn boundary one queued prompt.
Claimed == Range(inbox["next-step"]) \cup
           (IF target = "next-turn" /\ inbox["next-turn"] # <<>>
            THEN {Head(inbox["next-turn"])} ELSE {})

AfterClaim == [t \in Targets |->
    IF t = "next-turn" /\ (target = "next-step" \/ inbox[t] = <<>>) THEN inbox[t]
    ELSE IF t = "next-turn" THEN Tail(inbox[t]) ELSE <<>>]

Claim ==
    /\ pc = "claim" /\ DriverRuns
    /\ IF Aborted
       THEN /\ Raise
            /\ UNCHANGED <<calls, inbox, fate, batch>>
       ELSE /\ batch' = Claimed
            /\ inbox' = AfterClaim
            /\ SetFate(Claimed, "claimed")
            /\ pc' = "preStep" /\ LeaveKick
            /\ UNCHANGED raised
    /\ UNCHANGED <<phase, logVars, turnEnds, stepEnd, target, decision, again, disposal, waking>>

\* The assembly and the agent/pre-step waterfall settle: aborted or failed, a
\* rejection, or a batch the hooks may have cut down or extended with context.
PreStep ==
    /\ pc = "preStep" /\ calls = <<>>
    /\ \/ Raise /\ UNCHANGED <<decision, batch, fate>>
       \/ /\ ~Aborted
          /\ decision' = "reject"
          /\ pc' = "decide" /\ UNCHANGED <<raised, batch, fate>>
       \/ /\ ~Aborted
          /\ \E kept \in SUBSET batch, d \in {"empty", "some"} :
                /\ kept # {} => d = "some"
                /\ batch' = kept /\ decision' = d
                /\ SetFate(batch \ kept, "dropped")
          /\ pc' = "decide" /\ UNCHANGED raised
    /\ UNCHANGED <<phase, calls, inbox, logVars, turnEnds, stepEnd, target, again, disposal, waking>>

\* Defect: no check of the signal between the decision and step/start.
DecideWithoutCheck ==
    /\ pc = "decide" /\ calls = <<>>
    /\ IF decision = "reject"
       THEN turnEnds' = "blocked" /\ pc' = "endTurn" /\ UNCHANGED <<phase, logVars>>
       ELSE /\ Logged("step/start", phase.turn, phase.step + 1)
            /\ phase' = [phase EXCEPT !.step = @ + 1]
            /\ pc' = "request" /\ UNCHANGED turnEnds
    /\ UNCHANGED <<calls, inbox, stepEnd, target, batch, decision, raised, again, disposal, fate,
                   waking>>

\* turn() goes on with the decision, one microtask after preStep's last check.
Decide ==
    /\ pc = "decide" /\ calls = <<>>
    /\ CASE decision = "reject" ->
              /\ turnEnds' = "blocked" /\ pc' = "endTurn"
              /\ UNCHANGED <<phase, logVars, raised, again>>
         [] decision = "empty" /\ turnEnds # "none" ->
              /\ pc' = "endTurn" /\ again' = TRUE
              /\ UNCHANGED <<phase, logVars, turnEnds, raised>>
         [] decision = "empty" /\ turnEnds = "none" /\ phase.step = 0 ->
              /\ turnEnds' = "completed" /\ pc' = "endTurn"
              /\ UNCHANGED <<phase, logVars, raised, again>>
         [] OTHER ->
              IF Aborted
              THEN Raise /\ UNCHANGED <<phase, logVars, turnEnds, again>>
              ELSE /\ Logged("step/start", phase.turn, phase.step + 1)
                   /\ phase' = [phase EXCEPT !.step = @ + 1]
                   /\ pc' = "request"
                   /\ UNCHANGED <<turnEnds, raised, again>>
    /\ UNCHANGED <<calls, inbox, stepEnd, target, batch, decision, disposal, fate, waking>>

\* step() leaves with an exception: step/end is still appended.
Fail == raised' = TRUE /\ pc' = "stepEnd"

stepFrame == <<phase, calls, inbox, logVars, turnEnds, target, batch, decision, again, disposal, waking>>

\* prepareRequest(): no input is admitted before both of its awaits succeeded.
Request ==
    /\ pc = "request" /\ calls = <<>>
    /\ \/ Fail
       \/ ~Aborted /\ pc' = "admit" /\ UNCHANGED raised
    /\ UNCHANGED <<stepFrame, stepEnd, fate>>

\* The first attempt of a step appends its messages, each with its observers.
\* What a hook put into the batch may be refused, and leaves the rest unadmitted.
Admit ==
    /\ pc = "admit" /\ calls = <<>>
    /\ \E m \in batch :
          /\ fate[m] = "claimed"
          /\ \/ SetFate({m}, "committed") /\ UNCHANGED <<pc, raised>>
             \/ Fail /\ UNCHANGED fate
    /\ UNCHANGED <<stepFrame, stepEnd>>

\* Defect: the request is built before the accepted input is in the log.
BuildBeforeAdmission ==
    /\ pc = "admit" /\ calls = <<>>
    /\ IF Aborted THEN Fail ELSE pc' = "stream" /\ UNCHANGED raised
    /\ UNCHANGED <<stepFrame, stepEnd, fate>>

\* buildRequest() and the start of the stream.
Build ==
    /\ pc = "admit" /\ calls = <<>>
    /\ \A m \in batch : fate[m] # "claimed"
    /\ IF Aborted THEN Fail ELSE pc' = "stream" /\ UNCHANGED raised
    /\ UNCHANGED <<stepFrame, stepEnd, fate>>

\* The provider's stream ends: interrupted, in error, or with a message.
Stream ==
    /\ pc = "stream" /\ calls = <<>>
    /\ \/ Fail /\ UNCHANGED stepEnd
       \/ /\ ~Aborted
          /\ \/ pc' = "recover" /\ UNCHANGED stepEnd
             \/ pc' = "tools" /\ UNCHANGED stepEnd
             \/ pc' = "stepEnd" /\ stepEnd' \in StepReasons
          /\ UNCHANGED raised
    /\ UNCHANGED <<stepFrame, fate>>

\* agent/request-error: retry in the same step, or fail.
Recover ==
    /\ pc = "recover" /\ calls = <<>>
    /\ \/ Fail
       \/ ~Aborted /\ pc' = "request" /\ UNCHANGED raised
    /\ UNCHANGED <<stepFrame, stepEnd, fate>>

\* executeToolCalls(): a result concluded the turn, or the tools owe a request.
Tools ==
    /\ pc = "tools" /\ calls = <<>>
    /\ \/ Fail /\ UNCHANGED stepEnd
       \/ pc' = "stepEnd" /\ stepEnd' = "completed" /\ UNCHANGED raised
       \/ /\ phase.step < MaxSteps
          /\ pc' = "stepEnd" /\ stepEnd' = "none" /\ UNCHANGED raised
    /\ UNCHANGED <<stepFrame, fate>>

\* Defect: step/end is not appended when the step throws.
EndStepOnSuccess ==
    /\ pc = "stepEnd" /\ calls = <<>>
    /\ IF raised
       THEN pc' = "catch" /\ UNCHANGED <<turnEnds, logVars>>
       ELSE /\ Logged("step/end", phase.turn, phase.step)
            /\ turnEnds' = IF turnEnds = "max-tokens" THEN turnEnds ELSE stepEnd
            /\ pc' = "boundary"
    /\ UNCHANGED <<phase, calls, inbox, stepEnd, target, batch, decision, raised, again,
                   disposal, fate, waking>>

\* max-tokens is sticky.
EndStep ==
    /\ pc = "stepEnd" /\ calls = <<>>
    /\ Logged("step/end", phase.turn, phase.step)
    /\ IF raised
       THEN pc' = "catch" /\ UNCHANGED turnEnds
       ELSE /\ turnEnds' = IF turnEnds = "max-tokens" THEN turnEnds ELSE stepEnd
            /\ pc' = "boundary"
    /\ UNCHANGED <<phase, calls, inbox, stepEnd, target, batch, decision, raised, again,
                   disposal, fate, waking>>

NextStep == target' = "next-step" /\ pc' = "claim"
Break == pc' = "endTurn" /\ again' = TRUE

\* After step/end: stop when nothing is owed, else claim for another step.
Boundary ==
    /\ pc = "boundary" /\ calls = <<>>
    /\ IF Aborted THEN Raise /\ UNCHANGED target
       ELSE IF turnEnds # "none" /\ inbox["next-step"] = <<>>
            THEN pc' = "stopping" /\ UNCHANGED <<raised, target>>
            ELSE NextStep /\ UNCHANGED raised
    /\ UNCHANGED <<phase, calls, inbox, logVars, turnEnds, stepEnd, batch, decision, again,
                   disposal, fate, waking>>

\* agent/turn-stopping settles; its listeners may have steered.
Stopping ==
    /\ pc = "stopping" /\ calls = <<>>
    /\ \/ Raise /\ UNCHANGED <<target, again>>
       \/ ~Aborted /\ inbox["next-step"] = <<>> /\ Break /\ UNCHANGED <<raised, target>>
       \/ ~Aborted /\ inbox["next-step"] # <<>> /\ NextStep /\ UNCHANGED <<raised, again>>
    /\ UNCHANGED <<phase, calls, inbox, logVars, turnEnds, stepEnd, batch, decision,
                   disposal, fate, waking>>

\* turn()'s catch: a cause is present exactly while the signal is aborted.
Catch ==
    /\ pc = "catch" /\ DriverRuns
    /\ turnEnds' = IF Aborted THEN "aborted" ELSE "error"
    /\ again' = FALSE
    /\ pc' = "endTurn"
    /\ UNCHANGED <<phase, calls, inbox, logVars, stepEnd, target, batch, decision, raised,
                   disposal, fate, waking>>

\* turn()'s finally: the turn is closed whatever happened, and input that was
\* claimed and never admitted is gone with it.
EndTurn ==
    /\ pc = "endTurn" /\ DriverRuns
    /\ Logged("turn/end", phase.turn, 0)
    /\ SetFate({m \in Msgs : fate[m] = "claimed"}, "dropped")
    /\ pc' = IF again THEN "requeue" ELSE "exit"
    /\ raised' = FALSE /\ batch' = {} /\ decision' = "none"
    /\ IF again THEN UNCHANGED calls ELSE LeaveKick
    /\ UNCHANGED <<phase, inbox, turnEnds, stepEnd, target, again, disposal, waking>>

\* Queued work keeps the driver going, under a fresh signal.
Requeue ==
    /\ pc = "requeue" /\ calls = <<>>
    /\ IF HasPending
       THEN /\ phase' = Phase("running", phase.turn)
            /\ pc' = "turn" /\ waking' = Released
       ELSE pc' = "exit" /\ UNCHANGED <<phase, waking>>
    /\ UNCHANGED <<calls, inbox, logVars, turnVars, disposal, fate>>

\* Defect: the latch is read after the phase was replaced.
ExitReadingLate ==
    /\ pc = "exit" /\ calls = <<>>
    /\ phase' = Phase("idle", phase.turn)
    /\ pc' = "off"
    /\ calls' = <<Frame("retire", phase'.wake, Live)>>
    /\ UNCHANGED <<inbox, logVars, turnVars, disposal, fate, waking>>

\* kick()'s finally reads the latch, then publishes idle to its observers.
Exit ==
    /\ pc = "exit" /\ calls = <<>>
    /\ phase' = Phase("idle", phase.turn)
    /\ pc' = "off"
    /\ calls' = <<Frame("retire", phase.wake, Live)>>
    /\ UNCHANGED <<inbox, logVars, turnVars, disposal, fate, waking>>

\* ... and replays the latched wake when the queue still holds something.
Retire ==
    /\ calls # <<>> /\ Head(calls).op = "retire"
    /\ IF Head(calls).flag /\ HasPending
       THEN WakeDriver(FALSE, Tail(calls))
       ELSE calls' = Tail(calls) /\ UNCHANGED <<phase, pc, waking>>
    /\ UNCHANGED <<inbox, logVars, turnVars, disposal, fate>>

-------------------------------------------------------------------------------
Callers ==
    \/ \E m \in Msgs : \/ Send(m, "next-turn", TRUE)    \* followup
                       \/ Send(m, "next-step", TRUE)    \* steer
                       \/ Send(m, "next-step", FALSE)   \* inject, acceptContext
    \/ \E cause \in Causes, keepInbox \in BOOLEAN : Cancel(cause, keepInbox)
    \/ EditInbox
    \/ RunMaintenance
    \/ BeginDispose

Returns == SendWakes \/ CancelClears \/ CancelAborts \/ Retire

Driver ==
    \/ OpenTurn \/ Claim \/ PreStep \/ Decide \/ Request \/ Admit \/ Build \/ Stream
    \/ Recover \/ Tools \/ EndStep \/ Boundary \/ Stopping \/ Catch \/ EndTurn
    \/ Requeue \/ Exit \/ EndMaintenance

Next == Callers \/ Returns \/ Driver \/ FinishDispose

\* Calls return, and everything the driver awaits settles in the end; nobody
\* has to call into the agent.
Fairness == WF_vars(Returns \/ Driver)

Spec == Init /\ [][Next]_vars
FairSpec == Spec /\ Fairness

-------------------------------------------------------------------------------
(* Properties *)

Causes0 == AllCauses \cup {Live}
Phases == [kind : {"idle", "maintenance", "running"}, turn : Nat, step : Nat, cause : Causes0,
           wake : BOOLEAN]
Frames == [op : {"wake", "clear", "abort", "drive", "retire"}, flag : BOOLEAN, cause : Causes0]
Positions == {"off", "turn", "claim", "preStep", "decide", "request", "admit", "stream", "recover",
              "tools", "stepEnd", "boundary", "stopping", "catch", "endTurn", "requeue", "exit"}
Traces == [openTurn : Nat, openStep : Nat, nextTurn : Nat, nextStep : Nat]
Events == [type : {"none", "turn/start", "turn/end", "step/start", "step/end"}, turn : Nat, step : Nat]
Fates == {"unsent", "pending", "claimed", "committed", "dropped", "canceled"}
Wakings == {"no", "live", "late", "within"}

TypePhase == phase \in Phases /\ pc \in Positions /\ trace \in Traces /\ last \in Events
TypeTurn ==
    /\ turnEnds \in Reasons \cup {"none"} /\ stepEnd \in StepReasons \cup {"none"}
    /\ target \in Targets /\ batch \subseteq Msgs
    /\ decision \in {"none", "reject", "empty", "some"}
    /\ raised \in BOOLEAN /\ again \in BOOLEAN /\ disposal \in {"no", "closing", "closed"}
TypeInbox ==
    /\ inbox \in [Targets -> Seq(Msgs)]
    /\ fate \in [Msgs -> Fates] /\ waking \in [Msgs -> Wakings]
TypeCalls == calls \in Seq(Frames)

\* Every variable keeps the shape the code's types give it (agent.ts:41-59, inbox.ts:20-24).
TypeOK == TypePhase /\ TypeTurn /\ TypeInbox /\ TypeCalls

InStep == {"request", "admit", "stream", "recover", "tools", "stepEnd"}
InTurn == InStep \cup {"claim", "preStep", "decide", "boundary", "stopping", "catch", "endTurn"}

\* Where the coroutine stands decides which turn and step are open in the log,
\* and the phase's counters are the numbers the log expects next.  This is the
\* strengthening that makes TraceOK inductive.
DriverTrace ==
    /\ phase.kind = "running" <=> pc # "off"
    /\ trace.openTurn = IF pc \in InTurn THEN phase.turn ELSE 0
    /\ trace.nextTurn = IF pc \in InTurn THEN phase.turn ELSE phase.turn + 1
    /\ trace.openStep = IF pc \in InStep THEN phase.step ELSE 0
    /\ pc \in InTurn => /\ phase.turn # 0
                        /\ trace.nextStep = IF pc \in InStep THEN phase.step ELSE phase.step + 1
    /\ pc \in InStep => phase.step # 0
    /\ pc = "turn" => phase.step = 0

\* The log the driver writes is a session trace: turns and steps are numbered
\* without gaps, never overlap and are closed in order, through every
\* interleaving of cancels, failures and wakes (session/src/invariant.ts:54-173).
TraceOK == Trace!Spec

\* A pending identity stands in one place of one list, whatever callers try to
\* insert, and a message that left the lists was claimed or cancelled: none is
\* lost or duplicated (inbox.ts:218-225).
InboxConsistent ==
    /\ \A t \in Targets : IsInjective(inbox[t])
    /\ Range(inbox["next-turn"]) \cap Range(inbox["next-step"]) = {}
    /\ \A m \in Msgs : fate[m] = "pending" <=> m \in Pending

Settled == phase.kind = "idle" /\ calls = <<>>

ClosesTurn == trace.openTurn # 0 /\ trace'.openTurn = 0

\* A turn that ends as completed or max-tokens has put every message it claimed
\* into the log, unless a hook took it out (agent.ts:270-283, 401-405).
ClaimAccounted ==
    [][ClosesTurn /\ turnEnds \in StepReasons => \A m \in Msgs : fate[m] # "claimed"]_vars

\* After an abort the turn opens no further step and starts no further request,
\* wherever the abort arrived (agent.ts:313, 327, 340, 384, 562-627).
AbortStops ==
    [][phase.kind = "running" /\ Aborted =>
          /\ trace'.openStep \in {trace.openStep, 0}
          /\ pc' = "stream" => pc = "stream"]_vars

\* turn() has left its loop with an ending of its own: no check of the signal is
\* left on its way to the next turn, which gets a fresh one (agent.ts:320, 345, 372-376).
TurnOver ==
    \/ pc = "decide" /\ decision = "empty" /\ turnEnds # "none"
    \/ pc \in {"endTurn", "requeue"} /\ again

\* A driver that is aborted before its turn is over goes idle, whatever it was
\* awaiting; an abort that comes later may be forgotten with the signal it
\* aborted, when input is queued (agent.ts:251-264, 373).
AbortConverges == (phase.kind = "running" /\ Aborted /\ ~TurnOver) ~> phase.kind = "idle"

\* An abort is honoured: it stops the activity at the next place that looks at the
\* signal, and the activity retires unless its turn was over (agent.ts:251-264, 313-384).
AbortHonoured == AbortStops /\ AbortConverges

\* A wake latched behind an activity is served: its message is claimed,
\* cancelled or handed to a driver that started for it (agent.ts:213-221).
LateWakeServed ==
    \A m \in Msgs : (waking[m] = "late" /\ fate[m] = "pending")
                      ~> (waking[m] # "late" \/ fate[m] # "pending")

-------------------------------------------------------------------------------
(* What comments and docs say and the code does not do *)

\* Live drivers claim queued work themselves (agent.ts:216): none is left when a
\* driver that closed its last turn normally goes idle.
LiveDriverClaims ==
    Settled /\ again => \A m \in Msgs : waking[m] = "live" => fate[m] # "pending"
===============================================================================
