------------------------------- MODULE Schedule -------------------------------
(***************************************************************************)
(* The reminders of one session (packages/schedule/schedule): the runtime  *)
(* of its live root agent (runtime.ts), the tools and the archive stop     *)
(* that change them (tools.ts, index.ts), the queue that serializes both   *)
(* (transaction.ts), and as much of the agent and of persistence as they   *)
(* see.                                                                    *)
(*                                                                         *)
(* The log is kept as its folds: log[1] is the fold of what is stored, the *)
(* last one the fold of the live session, and there is one for every event *)
(* in between. An event is a schedule/change or the message of a reminder  *)
(* entering the inbox, which is recorded in the same log. Time is coarse;  *)
(* prompts, calendars, and the decoder of the strict replay are left out.  *)
(***************************************************************************)
EXTENDS Naturals, Sequences, FiniteSets

CONSTANTS
    MaxId,      \* the ids are schedule-1 up to schedule-MaxId
    Calls,      \* tool calls and archive stops
    drive,      \* the runtime's own entry in the queue
    Delays,     \* the delays of one-shot reminders
    Interval,   \* of fixed-rate reminders
    MaxDelay,   \* MAX_TIMER_DELAY_MS
    Horizon,    \* bounds the clock
    Turns,      \* bounds the turns and maintenance jobs of others
    Lives       \* bounds the runtimes, one after the other

ASSUME DriveAssumption == drive \notin Calls
ASSUME BoundAssumption ==
    /\ MaxId \in Nat /\ Horizon \in Nat /\ Turns \in Nat /\ Lives \in Nat \ {0}
    /\ Delays \subseteq Nat \ {0} /\ Interval \in Nat \ {0} /\ MaxDelay \in Nat \ {0}

VARIABLES
    log,        \* the stored fold, and one more for each event not stored yet
    need,       \* how many of those the flush in progress still waits for
    clock,      \* Date.now()
    agent,      \* its phase, the wake latched behind maintenance, and a budget
    runtime,    \* the fields of ScheduleRuntime and how far its run has come
    calls,      \* of each call: what it is for and how it stands
    queue,      \* the transactions in order; the first one is under way
    lives       \* how many runtimes there have been

vars == <<log, need, clock, agent, runtime, calls, queue, lives>>

Ids == 1 .. MaxId
Off == 0        \* no timer: every target is later than this

Absent == [st |-> "absent", every |-> FALSE, at |-> 0, told |-> 0]
Pending(every, at) == [Absent EXCEPT !.st = "active", !.every = every, !.at = at]

Stored == log[1]
Live == log[Len(log)]
Active == {r \in Ids : Live[r].st = "active"}
Unsaved == Len(log) - 1

\* start() of a runtime whose constructor has just returned.
Started == [life |-> "live", run |-> "queued", requested |-> FALSE, faulted |-> FALSE,
            timer |-> Off, idleWait |-> FALSE, failed |-> FALSE]
Down == [Started EXCEPT !.life = "down", !.run = "none"]

\* Sessions come with the reminders an earlier process left active.
Restored == {f \in [Ids -> {Absent} \cup {Pending(every, 1) : every \in BOOLEAN}] :
                \A q, r \in Ids : q < r /\ f[q] = Absent => f[r] = Absent}

Init ==
    /\ \E f \in Restored : log = <<f>>
    /\ need = 0 /\ clock = 0 /\ lives = 1
    /\ agent = [phase |-> "idle", woken |-> FALSE, spent |-> 0]
    /\ runtime = Started
    /\ calls = [c \in Calls |-> [st |-> "idle", op |-> "list", ids |-> {}]]
    /\ queue = <<drive>>

-------------------------------------------------------------------------------
(* requestDrive() and the queue *)

Drivable(rt) == rt.life = "live" /\ ~rt.faulted

\* A run in progress takes the request up, otherwise one starts and lines up.
Asked(rt) ==
    IF ~Drivable(rt) THEN rt
    ELSE [rt EXCEPT !.timer = Off, !.failed = FALSE, !.requested = rt.run # "none",
                    !.run = IF rt.run = "none" THEN "queued" ELSE rt.run]

\* Defect: a trigger lines up beside the run in progress.
LinedUpTwice(rt, q) == IF Drivable(rt) THEN Append(q, drive) ELSE q

LinedUp(rt, q) == IF Drivable(rt) /\ rt.run = "none" THEN Append(q, drive) ELSE q

RequestDrive == runtime' = Asked(runtime) /\ queue' = LinedUp(runtime, queue)

First(t) == queue # <<>> /\ Head(queue) = t

\* The persistence barrier: everything appended before it is stored in the end,
\* one event after the other, unless the flush fails and leaves the rest waiting.
Save ==
    /\ Len(log) > 1
    /\ log' = Tail(log)
    /\ need' = IF need = 0 THEN 0 ELSE need - 1
    /\ UNCHANGED <<clock, agent, runtime, calls, queue, lives>>

Flushed == need = 0

-------------------------------------------------------------------------------
(* driveOnce() *)

Before(f, q, r) == f[q].at < f[r].at \/ (f[q].at = f[r].at /\ q < r)
Due == {r \in Active : Live[r].at <= clock}
OneShots == {r \in Due : ~Live[r].every}

\* The first one-shot due, or all that is due of the fixed rate.
Batch == IF OneShots = {} THEN Due
         ELSE {r \in OneShots : \A q \in OneShots \ {r} : Before(Live, r, q)}

\* The record after its dispatch: the first aligned target after the decision.
Dispatched(rec, now) ==
    IF rec.every
    THEN [rec EXCEPT !.at = @ + Interval * ((now - @) \div Interval + 1), !.told = 0]
    ELSE [rec EXCEPT !.st = "dispatched"]

\* The folds from f to g, record by record, in the order of rank.
Steps(f, g, rank) ==
    [i \in 1 .. Cardinality(DOMAIN rank) |->
        [r \in Ids |-> IF r \in DOMAIN rank /\ rank[r] <= i THEN g[r] ELSE f[r]]]

ByTarget(f, S) == [r \in S |-> Cardinality({q \in S : Before(f, q, r)}) + 1]
ById(S) == [r \in S |-> Cardinality({q \in S : q <= r})]

\* What the message, and then the dispatches, make of the live fold.
Telling == [r \in Ids |-> IF r \in Batch THEN [Live[r] EXCEPT !.told = @ + 1] ELSE Live[r]]
Dispatches ==
    Steps(Telling, [r \in Ids |-> Dispatched(Telling[r], clock)], ByTarget(Live, Batch))

Drives(stage) == First(drive) /\ runtime.run = stage

\* The transaction is over; runRequested() looks for another request.
Leaves(rt) ==
    /\ runtime' = [rt EXCEPT !.run = "looping"]
    /\ queue' = Tail(queue)
    /\ need' = 0

\* A stopping runtime does nothing in its turn.
Enter ==
    /\ Drives("queued")
    /\ IF runtime.life = "live"
       THEN /\ runtime' = [runtime EXCEPT !.run = "preflight", !.timer = Off]
            /\ need' = Unsaved
            /\ UNCHANGED queue
       ELSE Leaves([runtime EXCEPT !.timer = Off])
    /\ UNCHANGED <<log, clock, agent, calls, lives>>

\* Neither a failed preflight nor a failed barrier is tried again.
DriveFails ==
    /\ Drives("preflight") \/ Drives("barrier")
    /\ Leaves([runtime EXCEPT !.failed = TRUE])
    /\ UNCHANGED <<log, clock, agent, calls, lives>>

\* Defect: the fold is read while the preflight is still under way.
PreflightedEarly == Drives("preflight") /\ runtime.life = "live"

Preflighted == Drives("preflight") /\ Flushed /\ runtime.life = "live"

Stopped ==
    /\ Drives("preflight") /\ Flushed /\ runtime.life # "live"
    /\ Leaves(runtime)
    /\ UNCHANGED <<log, clock, agent, calls, lives>>

Earlier(a, b) == IF a < b THEN a ELSE b

Arm ==
    /\ Preflighted /\ Due = {}
    /\ \/ Active = {} /\ Leaves(runtime)
       \/ \E r \in Active :
             /\ \A q \in Active : Live[r].at <= Live[q].at
             /\ Leaves([runtime EXCEPT !.timer = Earlier(Live[r].at, clock + MaxDelay)])
    /\ UNCHANGED <<log, clock, agent, calls, lives>>

\* Defect: a busy agent is left to its status event.
BusyIgnored ==
    /\ Preflighted /\ Due # {} /\ agent.phase # "idle"
    /\ Leaves(runtime)
    /\ UNCHANGED <<log, clock, agent, calls, lives>>

\* Another activity owns the agent: wait for its end outside the transaction.
Busy ==
    /\ Preflighted /\ Due # {} /\ agent.phase # "idle"
    /\ Leaves([runtime EXCEPT !.idleWait = TRUE])
    /\ UNCHANGED <<log, clock, agent, calls, lives>>

\* runMaintenance() runs the job at once; its release comes some microtasks later.
Claims(stage, told, rt) ==
    /\ Preflighted /\ Due # {} /\ agent.phase = "idle"
    /\ agent' = [agent EXCEPT !.phase = "ours", !.woken = told]
    /\ runtime' = [rt EXCEPT !.run = stage]
    /\ UNCHANGED <<need, clock, calls, queue, lives>>

\* Defect: the dispatch is recorded before the message.
DeliverRecordedFirst ==
    /\ Claims("delivered", TRUE, runtime)
    /\ log' = log \o Steps(Live, [r \in Ids |-> Dispatched(Live[r], clock)], ByTarget(Live, Batch))

\* followup(), which latches its wake, and then the dispatches.
Deliver ==
    /\ Claims("delivered", TRUE, runtime)
    /\ log' = Append(log, Telling) \o Dispatches

FollowupFails ==
    /\ Claims("declined", FALSE, [runtime EXCEPT !.failed = TRUE])
    /\ UNCHANGED log

\* Defect: a failed append leaves the runtime to drive again.
Fault(rt) == [rt EXCEPT !.failed = TRUE]

\* The message is out and the dispatches are not: never drive again.
Faulted(rt) == [rt EXCEPT !.faulted = TRUE, !.timer = Off]

AppendFails ==
    /\ Claims("declined", TRUE, Faulted(runtime))
    /\ \E k \in 0 .. Len(Dispatches) - 1 :
          log' = Append(log, Telling) \o SubSeq(Dispatches, 1, k)

\* The end of maintenance replays the latched wake.
Release ==
    /\ agent.phase = "ours"
    /\ agent' = [agent EXCEPT !.phase = IF agent.woken THEN "running" ELSE "idle", !.woken = FALSE]
    /\ \/ /\ Drives("delivered")
          /\ runtime' = [runtime EXCEPT !.run = "barrier"]
          /\ need' = Unsaved
          /\ UNCHANGED queue
       \/ Drives("declined") /\ Leaves(runtime)
    /\ UNCHANGED <<log, clock, calls, lives>>

Barrier ==
    /\ Drives("barrier") /\ Flushed
    /\ Leaves(Asked(runtime))
    /\ UNCHANGED <<log, clock, agent, calls, lives>>

\* One more round for a trigger that came during the last.
Loop ==
    /\ runtime.run = "looping"
    /\ IF runtime.requested /\ Drivable(runtime)
       THEN /\ runtime' = [runtime EXCEPT !.run = "queued", !.requested = FALSE, !.failed = FALSE]
            /\ queue' = Append(queue, drive)
       ELSE runtime' = [runtime EXCEPT !.run = "settled"] /\ UNCHANGED queue
    /\ UNCHANGED <<log, need, clock, agent, calls, lives>>

\* Defect: a trigger in the gap before the run retires is forgotten.
RetireSilently ==
    /\ runtime.run = "settled" /\ runtime.life # "down"
    /\ runtime' = [runtime EXCEPT !.run = "none", !.requested = FALSE]
    /\ UNCHANGED <<log, need, clock, agent, calls, queue, lives>>

\* retire(): the run's promise is settled, and a trigger may have come since.
Retire ==
    /\ runtime.run = "settled" /\ runtime.life # "down"
    /\ LET retired == [runtime EXCEPT !.run = "none"]
       IN  IF runtime.requested
           THEN runtime' = Asked(retired) /\ queue' = LinedUp(retired, queue)
           ELSE runtime' = retired /\ UNCHANGED queue
    /\ UNCHANGED <<log, need, clock, agent, calls, lives>>

\* A segment of a long wait ends, or the clock was set back meanwhile: the
\* callback knows neither and rechecks.
Fire ==
    /\ runtime.timer # Off
    /\ RequestDrive
    /\ UNCHANGED <<log, need, clock, agent, calls, lives>>

\* whenIdle() resolves.
IdleHeard ==
    /\ runtime.idleWait /\ agent.phase = "idle"
    /\ runtime' = Asked([runtime EXCEPT !.idleWait = FALSE])
    /\ queue' = LinedUp(runtime, queue)
    /\ UNCHANGED <<log, need, clock, agent, calls, lives>>

-------------------------------------------------------------------------------
(* The agent *)

\* A turn for a user, or a maintenance job of someone else.
StartOther(phase) ==
    /\ agent.phase = "idle" /\ agent.spent < Turns
    /\ agent' = [agent EXCEPT !.phase = phase, !.spent = @ + 1]
    /\ UNCHANGED <<log, need, clock, runtime, calls, queue, lives>>

InFlight(c) == calls[c].st \in {"queued", "preflight", "barrier"}

\* The driver waits for the bodies of its calls. Only a turn changes the status,
\* and the listener asks for a drive once the session has had any reminder.
EndTurn ==
    /\ agent.phase = "running"
    /\ \A c \in Calls : InFlight(c) => calls[c].op = "stop"
    /\ agent' = [agent EXCEPT !.phase = "idle"]
    /\ IF \E r \in Ids : Live[r].st # "absent" THEN RequestDrive ELSE UNCHANGED <<runtime, queue>>
    /\ UNCHANGED <<log, need, clock, calls, lives>>

EndMaintenance ==
    /\ agent.phase = "other"
    /\ agent' = [agent EXCEPT !.phase = "idle"]
    /\ UNCHANGED <<log, need, clock, runtime, calls, queue, lives>>

\* cancel() during our maintenance empties the inbox and drops the latched wake.
Cancel ==
    /\ agent.phase = "ours" /\ agent.woken
    /\ agent' = [agent EXCEPT !.woken = FALSE]
    /\ UNCHANGED <<log, need, clock, runtime, calls, queue, lives>>

Tick ==
    /\ clock < Horizon
    /\ clock' = clock + 1
    /\ UNCHANGED <<log, need, agent, runtime, calls, queue, lives>>

-------------------------------------------------------------------------------
(* schedule_create, schedule_delete, schedule_list, and the archive stop *)

Room == Cardinality({r \in Ids : Live[r].st = "absent"})
        > Cardinality({c \in Calls : calls[c].op = "create" /\ InFlight(c)})

\* A tool call comes from a turn, a stop from a session being archived.
Ask(c, op, ids) ==
    /\ calls[c].st = "idle" /\ runtime.life = "live"
    /\ IF op = "stop" THEN ~runtime.faulted ELSE agent.phase = "running"
    /\ op = "create" => Room
    /\ calls' = [calls EXCEPT ![c] = [st |-> "queued", op |-> op, ids |-> ids]]
    /\ queue' = Append(queue, c)
    /\ UNCHANGED <<log, need, clock, agent, runtime, lives>>

\* The first call of its turn starts its preflight, unless it was cancelled by then.
Begin(c) ==
    /\ First(c) /\ calls[c].st = "queued"
    /\ \/ /\ calls' = [calls EXCEPT ![c].st = "preflight"]
          /\ need' = Unsaved
          /\ UNCHANGED queue
       \/ /\ calls[c].op # "stop"
          /\ calls' = [calls EXCEPT ![c].st = "unchanged"]
          /\ queue' = Tail(queue)
          /\ UNCHANGED need
    /\ UNCHANGED <<log, clock, agent, runtime, lives>>

Answers(c, st) == calls' = [calls EXCEPT ![c].st = st] /\ need' = 0

\* persistence_uncertain: what was appended stays, for the next flush to store.
CallFails(c) ==
    /\ First(c) /\ calls[c].st \in {"preflight", "barrier"}
    /\ Answers(c, "uncertain")
    /\ queue' = Tail(queue)
    /\ UNCHANGED <<log, clock, agent, runtime, lives>>

Ready(c) == First(c) /\ calls[c].st = "preflight" /\ Flushed

\* The events are appended, and the barrier starts.
Appends(c, ids, events) ==
    /\ log' = log \o events
    /\ need' = Unsaved + Len(events)
    /\ calls' = [calls EXCEPT ![c].st = "barrier", ![c].ids = ids]
    /\ UNCHANGED <<clock, agent, lives>>

\* schedule_list, an id that is not active, a rejected input, a caller cancelled
\* before the append: the runtime is asked to drive, and nothing is appended.
Look(c) ==
    /\ Ready(c) /\ calls[c].op # "stop"
    /\ Answers(c, "unchanged")
    /\ runtime' = Asked(runtime)
    /\ queue' = Tail(LinedUp(runtime, queue))
    /\ UNCHANGED <<log, clock, agent, lives>>

Create(c) ==
    /\ Ready(c) /\ calls[c].op = "create"
    /\ RequestDrive
    /\ \E r \in Ids : \E rec \in {Pending(TRUE, clock + Interval)}
                                 \cup {Pending(FALSE, clock + d) : d \in Delays} :
          /\ Live[r] = Absent /\ \A q \in Ids : q < r => Live[q] # Absent
          /\ Appends(c, {r}, <<[Live EXCEPT ![r] = rec]>>)

Deletions(S) == Steps(Live, [r \in Ids |-> [Live[r] EXCEPT !.st = "deleted"]], ById(S))

Delete(c) ==
    /\ Ready(c) /\ calls[c].op = "delete" /\ calls[c].ids \subseteq Active
    /\ RequestDrive
    /\ Appends(c, calls[c].ids, Deletions(calls[c].ids))

\* workspace/session-stop answers from its runtime's fold, if it still has one.
Stop(c) ==
    /\ Ready(c) /\ calls[c].op = "stop"
    /\ IF Drivable(runtime) /\ Active # {}
       THEN RequestDrive /\ Appends(c, Active, Deletions(Active))
       ELSE /\ Answers(c, "unchanged")
            /\ queue' = Tail(queue)
            /\ UNCHANGED <<log, clock, agent, runtime, lives>>

\* Defect: the call is answered before its barrier is through.
ConfirmEarly(c) ==
    /\ First(c) /\ calls[c].st = "barrier"
    /\ Answers(c, "confirmed")
    /\ IF calls[c].op = "stop" THEN UNCHANGED runtime /\ queue' = Tail(queue)
       ELSE runtime' = Asked(runtime) /\ queue' = Tail(LinedUp(runtime, queue))
    /\ UNCHANGED <<log, clock, agent, lives>>

Confirm(c) ==
    /\ First(c) /\ calls[c].st = "barrier" /\ Flushed
    /\ Answers(c, "confirmed")
    /\ IF calls[c].op = "stop" THEN UNCHANGED runtime /\ queue' = Tail(queue)
       ELSE runtime' = Asked(runtime) /\ queue' = Tail(LinedUp(runtime, queue))
    /\ UNCHANGED <<log, clock, agent, lives>>

-------------------------------------------------------------------------------
(* The end of a runtime, and the next one *)

\* dispose(): of the agent, or of the plugin while the agent goes on.
Dispose ==
    /\ runtime.life = "live"
    /\ runtime' = [runtime EXCEPT !.life = "disposing", !.requested = FALSE,
                                  !.timer = Off, !.idleWait = FALSE]
    /\ UNCHANGED <<log, need, clock, agent, calls, queue, lives>>

\* It waits for the run.
Disposed ==
    /\ runtime.life = "disposing" /\ runtime.run \in {"none", "settled"}
    /\ runtime' = Down
    /\ UNCHANGED <<log, need, clock, agent, calls, queue, lives>>

\* What was not stored is lost, and so are the answers.
Crash ==
    /\ runtime.life # "down" /\ lives < Lives
    /\ log' = <<Stored>> /\ need' = 0
    /\ agent' = [agent EXCEPT !.phase = "idle", !.woken = FALSE]
    /\ runtime' = Down
    /\ calls' = [c \in Calls |-> IF InFlight(c) THEN [calls[c] EXCEPT !.st = "lost"] ELSE calls[c]]
    /\ queue' = <<>>
    /\ UNCHANGED <<clock, lives>>

\* A new agent resumes the session from what is stored.
Resume ==
    /\ runtime.life = "down" /\ lives < Lives
    /\ agent.phase = "idle" /\ \A c \in Calls : ~InFlight(c)
    /\ log' = <<Stored>> /\ need' = 0
    /\ runtime' = Started /\ queue' = <<drive>>
    /\ lives' = lives + 1
    /\ UNCHANGED <<clock, agent, calls>>

Transaction ==
    \/ Enter \/ DriveFails \/ Stopped \/ Arm \/ Busy
    \/ Deliver \/ FollowupFails \/ AppendFails \/ Release \/ Barrier
    \/ \E c \in Calls :
          Begin(c) \/ CallFails(c) \/ Look(c) \/ Create(c) \/ Delete(c) \/ Stop(c) \/ Confirm(c)

Requests ==
    \/ \E phase \in {"running", "other"} : StartOther(phase)
    \/ \E c \in Calls :
          \/ \E op \in {"create", "list", "stop"} : Ask(c, op, {})
          \/ \E r \in Ids : Ask(c, "delete", {r})

Next ==
    \/ Save \/ Transaction \/ Loop \/ Retire \/ Fire \/ IdleHeard
    \/ Requests \/ EndTurn \/ EndMaintenance \/ Cancel \/ Tick
    \/ Dispose \/ Disposed \/ Crash \/ Resume

Spec == Init /\ [][Next]_vars

\* A flush comes to its end, timers fire, promises run their continuations, and
\* turns and maintenance jobs end.
Fairness ==
    /\ WF_vars(Save) /\ WF_vars(Transaction) /\ WF_vars(Loop) /\ WF_vars(Retire)
    /\ WF_vars(Fire) /\ WF_vars(IdleHeard) /\ WF_vars(EndTurn) /\ WF_vars(EndMaintenance)
    /\ WF_vars(Disposed)

FairSpec == Spec /\ Fairness

-------------------------------------------------------------------------------
(* Properties *)

Record == [st : {"absent", "active", "dispatched", "deleted"}, every : BOOLEAN,
           at : Nat, told : Nat]

Runtime == [life : {"live", "disposing", "down"},
            run : {"none", "queued", "preflight", "delivered", "declined", "barrier",
                   "looping", "settled"},
            requested : BOOLEAN, faulted : BOOLEAN, timer : Nat, idleWait : BOOLEAN,
            failed : BOOLEAN]

Agent == [phase : {"idle", "running", "other", "ours"}, woken : BOOLEAN, spent : 0 .. Turns]

Call == [st : {"idle", "queued", "preflight", "barrier", "confirmed", "uncertain", "unchanged",
               "lost"},
         op : {"create", "delete", "list", "stop"}, ids : SUBSET Ids]

\* Every variable stays in its type; a transaction is in the queue at most once.
TypeOK ==
    /\ log \in Seq([Ids -> Record]) /\ log # <<>>
    /\ need \in 0 .. Unsaved
    /\ clock \in 0 .. Horizon
    /\ agent \in Agent /\ runtime \in Runtime /\ calls \in [Calls -> Call]
    /\ queue \in Seq(Calls \cup {drive})
    /\ \A i, j \in 1 .. Len(queue) : queue[i] = queue[j] => i = j
    /\ lives \in 1 .. Lives

\* A mutation a caller was told of is stored and survives every crash.
Confirmed == \A c \in Calls : calls[c].st = "confirmed" => \A r \in calls[c].ids :
    IF calls[c].op = "create" THEN Stored[r] # Absent ELSE Stored[r].st = "deleted"

\* One runtime tells an occurrence once: only a restart between the message and
\* its dispatch tells it again, whatever fails.
ToldOncePerLife == \A i \in 1 .. Len(log) : \A r \in Ids : log[i][r].told <= lives

\* While a runtime drives and nothing of its last try failed, something will
\* wake it in time for every active reminder.
Covered == (Drivable(runtime) /\ Active # {}) =>
    \/ runtime.timer # Off /\ \A r \in Active : runtime.timer <= Live[r].at
    \/ runtime.run \in {"queued", "preflight", "delivered", "barrier"}
    \/ runtime.requested \/ runtime.idleWait \/ agent.phase = "running" \/ runtime.failed

\* A reminder is told from a record that is stored, and not before its time.
ToldFromStored == [][\A r \in Ids :
    (\E i \in Len(log) + 1 .. Len(log') : log'[i][r].told > Live[r].told) =>
        Stored[r].st = "active" /\ Stored[r].at = Live[r].at /\ Live[r].at <= clock]_vars

Contract == INSTANCE ReminderContract WITH record <- Stored

\* Across crashes, the stored log closes an occurrence only after the message
\* that tells it, and nothing closed comes back.
ContractKept == Contract!Spec

Waits(r) == r \in Active /\ Live[r].at <= clock /\ Drivable(runtime) /\ ~runtime.failed

\* Neither a due reminder nor a transaction nor a disposal waits for ever: what
\* the requests and the clock have brought about comes to rest, unless something
\* fails, because the queue is released while the agent is waited for and each
\* trigger is remembered (runtime.ts:119-220, transaction.ts).
Rested ==
    /\ \A r \in Ids : ~Waits(r)
    /\ \A c \in Calls : ~InFlight(c)
    /\ runtime.life # "disposing"
NothingWaits == []<>Rested

===============================================================================
