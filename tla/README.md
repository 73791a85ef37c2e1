# A verification of the agent runtime

This directory holds a TLA+ model of the agent runtime of this repository (`packages/core` and the
packages around it), the TLC configurations that model-check it on small instances, and theorems
about it that TLAPS proves for every value of the constants. Paths below are relative to `src/`
unless they name a `.tla` or `.cfg` file.

## 1. The system

A *session* is an append-only log of events. An *agent* owns one session and drives it: messages
arrive in its *inbox*, a *turn* claims a first batch of them and runs *steps* until nothing is owed;
a step is one request to a model, its streamed answer, and the tool calls the answer asks for. All
of it is single-threaded asynchronous TypeScript on the Cordis plugin framework: code between two
`await`s is atomic **except** that every append to the session, every inbox change and every
lifecycle notification runs observers synchronously, and those observers may call back into the
agent (send, cancel, dispose, edit the inbox). The hard behaviours all come from these two kinds of
interleaving, other code at an `await` and observers inside a synchronous call, combined with
exceptions, aborts and teardown at any of those points.

| component | state | operations | talks to | what must be right |
|---|---|---|---|---|
| agent driver (`core/agent-loop/src/agent.ts`) | phase (idle, maintenance, running with abort signal, latch), turn and step counters | `send`, `cancel`, `runMaintenance`, `whenIdle`, `kick`/`turn`/`step` | inbox, session, LLM, tool scheduler, observers | the log stays well formed on every exit; no message or wake is lost; nothing is requested after an abort |
| inbox (`core/agent-loop/src/inbox.ts`) | two pending lists (next step, next turn), log events for every change | `splice`, `claim`, `clear`, edits by observers | driver, session | the lists agree with what the log announced; claimed messages are recorded |
| session (`core/session`) | event log, surface, validator | `append`, `snapshot`, repair, fork | everyone | validator never rejects a legal program; repair closes exactly what was open |
| tool scheduler (`core/agent-loop/src/tool-calls.ts`) | pool, slots, commit cursor, failure | `executeToolCalls`, `runGroup` | tool registry, session | order of results, pool limit, barriers, drain on failure |
| tool registry (`core/tools`) | definitions, per-execution cancellation state | `prepare`, `dispatch`, `finalize`, `finish` | policies, approval, wrappers, bodies | the outcome says what happened to the body |
| agent lifecycle (`core/agent-loop/src/index.ts`) | live agents, startup tasks, abort fusion, memoised disposal | `create`, `createAgent`, `resume`, `dispose` | registries, persistence | nothing leaks on a failed or cancelled creation; one disposal |
| session persistence (`session/session-persistence-jsonl`) | lease, file, generation | open, append, close | lifecycle | one writer; the stored log is a prefix |
| job registry and its tools (`jobs/jobs-local`, `jobs/tool-jobs`) | records, rings, owners, waiters; wake counts | start, read, wait, kill, remove, teardown; completion notices | tools, agents, the lifecycle's scopes | one settlement per job, each completion told once, waiters released, nothing outlives its owner |
| schedule (`schedule/schedule`) | reminders folded from the log, one timer, a queue of transactions | create, delete, list, archive stop, drive, deliver | session, persistence, the driver's maintenance | what is confirmed is stored, no reminder is lost, none told twice by one process, no deadlock with the agent |
| goals, subagents, teams | durable records folded from the log, mailboxes | deliver, settle | sessions, agents | no lost or doubled delivery |
| approvals, questions | pending requests | ask, answer, abort | tools, UI | one answer per question, abort wins cleanly |
| storage domains | versioned records over a backend | read, update, watch | schedule, webhooks | lost updates, partial failure |
| LLM, MCP, LSP, shells, file system, UI, API façade | connections and processes | | | outside the core; I/O |

`PROJECT.json` lists every component, the ones that are not modelled with the reason, and the hazards
of the code, each at its line with the properties that would catch it.

## 2. The modules

| module | models | role |
|---|---|---|
| `SessionTrace` | turn and step rules of `core/session/src/invariant.ts` | abstract: what any log must look like |
| `AgentDriver` | `agent.ts`, `inbox.ts` | detailed; implements `SessionTrace` |
| `MCAgentDriver` | | instance: two messages |
| `AgentDriverProofs` | | theorems about `AgentDriver` |
| `ToolLog` | call and result rules of `core/session/src/invariant.ts` | abstract |
| `ToolCalls` | `tool-calls.ts`, execution stages of `core/tools/src/index.ts` | detailed; implements `ToolLog` |
| `MCToolCalls` | | instance |
| `ToolCallsProofs` | | theorems about `ToolCalls` |
| `StoredLog` | the promise of `session/session-persistence/src/handle.ts` and `index.ts` | abstract: acknowledged events stay |
| `SessionHandles` | `storage.ts`, `lease.ts` and the file operations of `index.ts` in `session/session-persistence-jsonl/src` | detailed; implements `StoredLog` |
| `MCSessionHandles` | | instances: processes and handles, symmetric |
| `SessionHandlesProofs` | | theorems about `SessionHandles`: types and the lock |
| `HandlesStoredProofs` | | theorems about `SessionHandles`: what is stored, and in which order |
| `AgentLifecycle` | `core/agent-loop/src/index.ts` over the registries of `core/agent` and `core/session` | detailed; `AgentDriver` and `SessionHandles` reduced to what disposal waits for |
| `MCAgentLifecycle` | | instance: starts, symmetric |
| `AgentLifecycleProofs` | | theorems about `AgentLifecycle` |
| `JobContract` | the semantics of `JobRegistry` in `jobs/jobs/src/index.ts` | abstract: the first outcome of a job is final |
| `Jobs` | `jobs/jobs-local/src/index.ts`, `jobs/tool-jobs/src/index.ts`, the kill of `api/job-controller` | detailed; implements `JobContract`; an owner is reduced to its turn, inbox and scope |
| `MCJobs` | | instance |
| `JobsProofs` | | theorems about `Jobs` |
| `ReminderContract` | the transitions that `foldScheduleEvents` admits (`schedule/schedule/src/domain.ts`) | abstract: an occurrence is closed after it was told |
| `Schedule` | `runtime.ts`, `transaction.ts`, `tools.ts`, `index.ts`, `persistence.ts` of `schedule/schedule/src` | detailed; implements `ReminderContract`; the agent is reduced to what `runMaintenance` and `whenIdle` tell apart |
| `MCSchedule` | | instance |
| `ScheduleProofs` | | theorems about `Schedule` |

Definitions that follow the comment `\* Defect:` are not used by any specification. Each is a
plausible mistake in the definition right after it, kept to show that the properties notice it.

### AgentDriver

`phase` is the code's `Phase` union; `pc` is where the driver's coroutine stands between two
synchronous stretches; `calls` is the stack of synchronous calls into the agent that have not
returned, each with the place it will return to, which is how an observer's re-entrant `send` or
`cancel` in the middle of another call is modelled. `inbox` holds the two pending lists, `trace` what
the validator remembers of the log, `last` the event appended last. `target`, `batch`, `decision`,
`turnEnds`, `stepEnd` and `raised` are locals of `turn()` and `step()`; `again`, `disposal` and
`waking` belong to `kick()`, the lifecycle's dispose and `wakeDriver()`. `fate` is a history variable
that says where each message ended up.

| action | code |
|---|---|
| `Send`, `WakeDriver` | `send` (agent.ts:153-172), `wakeDriver` (205-234) |
| `Cancel`, `ClearList`, `ClearQueued`, `CancelClears`, `CancelAborts` | `cancel` (174-180) and `clear` (inbox.ts:97-101): two removals, each with its discard observers, then the abort |
| `Splice`, `EditInbox`, `Duplicated` | inbox.ts:116-243; a candidate that would hold an identity twice is refused (218-225) |
| `RunMaintenance`, `EndMaintenance` | agent.ts:182-203 |
| `BeginDispose`, `FinishDispose` | index.ts:526-546, `whenIdle` |
| `OpenTurn` … `EndTurn`, `Requeue` | `turn` (294-377) |
| `Request`, `Admit`, `Build`, `Stream`, `Recover`, `Tools` | `step` (380-525), `prepareRequest`, `buildRequest` |
| `Exit`, `Retire` | `kick` (243-263) |

What is awaited may fail, and so may the admission of a message that a hook put into the batch
(`Admit`); the exception goes where the code's `try` structure sends it. An append of a turn or step
boundary raises nothing: `Session.append` contains its observers (core/session/src/index.ts:730-750), and
`agent/*` notifications contain theirs (core/agent/src/dispatch.ts:120-137); it rejects what is no JSON, is
re-entrant or is refused by the validator, and rejects it before the log changes. That the validator accepts
every boundary is what `TraceOK` shows. Observers are not told apart from other callers: any call may come
where some observer could make one, also between an append and the synchronous code behind it.

Callers may try to insert every message that was never sent and every one that is pending, twice in one
command too; the first of these is inserted, the others are refused and leave the lists alone (a `send`
that is refused wakes nobody). An identity that was claimed already is not sent again.

### ToolCalls

`pc` is where `executeToolCalls`/`runGroup` stands; `stage[c]` is where the dispatch of call `c`
stands, since the dispatches are the part that overlaps. `base`, `end` and `pool` are the current group;
`started` and `committed` count over all groups (the code's per-group counters plus `next`); `slot[c]`
is the settled outcome waiting for its turn; `attempt` and `ran` describe what the `tools/execute` wrappers
got from their last `next()` and whether the body was ever invoked. A wrapper calls `next()` as often as it
likes, before and after the body ran. `Abort` and
`Reclassify` are other code: they can run wherever the scheduler awaits or an append's observers run,
and not between a check and the synchronous code after it (`OthersRun`). An append may throw, a
dispatch may reject: both lead to the catch that drains. The locals of a dispatch are reset when it
settles (`Returned`): its frame is gone.

### SessionHandles

The write handles of one session id, in several processes over one artifact. Events are their
sequence numbers, so that order, loss and duplication are visible and contents are not.

| variable | code |
|---|---|
| `file` | the log file: `made`, the complete events `full`, a torn last frame `torn` of which the events `tail` can be recovered |
| `lock` | the kernel lock of `session.lock` (lease.ts) |
| `writers`, `pending` | `JsonlBackendTracker.writers` and `.pending` of each process |
| `at[h]` | the process, how far `create`/`open` got, and the handle's `lease` |
| `state[h]` | `StorageHandleState`: cursor, materialised, torn tail to cut, events recovered from it |
| `buf[h]` | `buffered`, `batchTimer`, `drainPaused`, `draining` |
| `work[h]` | `chain`: the queued operations; the stage and the batch of the one at its head |
| `owner[h]` | the session the handle belongs to: routed or not, its last event, its explicit append |
| `flush[h]`, `close[h]` | the coroutines of one `flush()` caller and of `close()`; `upTo` is what was handed over before the call, `seen` what of it the joined drain could still see |
| `acked`, `stray` | history: the last event whose write was acknowledged; a drain began behind close()'s last look |

| action | code |
|---|---|
| `CreateLookup`, `CreateRegister` | `create` (index.ts:314-332), `registerCreated` (storage.ts:414-422) |
| `OpenClaim`, `OpenLock`, `OpenRead`, `OpenAdopt` | `open` (index.ts:360-418), `claimWrite`, `SessionWriteLease.acquire` |
| `OpenFails`, `ReleaseLease`, `OpenReleases` | the catch of `open` (407-416): the lease's release is awaited and may reject, then the claim is given back |
| `ExplicitAppend`, `GoLive`, `RouteLive`, `TimerFires` | `append`, publication of the session, `enqueueLive` and its timer (storage.ts:187-196, 274-281) |
| `FlushCall`, `FlushHandle` | `session/flush` and `flushAll` (storage.ts:508-547), `flush` (198-213) |
| `Drain`, `DrainSettles` | `drainLive`, `drainBuffered` (288-316) |
| `Begin`, `AcquireLease`, `LeaseRefused`, `Check`, `Truncate`, `Rewrite` | `run`, `enqueueChain`, `ensureLease`, `persistContiguous` (318-374) |
| `Write`, `Header`, `RefuseExisting`, `Fail` | `persistBatch`, `persistHeader`, `materialize*`, `appendLines` |
| `AppendFails`, `RollBack` | `appendLines` could not write or sync (index.ts:1335-1352), and truncates to the previous size in a second step, which a crash may interrupt |
| `Close`, `CloseLook`, `CloseTail`, `ReleaseLease`, `CloseRelease` | `close` (215-262): the drains, the awaited release of the lease, which may reject, and `releaseHandle` in any case |
| `Crash` | the process dies: the kernel frees its lock; a write in flight leaves nothing, everything or a torn frame (`Interrupted`) |

Microtasks come before tasks. A continuation that is due as a microtask (`Due`) runs before any
timer, any I/O completion and any further callback, which is the guard `Quiet(p)`; among the
microtasks of one handle, a `close()` that awaits the chain registered earlier than the operation
queued behind it, which is the guard `~AwaitedChain(h)` of `Begin`. Synchronous callers (`RouteLive`,
`FlushCall`, `Close`) may run between any two microtasks, since any continuation in the process may
call them.

### AgentLifecycle

A *start* is one call of `createAgent` or `resume`, from a fiber of its own. Several may be under way
for the same id, with the factory, the caller and the backend going away under them.

| variable | code |
|---|---|
| `life[a].pc` | where the coroutine of the start stands; `failed` and `live` are its answers, `left` an answer whose teardown nobody awaits |
| `.handle` | the write handle it asked for: the part of `SessionHandles` that is opened and closed |
| `.machine` | the driver: the part of `AgentDriver` that `whenIdle()` tells apart |
| `.scope` | the fiber of `createScope` |
| `.caller`, `.signal` | the caller's signal; the fused one that setup and publication look at |
| `.disp`, `.byOwner`, `.failed` | the memoised `dispose()`: how far it is, whether the owner's effect runs it, whether it will reject |
| `.tracked`, `.followed` | the entry in `liveAgents`; the owner's effect is still registered |
| `.announced`, `.created`, `.disposed` | what the agent registry remembers; history: what listeners have seen |
| `claim`, `sessions`, `agents` | the backend's writer of each id; the two stores |
| `owner[a]`, `factory`, `joined` | the Cordis fibers; the disposals the factory's `Promise.all` waits for |

| action | code |
|---|---|
| `Start`, `Granted`, `Refused`, `AcquireAborts` | `createAgent` and `resumeWith` up to the handle, `raceAbortCall` with its late release |
| `Opened`, `Loaded`, `Mended`, `ResumeFails`, `DropEnds` | `resumeWith` (838-889): read, closers, `prepare`; the handle is closed on failure |
| `Created`, `Prepare` | `prepare` (479-640), behind the handle |
| `SetupDone`, `SetupAborts`, `InitializeFails` | `setupAndPublish`, `initializeAgent` |
| `Publish`, `Announced`, `AnnounceFails`, `RolledBackEnds` | `publish` (614-626), `enter`/`announce` of both registries, the awaited rollback |
| `HandleDispose`, `PublicationOver`, `Drained`, `ScopeEnds`, `ScopeOver`, `CloseEnds`, `Detach`, `Unfollowed` | `dispose` (523-574), one action per await |
| `OwnerUnload`, `OwnerUnloaded` | the effect of the caller's fiber (575-586) |
| `FactoryUnload`, `FactoryUnloaded` | `FactoryOwnership.dispose` (139-147), and the scopes, which are children of the factory's fiber |

Microtasks that nothing can tell apart are merged into the action they follow, so an action may
stand for several awaits on promises that are settled already. Three points where the code is subtle:
the caller's fiber and the factory's are different fibers, and unloading one does not look at the
other; `prepare()` notices an abort that lands while the scope is minted only after it has registered
the teardown, which then runs with nobody awaiting it (`leaving`, `left`); and the disposal that is
begun while creation listeners run first waits for them (`publication`).

### Jobs

`jobs[j]` is a `TrackedJob` from `start()` until it is dropped; `done` is the producer's promise, which
resolves some microtasks before the registry settles the job. `owners[a]` is an agent as the jobs see it:
`turn` and `inbox` decide whether a completion wakes it, `hooked` says that its scope carries the
registry's cleanup, `life` is how far its disposal is, `leaving` the jobs the cleanup has cancelled and
waits for. `calls[c]` is a `job_output` call with `wait: true`. `notices` and `byModel` of a job are
history.

| action | code |
|---|---|
| `Start`, `StartUnowned`, `StartFails` | `start` (206-304) with the owner's limit and `ensureOwnerCleanup`, which stays attached when the start fails behind it |
| `ModelKill`, `UserKill`, `Remove` | `killJob` (458-468) for the `job_kill` tool and the controller; `remove` (336-340) |
| `Produce`, `Settle` | the producer's outcome; `settle` (577-607), which emits, releases the waiters and lets tool-jobs report |
| `Wait`, `Timeout`, `Answer` | `waitJob` (470-502), its timer and abort; the tool's answer |
| `Prompt`, `Claim`, `Abort`, `EndTurn` | the turns of the owner: user input, `preStep`, `cancel`, the end |
| `Dispose`, `Unwind`, `Cleanup`, `DropOwned`, `Leave` | the agent's disposal (agent-loop index.ts:526-563) around `disposeOwned` (624-630) |
| `DisposeService`, `DropAll` | `disposeAll` (644-657) |

A cancel callback may throw: in a kill it leaves the job as it was, in a teardown it settles the job as
failed at once (`broken`). A start is refused once the service's fiber is disposing, which is Cordis'.

### Schedule

`log` is the session's log as a sequence of its folds: the first is what is stored, the last what the
live session holds, and a `Save` stores one more event. A crash or a resume keeps `log[1]` only. An event
is a `schedule/change` or the message of a reminder that enters the inbox, which is recorded in the same
log, so their order on disk is the order of the appends. A record's `told` counts the messages about the
occurrence that is due next.

| variable | code |
|---|---|
| `need` | how many events the flush in progress still waits for |
| `agent` | idle, a turn, maintenance of others or of the runtime; the wake that `followup` latched |
| `runtime` | the fields of `ScheduleRuntime`; `run` is where `runRequested`/`driveOnce` stands; `failed` says that the last try failed in a way the code does not try again |
| `calls`, `queue` | the tool calls and archive stops; the per-agent promise chain of `transaction.ts` |
| `lives` | how many runtimes there have been |

| action | code |
|---|---|
| `Enter`, `Arm`, `Busy`, `Deliver`, `Release`, `Barrier` | `driveOnce` (246-338): the preflight flush, the timer, the wait for idle, the message and its dispatches in one maintenance job, the second flush |
| `DriveFails`, `FollowupFails`, `AppendFails`, `Stopped` | its error paths; a failed append after the message faults the runtime |
| `Loop`, `Retire`, `Fire`, `IdleHeard` | `runRequested`, `retire` (160-174), the timer, `whenIdle` |
| `Ask`, `Begin`, `Look`, `Create`, `Delete`, `Stop`, `CallFails`, `Confirm` | the tools and `workspace/session-stop` as transactions: preflight, decision and append, barrier, answer |
| `StartOther`, `EndTurn`, `EndMaintenance`, `Cancel` | the agent's other activities; a turn ends after the calls it made |
| `Dispose`, `Disposed`, `Crash`, `Resume` | the end of a runtime and the start of the next |

`Fire` does not look at the clock: a long wait is cut into segments of `MaxDelay`, a wall clock may be
set back, and the callback rechecks in any case. A graceful disposal may or may not have stored
everything before `Resume`, since the handle's close may fail.

## 3. Runs

| run | question | bounds |
|---|---|---|
| `driver` | Is the log always a legal trace, the inbox consistent with its announcements, every claim accounted for, every abort honoured, every late wake served; does a driver that is aborted before its turn is over retire? | 2 messages, 2 steps, calls nested 2 deep, insertions of up to 2 messages |
| `driver_lost_wake` | violation, section 6 | 2 messages, nesting 1 |
| `tool_calls` | Order of the log, pool limit, barriers, drain, accounting; is what results say of cancelled calls true; does the step's tool phase end? | 3 calls, pool of 2 |
| `handles` | Is the stored log contiguous, and what was acknowledged, flushed or drained by a close still there, after write failures, rollbacks and crashes with any torn tail; is there one writer per process and one lock holder, whoever races? | 2 processes, 2 handles, 2 events, one flush in all; write and sync fail |
| `handles_order` | Is what was handed over complete and in order when drains fail while events arrive; is a buffered event written or its failure reported; does `close()` settle? | 1 handle, 3 events, one flush; write, sync and the lease's release fail |
| `handles_flush` | violation, section 6 | 1 handle, 2 events, nothing fails |
| `lifecycle` | Is nothing left of a start that fails or an agent that is disposed of; is the disposal announced once and last; do the registries agree; does the factory's unload end behind everything it made? | 2 starts of 1 id, each a creation or a resume, with or without a backend |
| `lifecycle_ends` | Does every disposal and every unload end, and is a caller that aborts answered? | 1 start |
| `lifecycle_owner` | violation, section 6 | 1 start |
| `jobs` | Is every completion reported exactly once, by a released wait (whatever the turn then makes of its answer, section 6), a kill's answer or a notice; does nothing outlive its owner or the service; is a settlement final; does every teardown end, whatever throws or starts meanwhile? | 1 owner, 2 jobs, 1 waiting call, limit 2, wake budget 1 |
| `jobs_teardown` | violation, section 6 | as `jobs` |
| `schedule` | Is what a caller was told stored; is a reminder told from stored records, once per runtime, and closed only after it was told; is a due reminder told in the end; does no transaction wait for ever? | 2 reminders, 1 call, clock up to 2, 1 turn or job of others, 2 runtimes |

Bounds. `MaxSteps` caps the steps of a turn, `MaxNest` how deep observers call back, `MaxInsert`
how many messages an inbox command inserts, `MaxEvents` the events of the session. Two steps are enough for
every step-to-step hand-over (steer, owed request, max-tokens); a nesting of two lets an observer of
an observer's call act; two messages give one claimed and one pending, in either list, and a message
that is sent while another is being cancelled. Three calls with a pool of two give one in flight, one
settled out of order and one not started. Nothing bounds a wrapper's retries: they revisit the same states.
Two handles are needed for a successor that meets what its predecessor left, in the same process or in
another, and for two competitors; two processes for the kernel lock to matter. Two events give a batch whose torn tail has one event to
recover; three give one being written, one put back by a failure and one routed meanwhile. Each
handle takes one `flush()` call, of either kind, at any time; in `handles` one of the two does
(`CONSTRAINT OneFlush`): a handle's flush joins its own drain only. `Faults` says which stage may fail;
contention and crashes are always possible. Starts of different ids share only the factory, so two
starts compete as much as they can when there is one id: both pass `prepare()` and meet at the
registries, or one asks for a handle the other's disposal has not closed yet. The liveness of a start
depends on the others through the claim alone, which is not waited for (a backend refuses a second
writer), so one start shows it.

Two jobs give one that settles while another is drained, one that is listed while the limit is asked,
and a start behind the snapshot of a teardown; with an owner and with nobody. `Endings` is
`{"completed"}`: no property tells reported outcomes apart, and the forced failure of a teardown brings a
second outcome for the same job. Two reminders of both kinds are needed for a batch of fixed-rate
reminders, for a one-shot that goes first, and for a delivery while the other is not due; two runtimes for
a crash between a message and its dispatch. A delay and an interval of one make everything due within the
horizon. One call against one drive is the smallest queue; a second call would meet the same two.

`handles` explores histories without a stray drain (`CONSTRAINT NotStray`), and the
properties of that run that a stray drain breaks say so too: what a stray drain does is told in section 6, and
after it the log of a reopened session has two writers. The constraint only keeps TLC from exploring
what follows.

Each property is violated when one definition of its module is replaced by the `Defect` named with it
in `PROJECT.json`.

Fairness. `FairSpec` of the driver assumes that calls return and awaited work settles (weak fairness
of the driver's own steps): the event loop runs every resumed continuation, and every stream and tool
is given the abort signal. Nobody is obliged to send, cancel or dispose. `FairSpec` of the tool calls
assumes the same of the scheduler and of the dispatched bodies, and of a wrapper that it does not call
`next()` for ever: its settlement is strongly fair, since each attempt disables it for as long as the body runs. `FairSpec` of the handles assumes that
an armed timer fires, that a promise resumes its awaiter and that I/O ends, successfully or not; nobody
has to publish an event, to flush or to close, and a process may die at any time. `FairSpec` of the
lifecycle assumes that a scope's fiber unwinds, that a handle closes, that creation listeners return,
that I/O on an open handle ends and that the creation of a handle is granted or refused. The opening of
a stored log may hang (it may wait for a lock), and so may `setup` and a turn, which are only obliged to
end when they are aborted: that is what the abort signals passed to them are for. `FairSpec` of the jobs
assumes that a producer that was cancelled and did not throw settles (`Complies`; the registry's comment on
`cancelForTeardown` says that one which does not may stall the disposal), that a wait's timer fires, that
promises run their continuations and that a turn ends. `FairSpec` of the schedule assumes that a flush ends,
stored or failed, that timers fire, promises resume and turns end; a runtime whose agent is kept busy by
users without a pause may wait for ever, which the bound `Turns` excludes.

## 4. Proofs

Every theorem holds for all values of the constants under the modules' named assumptions, which only
say that bounds are natural numbers (those of the schedule's delays positive), that faults and endings are
known ones, that `none` is not a handle, a process or an owner and that `drive` is not a call.

`AgentDriverProofs`: `TypeCorrect` proves `TypeOK` together with `DriverTrace`, the statement that
`pc` determines what the log may accept next (a turn is open exactly between `OpenTurn` and the end
of the turn's `finally`, and so on); this is inductive, and from it `TraceRefined` proves that the
driver implements `SessionTrace`, for any set of messages and any bounds.
`InboxInv` is inductive with it and says where every message is: `InboxConsistent` for the lists, and
`ClaimsHeld` for what was taken out of them. What is claimed is exactly the batch until the pre-step hooks settle,
bounded by it until the request is built, and nothing otherwise, except behind a failure that ends the
turn with another reason. Hence `InboxHolds`, whose lemmas (`AppendList`, `TailList`, `SpliceList`) say
what the three ways to change a list do to distinct identities when a candidate that would hold one twice is
refused, and, since only `EndTurn` closes a turn
(`ClosesAtEnd`), `ClaimsAccounted`. `AbortsStop` is the safety half of `AbortHonoured`.

`ToolCallsProofs`: the inductive invariant is `IInv == TypeOK /\ Counted /\ Grouped /\ Awaited`.
`Counted` ties the log's counters to the scheduler's; `Grouped` says that what is in flight belongs to
the current group and was started with its mode; `Awaited` says that the first started call that is not
recorded is in flight whenever the scheduler is about to wait, which is why the loop's exit implies
that everything was committed. From it follow `LogRefined` (the scheduler implements `ToolLog`),
`NoUncommitted` and `AbortStopsStarts`. `Pooled`, `Bounded` and `Failed` are inductive relative to it and give
`PoolNeverExceeds` and `BarrierHolds`, together `PoolRules`, and `EndsAccounted`.
`CancellationsTold` says for every number of calls, and of `next()` calls by their wrappers, what a result may
say of a cancelled call. "The body ran, so no result says it did not start" would be false (section 6), so the
property names the exception: a further `next()` of the call's own wrappers was answered as cancelled before
dispatch. Its invariant `Told` says that every answer, taken or waiting, that says aborted is of a call whose
body was invoked.

`SessionHandlesProofs`: `LockHeld` proves `WriterHoldsLock` for any number of processes, handles and
events and any faults. The property alone is not inductive: a write could start after `close()` gave
the lock back. The strengthening is `Ordered`, for every handle: `Working` (only open handles work),
`Leased` (a held lease is the kernel lock, a released one belongs to a closed handle, a write comes after
`ensureLease`), `OneDrain` (the chain holds a drain exactly while one is queued, and never two) and
`Waited` (the number of operations `close()` still waits for is the length of the chain, except for one
drain it will find when it looks). `Waited` is the heart of it: it says that when the lease is released
the chain is empty, unless a drain was begun behind the last look, which is what `stray` records. The
parts are about one handle each, and lemma `Frame` carries them over for the handles an action does not
touch; only the lock is shared.

`HandlesStoredProofs`: where every event is. The inductive invariant is `IInv /\ Told`, and `Told` is again
about one handle at a time. `Owes`: what was handed to an open handle is stored up to its `cursor`, then comes the
running batch, then the buffer (or the suffix of an explicit append), each continuing the one before;
`Chained` and `Batched` say which operation of the chain that batch belongs to. `Repaired`: a write comes
after the repair, and the cursor is not beyond the complete events and those still to be recovered. `Flushed`
and `Closed` follow a promise from its call: the events it is about are stored, or among those the handle still
owes (`Owed`), until the drain ended with an empty buffer. A flush's promise is about what the drain it joined can
see (`Seen`, lemma `SeenOwed`): all that was handed over before the call, unless that drain had already found the
buffer empty, which is where the code falls short of its doc (run `handles_flush`). `Fresh` and `Shape` are the rest. From it follow
`NothingIsSkipped`, `PromisesKept` and `LogImplemented`, for every fault: the counts of stored events only grow
(`Grows`), so the other handles keep their promises whatever this one writes, even without the lock.

That the log holds nothing twice is different: it needs the lock, so it is about histories without a stray
drain, and it fails when an append that failed leaves its bytes in the file (section 6). `OrderHolds` therefore has
the hypothesis that `Faults` is among `"write"`, `"sync"` and `"release"`, which is also what the runs have. Its invariant is
`Led`: a handle that holds the lease and has seen the file knows it (`Match`: the complete events and the recovered
ones are 1, 2, 3, ... up to its cursor, and the tail is the one it read, or cut off already). Only the holder of the
lock changes the file (`StepLed`), and `NextBytes` says that what it writes next continues what is there, so that
also what a crash leaves of the write does (`InterruptedFollows`).

`AgentLifecycleProofs`: the inductive invariant is `IInv`, the types and `Sound`, for any number of
starts and ids. `Sound` has four parts for every start: `Placed` (where the coroutine stands says what it
holds, so that `initialize()` runs in the maintenance a disposal waits for), `Disposed` (how far
`dispose()` is says what is gone already), `Entered` (the claims and the registries hold exactly what
these two say) and `Reached` (what an unloading factory has not joined was torn down or never built).
Most steps change one record and none of the entries: lemma `LocalStep` reduces them to the record, one
lemma per action; steps that also take or drop an entry go through `RecordStep` and `OthersEntered`;
`FactoryUnload`, which changes many records at once, has its own. The state invariants of the run
`lifecycle` follow from `IInv`. For the action property `DisposedLast`, `Marks` shows that only `Detach` announces a
disposal, and the invariant says what holds before that step.

`JobsProofs`: the inductive invariant is `IInv == TypeOK /\ Sound /\ ReportedOnce`, for any number of
owners, jobs and calls. `JobSound` says that a live job is listed and that `killedByModel` is exactly the
live jobs a model killed; `CallSound` that a parked call waits for a live job and a released one for a
settled job, which makes `ReportedOnce` inductive: when a job settles no call has been released for it, so
the notice decides. `OwnerSound` is what `NothingOutlives` needs: a listed job's owner either still carries
the cleanup or is waiting for exactly that job, so a start that slips in behind the snapshot was refused.
`ServiceSound` says the same of the service. `ContractRefined` maps a job to its phase in `JobContract` and
shows that every action moves each phase as the contract allows or not at all.

`ScheduleProofs`: the inductive invariant `IInv` adds to `Confirmed` and `Covered` what they rest on.
`LogNow`: each fold of the log follows the one before by moves of `ReminderContract`, and none has told a
record more often than there were runtimes. `QueueNow`: where the runtime and each call stand says whether
they are in the queue, and who is at its head. `Waited` and `Awaited`: where in the log a flush that somebody
waits for ends, so that what a call will confirm is in the part its flush stores. `Fresh` and `Halted`: a
runtime that still drives has not told what it finds active, and a faulted one starts no run, which is why a
failed append after the message never tells an occurrence twice. Appending, storing and losing a suffix act
on many records at once; lemma `EffectStep` therefore classifies every step by its effect on the log and the
calls, `RuntimeStep` by its effect on the runtime, and each part of the invariant is shown from those.
`ContractHolds` is then that storing an event moves `log[1]` to its neighbour and a crash leaves it alone.

Only model-checked: the liveness properties, which includes the second half of `AbortHonoured`, and anything
about ENABLED (out of the prover's reach). Every invariant and every other action property of the passing runs
is stated by a theorem, one of them under a hypothesis that names a case in which the code breaks it
(`OrderHolds`). Induction over data is out of reach too, and no module here has a RECURSIVE
operator.

## 5. What is not modelled

Inside the modelled components: message contents, prompts, usage and presentation; tool registration
and schemas; the surface operations of the session log; read handles, log generations and their
migration, the prefix a forked session inherits, listing and deletion of stored sessions; the second
call of `close()`, which returns the promise of the first. A rollback that fails leaves all of its bytes in the
model, never a part of them. The Windows branch of `materialize` differs from
the POSIX one in system calls and not in what it publishes. Of the lifecycle: the configured agents
that start with the plugin (`restoreOrCreateConfigured`) and their wait for an identity to be released,
creations owned by the factory's own fiber, fibers that reload, the pair `session/created` and
`session/disposed`, and the contents of the log that a resume reads and mends.

Of the jobs: the output ring with its pump and cursors, progress and event streams, the texts of details,
notices and fences, and an agent that is replaced under its id while jobs of the old one are listed. Of the
schedule: calendar and time-zone rules, the validation of arguments, the strict decoder's treatment of a
damaged log, `schedule_list`'s projection, the framing of the message, and a `whenIdle` that rejects.

Other components: `PROJECT.json` gives the reason for each. They are I/O at the edge (models, MCP,
LSP, shells, files, UI), folds over the log, synchronous registries, data conversions and
configuration, or they are protocols that the plan in section 7 names.

## 6. Where the code does not do what it says

| run | what happens |
|---|---|
| `driver_lost_wake` | A followup sent after `turn()` looked at the inbox for the last time and before `kick()` is idle again finds a live driver that claims nothing any more; the message waits for the next wake (agent.ts:372). |
| `handles_flush` | A flush that joins a drain which has already seen an empty buffer resolves although an event routed before it is only in the buffer (storage.ts:289, 300), against "each handle's routed live events drain durably" (session-persistence/src/index.ts:168-170). |
| `lifecycle_owner` | An owner's unload that meets a disposal already under way does not wait for it: the effect's closure returns at once (index.ts:582), against "memoized so every racing owner awaits one quiescence" (523). |
| `jobs_teardown` | A human kill of a job whose owner's cleanup has already cancelled it overwrites the cause `teardown` with `kill` (jobs-local index.ts:465), so its settlement is reported to, and may wake, the agent that is being disposed of, against the comment at 667-669. |

Others were met while modelling and have no run.

- With a `tools/execute` wrapper that calls `next()` again, a call whose body ran in its first attempt may be
  recorded as aborted before dispatch (core/tools/src/index.ts:1557), against core/tools/README.md:121. The
  model has these histories; `CancellationTold` admits this case by name and no other.
- An abort that lands after the loop of a turn chose its ending, while input is queued, is forgotten with the
  signal it aborted: the next turn starts under a fresh one (agent.ts:372-376), even when a `cancel` dropped
  the queue and a `send` filled it again before `turn()` looks at it. `AbortConverges` is about aborts that
  land before (`TurnOver`).
- An event routed while `close()` releases its lease is written after the lock is gone (storage.ts:239-256),
  against lease.ts:2-3; `stray` marks these histories and `WriterHoldsLock` excludes them by name.
- An append whose file close fails after its sync is not rolled back, and the retry stores its events twice
  (jsonl index.ts:1350 against 1320-1322), and so does the retry of one whose rollback fails (1342). These are
  the faults `"close"` and `"rollback"`: the runs leave them out, and so does the hypothesis of `OrderHolds`.
- A turn aborted after a settlement released its `job_output` wait replaces the tool's result
  (core/tools/src/index.ts:1569), and the reporter has counted the completion as delivered
  (jobs/tool-jobs/src/index.ts:333-336): the model never hears of it. `ReportedOnce` counts a released wait.
- A start looks at `maxConcurrentJobsPerOwner` before it calls the starter (jobs-local index.ts:219-238), so
  a starter that starts another job can exceed the limit; the model's starters do not.
- A drive whose flush fails is not tried again before the next trigger (schedule runtime.ts:250), so later
  reminders are without a timer meanwhile; `Covered` and `NothingWaits` excuse it as `failed`.
- A second `cancel` resets the latch after its discard observers ran (agent.ts:177), so a replacement
  they sent loses its wake, against core/agent/src/runtime-types.ts:205-207.
- After a step that ended with max-tokens, a steered step whose tool results owe another request closes
  the turn all the same: `turnEnds` keeps max-tokens over the null of the later step (agent.ts:336), while
  docs/architecture.md:86 says a turn "closes once nothing is owed".
- A wake sent during disposal is latched and replayed when an earlier cancel had aborted the driver with
  another cause (agent.ts:218), against "disposal never latches" (216-217).
- An event routed during the last two awaits of `close()` is still in the buffer when `close()` resolves
  (storage.ts:239 against the promise of 216-217), which is the beginning of every `stray`
  history.
- The factory's unload rejects with the first disposal that does and no longer waits for the others
  (core/agent-loop/src/index.ts:143), while core/agent/src/index.ts:151 says that unloading the provider
  "stops and drains every live handle it made"; `FactoryDrains` excludes the case by name.
- The scopes of agents are children of the factory's fiber, so its unload unwinds them while their
  drivers still drain, before the order that `dispose()` keeps everywhere else.
- The registry's doc (core/agent/src/index.ts:152-153) and the comment above `dispose` (index.ts:523-525)
  unwind the scope last; the code unwinds it first, then closes the handle, then leaves the registries.
- An event appended to the session while `appendUnstoredSuffix` awaits its write (index.ts:702) is
  neither in the suffix nor routed yet, and nothing stores it later.

## 7. Plan

In order of weight, each with its abstract specification where one is worth stating:

1. `SessionRepair` (core/session/src/repair.ts, consumed-work.ts): the closers of an interrupted log, as
   functions over bounded logs, checked against `SessionTrace` and `ToolLog`: a repaired log is legal and
   repairing it again changes nothing.
2. Goals and their round driver, subagent continuation and settlement, storage domains' updates, team
   mailboxes: each with a contract like `JobContract`.
3. The assistant stream (frame revisions, one terminal frame), approvals (answer against abort).
4. Of the lifecycle, the configured agents (`restoreOrCreateConfigured`), whose start waits for the
   identity that a disposal releases.

Proofs planned: with the modules above, their type invariants, contracts and inductive invariants in the same form.
