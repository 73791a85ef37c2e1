--------------------------------- MODULE Jobs ---------------------------------
(***************************************************************************)
(* The background-job registry (packages/jobs/jobs-local/src/index.ts) and *)
(* the controller that reports completions to the model                    *)
(* (packages/jobs/tool-jobs/src/index.ts), with as much of an owner as     *)
(* they see: its turns, its inbox and the disposal of its scope.           *)
(*                                                                         *)
(* A job is in the store from start() until it is dropped. Its producer    *)
(* resolves `done` once; the registry settles it some microtasks later,    *)
(* after the last drain of its output. A call is one job_output with       *)
(* wait: true. Producers cancel or fail to, and a turn may be aborted, at  *)
(* any time. The output ring and the text of details and notices are left  *)
(* out.                                                                    *)
(***************************************************************************)
EXTENDS Naturals, FiniteSets

CONSTANTS
    Owners,     \* agents that own jobs
    Jobs,       \* registrations, in whatever order they come
    Calls,      \* calls of job_output with wait: true
    none,       \* the owner of a job nobody owns
    Endings,    \* the outcomes producers report
    Limit,      \* maxConcurrentJobsPerOwner
    WakeBudget  \* maxConsecutiveWakes; 0 is quiet delivery

ASSUME NoneAssumption == none \notin Owners
ASSUME BoundAssumption == Endings # {} /\ Limit \in Nat \ {0} /\ WakeBudget \in Nat

VARIABLES
    jobs,       \* of each job: its record, whether the store has it, its notices
    owners,     \* of each agent: its lifecycle, its turn, its inbox, its cleanup
    calls,      \* of each call: who made it, for which job, how it stands
    killedByModel,
    service     \* the registry's own disposal

vars == <<jobs, owners, calls, killedByModel, service>>

Outcomes == {"completed", "failed", "killed"}

ASSUME EndingAssumption == Endings \subseteq Outcomes

Absent == [st |-> "absent", owner |-> none, cause |-> "producer", done |-> "pending",
           stored |-> FALSE, notices |-> 0, byModel |-> FALSE]

Init ==
    /\ jobs = [j \in Jobs |-> Absent]
    /\ owners = [a \in Owners |-> [life |-> "live", turn |-> "idle", spent |-> 0, inbox |-> {},
                                   hooked |-> FALSE, leaving |-> {}]]
    /\ calls = [c \in Calls |-> [st |-> "idle", by |-> none, job |-> none]]
    /\ killedByModel = {}
    /\ service = [at |-> "up", leaving |-> {}]

Terminal(j) == jobs[j].st \in Outcomes
Live(j) == jobs[j].st \in {"running", "stopping"}
Owned(a) == {j \in Jobs : jobs[j].stored /\ jobs[j].owner = a}
Visible(j, a) == jobs[j].stored /\ jobs[j].owner \in {a, none}

\* detachAgent() is the end of the disposal, after the scope's.
Registered(a) == owners[a].life # "gone"
\* A disposing scope rejects new effects.
ScopeActive(a) == owners[a].life \in {"live", "closing"}

-------------------------------------------------------------------------------
(* start(), kill(), remove() *)

\* Defect: a job is accepted whatever becomes of the cleanup.
CleanedAnyway(a) == Registered(a)

\* ensureOwnerCleanup() returns or attaches; otherwise the start is refused.
Cleaned(a) == owners[a].hooked \/ ScopeActive(a)

Active(a) == {j \in Jobs : jobs[j].stored /\ jobs[j].owner = a /\ Live(j)}

Registration(j, o) ==
    /\ service.at = "up"
    /\ jobs[j].st = "absent"
    /\ Cardinality(Active(o)) < Limit
    /\ jobs' = [jobs EXCEPT ![j].st = "running", ![j].owner = o, ![j].stored = TRUE]
    /\ UNCHANGED <<calls, killedByModel, service>>

Start(j, a) ==
    /\ Registered(a) /\ Cleaned(a)
    /\ Registration(j, a)
    /\ owners' = [owners EXCEPT ![a].hooked = TRUE]

\* A start that fails at the limit, or in its starter, has attached the cleanup.
StartFails(a) ==
    /\ service.at = "up" /\ Registered(a) /\ Cleaned(a)
    /\ owners' = [owners EXCEPT ![a].hooked = TRUE]
    /\ UNCHANGED <<jobs, calls, killedByModel, service>>

StartUnowned(j) == Registration(j, none) /\ UNCHANGED owners

\* killJob(): a producer whose cancel throws leaves everything as it was.
Killed(j, byModel) ==
    /\ Live(j)
    /\ jobs' = [jobs EXCEPT ![j].st = "stopping", ![j].cause = "kill",
                            ![j].byModel = jobs[j].byModel \/ byModel]
    /\ killedByModel' = IF byModel THEN killedByModel \cup {j} ELSE killedByModel
    /\ UNCHANGED <<owners, calls, service>>

\* The job_kill tool.
ModelKill(j, a) == owners[a].turn = "running" /\ Visible(j, a) /\ Killed(j, TRUE)

\* JobController.kill, for a human.
UserKill(j) == jobs[j].stored /\ Killed(j, FALSE)

\* remove(), and the `removed` event in the controller.
Remove(j) ==
    /\ jobs[j].stored /\ Terminal(j)
    /\ jobs' = [jobs EXCEPT ![j].stored = FALSE]
    /\ killedByModel' = killedByModel \ {j}
    /\ UNCHANGED <<owners, calls, service>>

-------------------------------------------------------------------------------
(* Settlement *)

\* The producer's `done` resolves, or is rejected and counts as failed.
Produce(j, outcome) ==
    /\ jobs[j].st # "absent" /\ jobs[j].done = "pending"
    /\ jobs' = [jobs EXCEPT ![j].done = outcome]
    /\ UNCHANGED <<owners, calls, killedByModel, service>>

Waiters(j) == {c \in Calls : calls[c].st = "waiting" /\ calls[c].job = j}

\* Defect: a forced settlement announces itself without releasing the waiters.
ReleaseFirstOnly(S) ==
    calls' = [c \in Calls |-> IF \E j \in S : c \in Waiters(j) /\ jobs[j].done # "pending"
                              THEN [calls[c] EXCEPT !.st = "released"] ELSE calls[c]]

\* settle() empties waitResolvers before it announces.
ReleaseWaiters(S) ==
    calls' = [c \in Calls |-> IF \E j \in S : c \in Waiters(j)
                              THEN [calls[c] EXCEPT !.st = "released"] ELSE calls[c]]

\* Defect: a wait that timed out or was aborted counts as one that was served.
DueUnlessAsked(j) ==
    /\ j \notin killedByModel /\ ~ \E c \in Calls : calls[c].job = j
    /\ jobs[j].cause # "teardown"
    /\ jobs[j].owner # none /\ Registered(jobs[j].owner)

\* The settlement listener: whether the owner gets a notice.
Due(j) ==
    /\ j \notin killedByModel /\ Waiters(j) = {}
    /\ jobs[j].cause # "teardown"
    /\ jobs[j].owner # none /\ Registered(jobs[j].owner)

\* Defect: the budget is spent and never looked at.
NotifyUnbudgeted(j) ==
    LET o == jobs[j].owner
        wakes == owners[o].turn = "idle"
    IN  owners' = IF ~Due(j) THEN owners
                  ELSE [owners EXCEPT ![o].inbox = @ \cup {j},
                                      ![o].turn = IF wakes THEN "running" ELSE @,
                                      ![o].spent = IF wakes THEN @ + 1 ELSE @]

\* followup() opens a turn of an idle owner, inject() waits for the next step.
Notify(j) ==
    LET o == jobs[j].owner
        wakes == owners[o].turn = "idle" /\ owners[o].spent < WakeBudget
    IN  owners' = IF ~Due(j) THEN owners
                  ELSE [owners EXCEPT ![o].inbox = @ \cup {j},
                                      ![o].turn = IF wakes THEN "running" ELSE @,
                                      ![o].spent = IF wakes THEN @ + 1 ELSE @]

\* Defect: the producer's outcome replaces the record whatever it says.
SettledLastWins(j) == [jobs[j] EXCEPT !.done = "taken", !.st = jobs[j].done]

\* The record after settle() was called with the producer's outcome.
Settled(j) ==
    IF Terminal(j) THEN [jobs[j] EXCEPT !.done = "taken"]
    ELSE [jobs[j] EXCEPT !.done = "taken", !.st = jobs[j].done,
                         !.notices = IF Due(j) THEN @ + 1 ELSE @]

\* The continuation of producerDone, once the pump has drained.
Settle(j) ==
    /\ jobs[j].done \in Outcomes
    /\ jobs' = [jobs EXCEPT ![j] = Settled(j)]
    /\ IF Terminal(j)
       THEN UNCHANGED <<owners, calls, killedByModel>>
       ELSE /\ ReleaseWaiters({j})
            /\ Notify(j)
            /\ killedByModel' = killedByModel \ {j}
    /\ UNCHANGED service

-------------------------------------------------------------------------------
(* wait() and job_output *)

\* A terminal job is answered at once.
Wait(c, j, a) ==
    /\ calls[c].st = "idle" /\ owners[a].turn = "running" /\ Visible(j, a)
    /\ calls' = [calls EXCEPT ![c] = [st |-> IF Terminal(j) THEN "left" ELSE "waiting",
                                      by |-> a, job |-> j]]
    /\ UNCHANGED <<jobs, owners, killedByModel, service>>

Timeout(c) ==
    /\ calls[c].st = "waiting"
    /\ calls' = [calls EXCEPT ![c].st = "left"]
    /\ UNCHANGED <<jobs, owners, killedByModel, service>>

\* The body reads the job; a caller that has been aborted meanwhile gets
\* "tool call aborted" instead, and so does nobody a job that was dropped.
Answer(c) ==
    /\ calls[c].st = "released"
    /\ calls' = [calls EXCEPT ![c].st =
                    IF owners[calls[c].by].turn = "running" /\ jobs[calls[c].job].stored
                    THEN "told" ELSE "lost"]
    /\ UNCHANGED <<jobs, owners, killedByModel, service>>

-------------------------------------------------------------------------------
(* Turns of an owner *)

\* An aborted signal rejects the waits of the turn and unregisters them.
Rejected(a) == [c \in Calls |-> IF calls[c].by = a /\ calls[c].st = "waiting"
                                THEN [calls[c] EXCEPT !.st = "left"] ELSE calls[c]]

\* A user's message enters a step, with whatever notices wait: the budget is full again.
Prompt(a) ==
    /\ owners[a].life = "live" /\ owners[a].turn \in {"idle", "running"}
    /\ owners' = [owners EXCEPT ![a].turn = "running", ![a].spent = 0, ![a].inbox = {}]
    /\ UNCHANGED <<jobs, calls, killedByModel, service>>

\* The next step claims the notices.
Claim(a) ==
    /\ owners[a].turn = "running" /\ owners[a].inbox # {}
    /\ owners' = [owners EXCEPT ![a].inbox = {}]
    /\ UNCHANGED <<jobs, calls, killedByModel, service>>

Abort(a, keepInbox) ==
    /\ owners[a].turn = "running"
    /\ owners' = [owners EXCEPT ![a].turn = "aborting", ![a].inbox = IF keepInbox THEN @ ELSE {}]
    /\ calls' = Rejected(a)
    /\ UNCHANGED <<jobs, killedByModel, service>>

\* A turn does not close over its inbox, unless it was aborted, nor over its calls.
EndTurn(a) ==
    /\ \/ owners[a].turn = "running" /\ owners[a].inbox = {}
       \/ owners[a].turn = "aborting"
    /\ ~ \E c \in Calls : calls[c].by = a /\ calls[c].st \in {"waiting", "released"}
    /\ owners' = [owners EXCEPT ![a].turn = "idle"]
    /\ UNCHANGED <<jobs, calls, killedByModel, service>>

-------------------------------------------------------------------------------
(* Disposal of an owner and of the service *)

\* Defect: a cancel that throws is logged and the record left as it was.
CancelContained(S, broken) ==
    /\ jobs' = [j \in Jobs |->
                  IF j \notin S \/ Terminal(j) \/ j \in broken THEN jobs[j]
                  ELSE [jobs[j] EXCEPT !.cause = "teardown", !.st = "stopping"]]
    /\ UNCHANGED <<calls, killedByModel>>

\* cancelForTeardown(): a cancel that throws settles the record on the spot.
CancelForTeardown(S, broken) ==
    LET hit == {j \in S : ~Terminal(j)}
    IN  /\ jobs' = [j \in Jobs |->
                      IF j \notin hit THEN jobs[j]
                      ELSE [jobs[j] EXCEPT !.cause = "teardown",
                                           !.st = IF j \in broken THEN "failed" ELSE "stopping"]]
        /\ ReleaseWaiters(hit \cap broken)
        /\ killedByModel' = killedByModel \ (hit \cap broken)

Dropped(S) ==
    /\ jobs' = [j \in Jobs |-> IF j \in S THEN [jobs[j] EXCEPT !.stored = FALSE] ELSE jobs[j]]
    /\ killedByModel' = killedByModel \ S

\* machine.cancel({ kind: 'disposed' }): the inbox is cleared, a turn aborted.
Dispose(a) ==
    /\ owners[a].life = "live"
    /\ owners' = [owners EXCEPT ![a].life = "closing", ![a].inbox = {},
                                ![a].turn = IF @ = "running" THEN "aborting" ELSE @]
    /\ calls' = Rejected(a)
    /\ UNCHANGED <<jobs, killedByModel, service>>

\* whenIdle() has resolved, the scope begins to unwind.
Unwind(a) ==
    /\ owners[a].life = "closing" /\ owners[a].turn = "idle"
    /\ owners' = [owners EXCEPT ![a].life = "unwinding"]
    /\ UNCHANGED <<jobs, calls, killedByModel, service>>

\* The cleanup on the scope up to its await: it retires itself first.
Cleanup(a) ==
    /\ owners[a].life = "unwinding" /\ owners[a].hooked
    /\ owners' = [owners EXCEPT ![a].life = "draining", ![a].hooked = FALSE,
                                ![a].leaving = Owned(a)]
    /\ \E broken \in SUBSET Owned(a) : CancelForTeardown(Owned(a), broken)
    /\ UNCHANGED service

OwnedSettled(a) ==
    owners[a].life = "draining" /\ \A j \in owners[a].leaving : Terminal(j)

DropOwned(a) ==
    /\ OwnedSettled(a)
    /\ Dropped(owners[a].leaving)
    /\ owners' = [owners EXCEPT ![a].life = "unwound", ![a].leaving = {}]
    /\ UNCHANGED <<calls, service>>

\* The scope is unwound, with or without a cleanup; the agent leaves the registry.
Leave(a) ==
    /\ \/ owners[a].life = "unwound"
       \/ owners[a].life = "unwinding" /\ ~owners[a].hooked
    /\ owners' = [owners EXCEPT ![a].life = "gone", ![a].inbox = {}]
    /\ UNCHANGED <<jobs, calls, killedByModel, service>>

Stored == {j \in Jobs : jobs[j].stored}

\* disposeAll() up to its await. Its fiber takes no start any more.
DisposeService ==
    /\ service.at = "up"
    /\ service' = [at |-> "draining", leaving |-> Stored]
    /\ \E broken \in SUBSET Stored : CancelForTeardown(Stored, broken)
    /\ UNCHANGED owners

\* The rest of disposeAll(): the owners' cleanups are detached when nothing is left.
DropAll ==
    /\ service.at = "draining"
    /\ \A j \in service.leaving : Terminal(j)
    /\ Dropped(service.leaving)
    /\ service' = [at |-> "closed", leaving |-> {}]
    /\ owners' = [a \in Owners |-> [owners[a] EXCEPT !.hooked = FALSE]]
    /\ UNCHANGED calls

-------------------------------------------------------------------------------
Next ==
    \/ \E j \in Jobs :
          \/ StartUnowned(j) \/ UserKill(j) \/ Remove(j) \/ Settle(j)
          \/ \E outcome \in Endings : Produce(j, outcome)
          \/ \E a \in Owners : Start(j, a) \/ ModelKill(j, a)
          \/ \E a \in Owners, c \in Calls : Wait(c, j, a)
    \/ \E c \in Calls : Timeout(c) \/ Answer(c)
    \/ \E a \in Owners :
          \/ StartFails(a) \/ Prompt(a) \/ Claim(a) \/ EndTurn(a)
          \/ \E keepInbox \in BOOLEAN : Abort(a, keepInbox)
          \/ Dispose(a) \/ Unwind(a) \/ Cleanup(a) \/ DropOwned(a) \/ Leave(a)
    \/ DisposeService \/ DropAll

Spec == Init /\ [][Next]_vars

\* A producer that was cancelled and did not throw settles in the end; timers
\* fire, promises run their continuations, and a turn comes to its end.
Complies(j) == jobs[j].st = "stopping" /\ \E outcome \in Endings : Produce(j, outcome)

Fairness ==
    /\ \A j \in Jobs : WF_vars(Complies(j)) /\ WF_vars(Settle(j))
    /\ \A c \in Calls : WF_vars(Timeout(c)) /\ WF_vars(Answer(c))
    /\ \A a \in Owners :
          /\ WF_vars(Claim(a)) /\ WF_vars(EndTurn(a))
          /\ WF_vars(Unwind(a)) /\ WF_vars(Cleanup(a)) /\ WF_vars(DropOwned(a)) /\ WF_vars(Leave(a))
    /\ WF_vars(DropAll)

FairSpec == Spec /\ Fairness

-------------------------------------------------------------------------------
(* Properties *)

JobRecord == [st : {"absent", "running", "stopping"} \cup Outcomes, owner : Owners \cup {none},
              cause : {"producer", "kill", "teardown"}, done : {"pending", "taken"} \cup Outcomes,
              stored : BOOLEAN, notices : Nat, byModel : BOOLEAN]

OwnerRecord == [life : {"live", "closing", "unwinding", "draining", "unwound", "gone"},
                turn : {"idle", "running", "aborting"}, spent : 0 .. WakeBudget,
                inbox : SUBSET Jobs, hooked : BOOLEAN, leaving : SUBSET Jobs]

CallRecord == [st : {"idle", "waiting", "released", "left", "told", "lost"},
               by : Owners \cup {none}, job : Jobs \cup {none}]

\* Every variable stays in its type; the wakes of an owner stay in its budget.
TypeOK ==
    /\ jobs \in [Jobs -> JobRecord]
    /\ owners \in [Owners -> OwnerRecord]
    /\ calls \in [Calls -> CallRecord]
    /\ killedByModel \in SUBSET Jobs
    /\ service \in [at : {"up", "draining", "closed"}, leaving : SUBSET Jobs]

\* What keeps the properties below true from step to step, job by job, call by
\* call, owner by owner, and for the service.
JobSound(j) ==
    /\ jobs[j].st = "absent" => ~jobs[j].stored /\ ~jobs[j].byModel /\ jobs[j].done = "pending"
    /\ Live(j) => jobs[j].stored
    /\ j \in killedByModel <=> Live(j) /\ jobs[j].byModel
CallSound(c) ==
    /\ calls[c].st # "idle" => calls[c].job \in Jobs
    /\ calls[c].st = "waiting" => Live(calls[c].job)
    /\ calls[c].st \in {"released", "told", "lost"} => Terminal(calls[c].job)
OwnerSound(a) ==
    /\ owners[a].hooked => owners[a].life \in {"live", "closing", "unwinding"}
    /\ \A j \in Owned(a) : owners[a].hooked \/ (owners[a].life = "draining" /\ j \in owners[a].leaving)
ServiceSound ==
    /\ service.at = "draining" => Stored \subseteq service.leaving
    /\ service.at = "closed" => Stored = {}

Sound ==
    /\ \A j \in Jobs : JobSound(j)
    /\ \A c \in Calls : CallSound(c)
    /\ \A a \in Owners : OwnerSound(a)
    /\ ServiceSound

\* No job outlives its owner or the service, whenever its start came: once the
\* owner has left, or the service is closed, nothing of theirs is listed or runs.
NoOrphan ==
    /\ \A a \in Owners : ~Registered(a) =>
          \A j \in Jobs : jobs[j].owner = a => ~jobs[j].stored /\ ~Live(j)
    /\ service.at = "closed" => \A j \in Jobs : ~jobs[j].stored /\ ~Live(j)

Awaited(j) == \E c \in Calls : calls[c].job = j /\ calls[c].st \in {"released", "told", "lost"}

\* A completion is reported by exactly one of its three ways: the wait it
\* released, the model's own kill, or one notice to the owner. A wait that timed
\* out or was aborted before does not count, and a teardown is reported by none.
ReportedOnce == \A j \in Jobs :
    jobs[j].notices =
        IF Terminal(j) /\ jobs[j].owner # none /\ jobs[j].cause # "teardown"
           /\ ~jobs[j].byModel /\ ~Awaited(j)
        THEN 1 ELSE 0

\* No wait is left behind by a settlement: a call still parked waits for a live job.
NoLostWaiter == \A c \in Calls : calls[c].st = "waiting" => Live(calls[c].job)

Contract == INSTANCE JobContract WITH phase <-
    [j \in Jobs |-> IF jobs[j].st = "absent" \/ jobs[j].stored THEN jobs[j].st ELSE "dropped"]

\* The registry keeps the contract of every job: the first outcome is final, the
\* record stays listed until it is dropped, and nothing is dropped before it settled.
ContractKept == Contract!Spec

\* A teardown ends: of an owner, and of the service, whatever settles, throws,
\* waits or is removed meanwhile.
TeardownEnds ==
    /\ \A a \in Owners : owners[a].life = "closing" ~> owners[a].life = "gone"
    /\ service.at = "draining" ~> service.at = "closed"

\* What packages/jobs/jobs-local/src/index.ts:667 says of a job that a teardown
\* has cancelled: whatever settles it, no completion reporter addresses the owner.
TeardownSilent == [][\A a \in Owners : \A j \in owners[a].leaving :
    jobs'[j].notices = jobs[j].notices]_vars

===============================================================================
