--------------------------- MODULE AgentLifecycle ---------------------------
(***************************************************************************)
(* Creation, resume and disposal of agents by the loop's factory           *)
(* (packages/core/agent-loop/src/index.ts: FactoryOwnership, prepare,      *)
(* createAgent, setupAndPublish, initializeAgent, resumeWith), over the    *)
(* registries of packages/core/agent and packages/core/session, the write  *)
(* handles of a persistence backend and the Cordis fibers that own the     *)
(* lifecycle: the caller's and the factory's.                              *)
(*                                                                         *)
(* A start is one call of createAgent or resume. `pc` is where its         *)
(* coroutine stands, `disp` where its memoised dispose() stands; code      *)
(* between two awaits is one action. The driver is only as much of         *)
(* AgentDriver as disposal waits for, a handle as much of SessionHandles   *)
(* as is opened and closed.                                                *)
(***************************************************************************)
EXTENDS Naturals

CONSTANTS
    Starts,     \* calls of createAgent or resume, each by a fiber of its own
    Ids,        \* agent and session ids
    none        \* nobody

ASSUME NoneAssumption == none \notin Starts \cup Ids

VARIABLES
    backed,     \* a persistence backend is mounted
    life,       \* of each start: its coroutine, its resources, its disposal
    claim,      \* the backend's writer of each id
    sessions,   \* SessionStore.store
    agents,     \* AgentRegistry.store
    owner,      \* the fiber each start was called from
    factory,    \* the factory's fiber
    joined      \* the disposals the factory's unload waits for

fibers == <<owner, factory, joined>>
vars == <<backed, life, claim, sessions, agents, fibers>>

Fresh == [pc |-> "idle", id |-> none, kind |-> "create", caller |-> FALSE, signal |-> FALSE,
          handle |-> "none", machine |-> "none", scope |-> "none",
          disp |-> "no", byOwner |-> FALSE, failed |-> FALSE, tracked |-> FALSE, followed |-> FALSE,
          announced |-> FALSE, created |-> FALSE, disposed |-> 0]

Init ==
    /\ backed \in BOOLEAN
    /\ life = [a \in Starts |-> Fresh]
    /\ claim = [i \in Ids |-> none]
    /\ sessions = [i \in Ids |-> none]
    /\ agents = [i \in Ids |-> none]
    /\ owner = [a \in Starts |-> "active"]
    /\ factory = "active"
    /\ joined = {}

pc(a) == life[a].pc
Id(a) == life[a].id

\* The teardown has run to its end.
Ended(a) == life[a].disp \in {"done", "failed"}
\* It has let go of everything, and retires its own bookkeeping.
Released(a) == Ended(a) \/ life[a].disp = "unfollow"
\* The caller of the start has been answered.
Answered(a) == pc(a) \in {"idle", "live", "failed", "left"}

\* What the wait for the backend is raced against: the caller's signal, and for
\* a resume the unload of the owner and of the factory.
Raced(a) ==
    \/ life[a].caller
    \/ life[a].kind = "resume" /\ (owner[a] # "active" \/ factory # "active")

-----------------------------------------------------------------------------
(* dispose()                                                               *)

\* dispose() up to its first await: the fused signal is aborted, and the driver
\* cancelled unless a publication is under way.
Torn(r, byOwner) ==
    [r EXCEPT !.signal = TRUE, !.byOwner = byOwner,
              !.disp = IF r.pc = "announcing" THEN "publication" ELSE "drain"]

\* The disposer of a scope's fiber.
Unwound(r) == [r EXCEPT !.scope = IF @ = "live" THEN "unwinding" ELSE @]

Closing(r) == [r EXCEPT !.handle = IF @ = "open" THEN "closing" ELSE @]

\* A failure of initialize(): the maintenance ends, and dispose() is awaited.
RolledBack(r) ==
    LET idle == [r EXCEPT !.pc = "rollback", !.machine = "idle"]
    IN IF r.disp = "no" THEN Torn(idle, FALSE) ELSE idle

\* The holder of a live handle disposes of it.
HandleDispose(a) ==
    /\ pc(a) = "live" /\ life[a].disp = "no"
    /\ life' = [life EXCEPT ![a] = Torn(@, FALSE)]
    /\ UNCHANGED <<backed, claim, sessions, agents, fibers>>

\* The creation listeners have settled. Clearing the inbox reads a projection
\* that goes with the factory: the cancel throws once it is unloading.
PublicationOver(a) ==
    /\ life[a].disp = "publication" /\ pc(a) # "announcing"
    /\ life' = [life EXCEPT ![a] =
                  IF factory = "active" THEN [@ EXCEPT !.disp = "drain"]
                  ELSE Closing([@ EXCEPT !.disp = "close", !.failed = TRUE])]
    /\ UNCHANGED <<backed, claim, sessions, agents, fibers>>

\* whenIdle(), then the scope is disposed of.
Drained(a) ==
    /\ life[a].disp = "drain" /\ life[a].machine = "idle"
    /\ life' = [life EXCEPT ![a] = Unwound([@ EXCEPT !.disp = "scope"])]
    /\ UNCHANGED <<backed, claim, sessions, agents, fibers>>

ScopeEnds(a) ==
    /\ life[a].scope = "unwinding"
    /\ life' = [life EXCEPT ![a].scope = "gone"]
    /\ UNCHANGED <<backed, claim, sessions, agents, fibers>>

\* handle.close(), memoised by the handle.
ScopeOver(a) ==
    /\ life[a].disp = "scope" /\ life[a].scope = "gone"
    /\ life' = [life EXCEPT ![a] = Closing([@ EXCEPT !.disp = "close"])]
    /\ UNCHANGED <<backed, claim, sessions, agents, fibers>>

\* close() settles: the claim is freed also when it rejects.
CloseEnds(a) ==
    /\ life[a].handle = "closing"
    /\ \E ok \in BOOLEAN :
          life' = [life EXCEPT ![a] = [@ EXCEPT !.handle = "closed", !.failed = @ \/ ~ok]]
    /\ claim' = [claim EXCEPT ![Id(a)] = none]
    /\ UNCHANGED <<backed, sessions, agents, fibers>>

\* Defect: a registry entry is removed by its id.
LeaveById(store, a) == [store EXCEPT ![Id(a)] = none]

Leave(store, a) == [i \in Ids |-> IF store[i] = a THEN none ELSE store[i]]

\* What is left of dispose() once it no longer waits for the owner's effect.
Finish(r) == [r EXCEPT !.disp = IF r.failed THEN "failed" ELSE "done"]

\* Defect: the registries are left before the handle is closed.
DetachEarly(a) ==
    /\ life[a].disp = "close"
    /\ agents' = Leave(agents, a)
    /\ sessions' = Leave(sessions, a)
    /\ LET seen == life[a].announced /\ \E i \in Ids : agents[i] = a
           r == [life[a] EXCEPT !.tracked = FALSE,
                                !.disposed = life[a].disposed + (IF seen THEN 1 ELSE 0)]
       IN life' = [life EXCEPT ![a] = IF r.byOwner THEN Finish(r)
                                      ELSE Unwound([r EXCEPT !.disp = "unfollow"])]
    /\ UNCHANGED <<backed, claim, fibers>>

\* detachAgent, detachSession, untrack; the owner's effect is retired unless it
\* is what runs this disposal.
Detach(a) ==
    /\ life[a].disp = "close" /\ life[a].handle # "closing"
    /\ agents' = Leave(agents, a)
    /\ sessions' = Leave(sessions, a)
    /\ LET seen == life[a].announced /\ \E i \in Ids : agents[i] = a
           r == [life[a] EXCEPT !.tracked = FALSE,
                                !.disposed = life[a].disposed + (IF seen THEN 1 ELSE 0)]
       IN life' = [life EXCEPT ![a] = IF r.byOwner THEN Finish(r)
                                      ELSE Unwound([r EXCEPT !.disp = "unfollow"])]
    /\ UNCHANGED <<backed, claim, fibers>>

\* Defect: the owner's effect joins the disposal that is retiring it.
UnfollowedJoined(a) ==
    /\ life[a].disp = "unfollow" /\ Ended(a)
    /\ life' = [life EXCEPT ![a] = Finish([@ EXCEPT !.followed = FALSE])]
    /\ UNCHANGED <<backed, claim, sessions, agents, fibers>>

\* The owner's effect, run by dispose() itself: its own closure returns at once,
\* and the scope's disposer is joined. It runs only once, here or in an unload.
Unfollowed(a) ==
    /\ life[a].disp = "unfollow"
    /\ life[a].scope = "gone" \/ owner[a] # "active"
    /\ life' = [life EXCEPT ![a] = Finish([@ EXCEPT !.followed = FALSE])]
    /\ UNCHANGED <<backed, claim, sessions, agents, fibers>>

-----------------------------------------------------------------------------
(* createAgent and resume                                                  *)

\* Up to the first await. A session of that id must not be live.
Start(a, i, kind) ==
    /\ pc(a) = "idle" /\ owner[a] = "active" /\ factory = "active"
    /\ IF kind = "create" THEN sessions[i] = none ELSE backed
    /\ life' = [life EXCEPT ![a] = [Fresh EXCEPT !.pc = "acquiring", !.id = i, !.kind = kind,
                                                !.handle = IF backed THEN "opening" ELSE "none"]]
    /\ UNCHANGED <<backed, claim, sessions, agents, fibers>>

\* The backend grants the write handle. Nobody waits for one that comes after
\* the race was lost, and it is closed at once.
Granted(a) ==
    /\ life[a].handle = "opening" /\ claim[Id(a)] = none
    /\ claim' = [claim EXCEPT ![Id(a)] = a]
    /\ life' = [life EXCEPT ![a].handle = IF pc(a) # "acquiring" \/ Raced(a) THEN "closing" ELSE "open"]
    /\ UNCHANGED <<backed, sessions, agents, fibers>>

\* The backend refuses it: no such session, another writer, or an I/O error.
Refused(a) ==
    /\ life[a].handle = "opening"
    /\ life' = [life EXCEPT ![a] = [@ EXCEPT !.handle = "none",
                                             !.pc = IF pc(a) = "acquiring" THEN "failed" ELSE pc(a)]]
    /\ UNCHANGED <<backed, claim, sessions, agents, fibers>>

\* raceAbortCall gives up.
AcquireAborts(a) ==
    /\ pc(a) = "acquiring" /\ Raced(a) /\ life[a].handle # "open"
    /\ life' = [life EXCEPT ![a].pc = "failed"]
    /\ UNCHANGED <<backed, claim, sessions, agents, fibers>>

\* Defect: the handle is left to nobody.
DroppedOpen(r) == [r EXCEPT !.pc = "closing"]

\* An error before there is an agent: the handle is closed and awaited.
Dropped(r) == Closing([r EXCEPT !.pc = "closing"])

\* Defect: the scope is minted by setup, which may not get that far.
PreparedUnscoped(r) ==
    [r EXCEPT !.pc = "setup", !.machine = "maintenance", !.tracked = TRUE, !.followed = TRUE]

\* prepare(): the driver, its scope and the shared teardown, owned by the
\* caller's fiber and tracked by the factory. Then setup starts, in maintenance.
Prepared(r) ==
    [r EXCEPT !.pc = "setup", !.machine = "maintenance", !.scope = "live",
              !.tracked = TRUE, !.followed = TRUE]

\* Defect: the factory is not looked at again after the awaits.
PrepareUnchecked(a) ==
    IF life[a].caller \/ owner[a] # "active"
    THEN life' = [life EXCEPT ![a] = Dropped(@)]
    ELSE life' = [life EXCEPT ![a] = Prepared(@)]

\* prepare() throws when the caller, the owner or the factory is gone; a caller
\* that aborts while the scope is minted is noticed behind it, and the teardown
\* that was already registered runs on its own.
Prepare(a) ==
    IF life[a].caller \/ owner[a] # "active" \/ factory # "active"
    THEN life' = [life EXCEPT ![a] = Dropped(@)]
    ELSE \/ life' = [life EXCEPT ![a] = Prepared(@)]
         \/ LET minted == [Prepared(life[a]) EXCEPT !.machine = "idle", !.caller = TRUE]
            IN life' = [life EXCEPT ![a] = [Dropped(Torn(minted, FALSE)) EXCEPT !.pc = "leaving"]]

\* createAgent goes on with its handle, or without a backend.
Created(a) ==
    /\ pc(a) = "acquiring" /\ life[a].kind = "create" /\ life[a].handle = IF backed THEN "open" ELSE "none"
    /\ Prepare(a)
    /\ UNCHANGED <<backed, claim, sessions, agents, fibers>>

\* resume goes on with its handle: the log is read.
Opened(a) ==
    /\ pc(a) = "acquiring" /\ life[a].kind = "resume" /\ life[a].handle = "open"
    /\ life' = [life EXCEPT ![a].pc = "loading"]
    /\ UNCHANGED <<backed, claim, sessions, agents, fibers>>

\* The read ends; the closers of an interrupted turn are appended.
Loaded(a) ==
    /\ pc(a) = "loading"
    /\ life' = [life EXCEPT ![a] = IF Raced(a) THEN Dropped(@) ELSE [@ EXCEPT !.pc = "mending"]]
    /\ UNCHANGED <<backed, claim, sessions, agents, fibers>>

\* They are stored; prepare() looks at the fibers again.
Mended(a) ==
    /\ pc(a) = "mending"
    /\ IF sessions[Id(a)] = none THEN Prepare(a) ELSE life' = [life EXCEPT ![a] = Dropped(@)]
    /\ UNCHANGED <<backed, claim, sessions, agents, fibers>>

ResumeFails(a) ==
    /\ pc(a) \in {"loading", "mending"}
    /\ life' = [life EXCEPT ![a] = Dropped(@)]
    /\ UNCHANGED <<backed, claim, sessions, agents, fibers>>

DropEnds(a) ==
    /\ pc(a) \in {"closing", "leaving"} /\ life[a].handle # "closing"
    /\ life' = [life EXCEPT ![a].pc = IF @ = "closing" THEN "failed" ELSE "left"]
    /\ UNCHANGED <<backed, claim, sessions, agents, fibers>>

-----------------------------------------------------------------------------
(* initialize(): setup, the unstored suffix, publication                   *)

\* setup settles before the signal aborts, and is committed; the part of the
\* log that is not stored yet, if any, is appended.
SetupDone(a) ==
    /\ pc(a) = "setup" /\ ~life[a].signal
    /\ \E suffix \in BOOLEAN :
          life' = [life EXCEPT ![a].pc = IF backed /\ suffix THEN "storing" ELSE "stored"]
    /\ UNCHANGED <<backed, claim, sessions, agents, fibers>>

SetupAborts(a) ==
    /\ pc(a) = "setup" /\ life[a].signal
    /\ life' = [life EXCEPT ![a] = RolledBack(@)]
    /\ UNCHANGED <<backed, claim, sessions, agents, fibers>>

\* setup, its commit or the append throws.
InitializeFails(a) ==
    /\ pc(a) \in {"setup", "storing"}
    /\ life' = [life EXCEPT ![a] = RolledBack(@)]
    /\ UNCHANGED <<backed, claim, sessions, agents, fibers>>

\* publish() up to the wait for the creation listeners of the agent. Those of
\* the session run inside, and may throw or abort the caller's signal.
Publish(a) ==
    /\ pc(a) \in {"storing", "stored"}
    /\ LET i == Id(a)
           free == ~life[a].signal /\ sessions[i] = none
       IN /\ sessions' = IF free THEN [sessions EXCEPT ![i] = a] ELSE sessions
          /\ agents' = IF free /\ agents[i] = none THEN [agents EXCEPT ![i] = a] ELSE agents
          /\ \/ /\ free /\ agents[i] = none
                /\ life' = [life EXCEPT ![a] = [@ EXCEPT !.pc = "announcing", !.announced = TRUE,
                                                         !.created = TRUE]]
             \/ \E aborts \in BOOLEAN :
                   life' = [life EXCEPT ![a] = RolledBack([@ EXCEPT !.caller = @ \/ (free /\ aborts)])]
    /\ UNCHANGED <<backed, claim, fibers>>

\* The creation listeners have settled: the agent is handed out, and may be
\* driven by what was sent during the maintenance.
Announced(a) ==
    /\ pc(a) = "announcing" /\ ~life[a].signal
    /\ \E busy \in BOOLEAN :
          life' = [life EXCEPT ![a] = [@ EXCEPT !.pc = "live",
                                                !.machine = IF busy THEN "running" ELSE "idle"]]
    /\ UNCHANGED <<backed, claim, sessions, agents, fibers>>

\* Defect: an entry counts as announced only when every listener succeeded.
AnnounceFailsUnmarked(a) ==
    /\ pc(a) = "announcing"
    /\ life' = [life EXCEPT ![a] = RolledBack([@ EXCEPT !.announced = FALSE])]
    /\ UNCHANGED <<backed, claim, sessions, agents, fibers>>

\* One of them failed, or the signal was aborted while they ran.
AnnounceFails(a) ==
    /\ pc(a) = "announcing"
    /\ life' = [life EXCEPT ![a] = RolledBack(@)]
    /\ UNCHANGED <<backed, claim, sessions, agents, fibers>>

\* The caller of a failed start is answered when the teardown has ended.
RolledBackEnds(a) ==
    /\ pc(a) = "rollback" /\ Ended(a)
    /\ life' = [life EXCEPT ![a].pc = "failed"]
    /\ UNCHANGED <<backed, claim, sessions, agents, fibers>>

-----------------------------------------------------------------------------
(* Other code                                                              *)

Starting == {"acquiring", "loading", "mending", "setup", "storing", "stored", "announcing"}

\* The caller's signal; dispose() has removed the listener.
CallerAborts(a) ==
    /\ pc(a) \in Starting /\ ~life[a].caller
    /\ life' = [life EXCEPT ![a] = [@ EXCEPT !.caller = TRUE, !.signal = life[a].signal \/ life[a].machine # "none"]]
    /\ UNCHANGED <<backed, claim, sessions, agents, fibers>>

\* The driver of a live agent starts and ends a turn.
Run(a) ==
    /\ pc(a) = "live" /\ life[a].disp = "no" /\ life[a].machine = "idle"
    /\ life' = [life EXCEPT ![a].machine = "running"]
    /\ UNCHANGED <<backed, claim, sessions, agents, fibers>>

Rest(a) ==
    /\ life[a].machine = "running"
    /\ life' = [life EXCEPT ![a].machine = "idle"]
    /\ UNCHANGED <<backed, claim, sessions, agents, fibers>>

\* The owner's fiber is disposed of: its effect runs dispose(), or joins only
\* the scope of a disposal that is already under way.
OwnerUnload(a) ==
    /\ owner[a] = "active"
    /\ owner' = [owner EXCEPT ![a] = "unloading"]
    /\ life' = [life EXCEPT ![a] = IF ~@.followed THEN @
                                   ELSE IF @.disp = "no" THEN Torn(@, TRUE) ELSE Unwound(@)]
    /\ UNCHANGED <<backed, claim, sessions, agents, factory, joined>>

OwnerUnloaded(a) ==
    /\ owner[a] = "unloading"
    /\ life[a].byOwner => Ended(a)
    /\ life[a].scope # "unwinding"
    /\ owner' = [owner EXCEPT ![a] = "gone"]
    /\ life' = [life EXCEPT ![a].followed = FALSE]
    /\ UNCHANGED <<backed, claim, sessions, agents, factory, joined>>

\* The factory's fiber is disposed of: the scopes are children of it, and every
\* tracked disposal is started or joined.
FactoryUnload ==
    /\ factory = "active"
    /\ factory' = "unloading"
    /\ joined' = {a \in Starts : life[a].tracked}
    /\ life' = [a \in Starts |->
                  IF a \notin joined' THEN life[a]
                  ELSE Unwound(IF life[a].disp = "no" THEN Torn(life[a], FALSE) ELSE life[a])]
    /\ UNCHANGED <<backed, claim, sessions, agents, owner>>

\* Promise.all over the disposals and the pending starts: all have ended, or
\* one disposal has rejected.
FactoryUnloaded ==
    /\ factory = "unloading"
    /\ \A a \in Starts : life[a].scope # "unwinding"
    /\ \/ \A a \in Starts : Answered(a) /\ (a \in joined => Ended(a))
       \/ \E a \in joined : life[a].disp = "failed"
    /\ factory' = "gone"
    /\ UNCHANGED <<backed, life, claim, sessions, agents, owner, joined>>

-----------------------------------------------------------------------------
Next ==
    \/ \E a \in Starts :
          \/ \E i \in Ids, kind \in {"create", "resume"} : Start(a, i, kind)
          \/ Granted(a) \/ Refused(a) \/ AcquireAborts(a) \/ Created(a) \/ Opened(a)
          \/ Loaded(a) \/ Mended(a) \/ ResumeFails(a) \/ DropEnds(a)
          \/ SetupDone(a) \/ SetupAborts(a) \/ InitializeFails(a)
          \/ Publish(a) \/ Announced(a) \/ AnnounceFails(a) \/ RolledBackEnds(a)
          \/ CallerAborts(a) \/ Run(a) \/ Rest(a) \/ OwnerUnload(a) \/ OwnerUnloaded(a)
          \/ HandleDispose(a) \/ PublicationOver(a) \/ Drained(a) \/ ScopeEnds(a) \/ ScopeOver(a)
          \/ CloseEnds(a) \/ Detach(a) \/ Unfollowed(a)
    \/ FactoryUnload \/ FactoryUnloaded

Spec == Init /\ [][Next]_vars

\* What is awaited settles: scopes unwind, handles close, listeners return, I/O
\* on an open handle ends, and so does the creation of a handle. Setup and the
\* opening of a stored log may hang; so may a turn, unless it is cancelled.
Steps(a) ==
    \/ life[a].kind = "create" /\ (Granted(a) \/ Refused(a))
    \/ AcquireAborts(a) \/ Created(a) \/ Opened(a)
    \/ (Raced(a) /\ Loaded(a)) \/ Mended(a) \/ DropEnds(a)
    \/ SetupAborts(a) \/ Publish(a) \/ Announced(a) \/ AnnounceFails(a) \/ RolledBackEnds(a)
    \/ (life[a].disp = "drain" /\ Rest(a)) \/ OwnerUnloaded(a)
    \/ PublicationOver(a) \/ Drained(a) \/ ScopeEnds(a) \/ ScopeOver(a)
    \/ CloseEnds(a) \/ Detach(a) \/ Unfollowed(a)

FairSpec == Spec /\ (\A a \in Starts : WF_vars(Steps(a))) /\ WF_vars(FactoryUnloaded)

-----------------------------------------------------------------------------
(* Properties                                                              *)

\* What is known of a start.
Lives == [
    pc : Starting \cup {"idle", "closing", "leaving", "rollback", "live", "failed", "left"},
    id : Ids \cup {none}, kind : {"create", "resume"}, caller : BOOLEAN, signal : BOOLEAN,
    handle : {"none", "opening", "open", "closing", "closed"},
    machine : {"none", "maintenance", "idle", "running"},
    scope : {"none", "live", "unwinding", "gone"},
    disp : {"no", "publication", "drain", "scope", "close", "unfollow", "done", "failed"},
    byOwner : BOOLEAN, failed : BOOLEAN, tracked : BOOLEAN, followed : BOOLEAN,
    announced : BOOLEAN, created : BOOLEAN, disposed : 0 .. 1]

\* Type invariant.
TypeOK ==
    /\ backed \in BOOLEAN
    /\ life \in [Starts -> Lives]
    /\ \A a \in Starts : /\ pc(a) = "idle" <=> Id(a) = none
                         /\ life[a].machine = "none" <=> life[a].scope = "none"
    /\ claim \in [Ids -> Starts \cup {none}]
    /\ sessions \in [Ids -> Starts \cup {none}]
    /\ agents \in [Ids -> Starts \cup {none}]
    /\ owner \in [Starts -> {"active", "unloading", "gone"}]
    /\ factory \in {"active", "unloading", "gone"}
    /\ joined \subseteq Starts

\* A start that failed, or whose agent was disposed of, leaves nothing behind:
\* no driver at work, no scope, no open handle or claim, no registry entry and
\* nothing the fibers would dispose of again, whoever ended it and when.
NoResidue ==
    \A a \in Starts :
        Ended(a) \/ pc(a) = "failed" =>
            /\ life[a].machine \in {"none", "idle"} /\ life[a].scope # "live"
            /\ life[a].handle # "open" /\ ~life[a].tracked
            /\ \A i \in Ids : a \notin {sessions[i], agents[i]}
                              /\ (claim[i] = a => life[a].handle = "closing" /\ ~Ended(a))

\* agent/disposed follows agent/created exactly once, also when a creation
\* listener failed after others had seen it (agent/src/index.ts: announce).
Paired ==
    \A a \in Starts :
        /\ life[a].disposed <= (IF life[a].created THEN 1 ELSE 0)
        /\ Ended(a) => life[a].disposed = (IF life[a].created THEN 1 ELSE 0)

\* When agent/disposed is emitted the driver has come to rest and the handle is
\* closed: a listener may resume the same id at once.
DisposedLast ==
    [][\A a \in Starts : life'[a].disposed # life[a].disposed =>
          /\ life[a].machine = "idle" /\ life[a].handle \in {"none", "closed"}
          /\ \A i \in Ids : claim[i] # a]_vars

\* A registered agent that runs has a handle its events can be routed into.
Writable ==
    \A a \in Starts : backed /\ life[a].machine = "running" =>
        life[a].handle = "open" /\ claim[Id(a)] = a /\ sessions[Id(a)] = a

\* The registries agree, hold only what the factory still tracks, and keep an
\* agent until it has been disposed of, whatever rival starts of its id do.
Registered ==
    /\ \A i \in Ids : /\ agents[i] # none => sessions[i] = agents[i]
                      /\ sessions[i] # none => life[sessions[i]].tracked /\ Id(sessions[i]) = i
    /\ \A a \in Starts : life[a].announced /\ ~Released(a) => agents[Id(a)] = a

\* What the registries say of an agent is so: it is found while it lives, and what
\* runs is found by the events it appends (agent/src/index.ts: leave; storage.ts).
RegistryKept == Registered /\ Writable

\* Unless a disposal rejects, the factory's unload ends when everything it made
\* has been torn down and every start has been answered.
FactoryDrains ==
    factory = "gone" /\ (\A a \in joined : life[a].disp # "failed") =>
        \A a \in Starts : Answered(a) /\ (life[a].machine # "none" => Released(a))

\* Teardown never waits for itself: a disposal ends, and so does an unload.
DisposalEnds == \A a \in Starts : life[a].disp = "drain" ~> Ended(a)
UnloadsEnd ==
    /\ \A a \in Starts : owner[a] = "unloading" ~> owner[a] = "gone"
    /\ factory = "unloading" ~> factory = "gone"

\* A caller that aborts is answered, even when the stored log never opens.
AbortAnswered == \A a \in Starts : (life[a].caller /\ pc(a) # "idle") ~> Answered(a)

\* Whoever waits for a start, a disposal or an unload is released.
StartsSettle == DisposalEnds /\ UnloadsEnd /\ AbortAnswered

-----------------------------------------------------------------------------
(* Why nothing is left behind: the strengthening that is inductive         *)

Before == {"idle", "acquiring", "loading", "mending", "closing"}
Initializing == {"setup", "storing", "stored", "announcing"}
Late == {"scope", "close", "unfollow", "done", "failed"}

\* Where a start stands says what it holds: before prepare() at most a handle;
\* initialize() runs in the driver's maintenance, which a disposal waits for.
Placed(a) ==
    LET r == life[a] IN
    /\ r.pc \in Before => r.machine = "none"
    /\ r.pc = "idle" => r.handle = "none"
    /\ r.pc = "closing" => r.handle # "open"
    /\ r.pc \in {"loading", "mending"} => r.handle = "open"
    /\ r.handle = "opening" => r.machine = "none"
    /\ r.machine = "none" => r.disp = "no" /\ ~r.announced /\ ~r.followed
    /\ r.pc \in Initializing <=> r.machine = "maintenance"
    /\ r.machine = "running" => r.pc = "live" /\ r.disp \in {"no", "drain"}
    /\ r.pc \in {"setup", "storing", "stored"} => ~r.announced
    /\ r.pc \in {"announcing", "live"} => r.announced
    /\ r.pc = "failed" => Ended(a) \/ (r.machine = "none" /\ r.handle # "open")
    /\ r.tracked <=> r.machine # "none" /\ ~Released(a)

\* How far dispose() is says what is gone already.
Disposed(a) ==
    LET r == life[a] IN
    /\ r.disp # "no" => r.signal
    /\ r.disp = "publication" => r.pc \in {"announcing", "rollback"}
    /\ r.disp \in Late => r.machine = "idle" /\ r.scope # "live"
    /\ r.disp \in Late \ {"scope"} => r.handle # "open"
    /\ Released(a) => r.handle \in {"none", "closed"}
    /\ backed /\ r.machine # "none" /\ r.pc \notin {"leaving", "left"} /\ r.disp \notin Late => r.handle = "open"
    /\ r.announced = r.created
    /\ r.disposed = IF r.announced /\ Released(a) THEN 1 ELSE 0

\* What the backend and the registries hold of it.
Entered(a) ==
    /\ \A i \in Ids : claim[i] = a <=> Id(a) = i /\ life[a].handle \in {"open", "closing"}
    /\ \A i \in Ids : sessions[i] = a => Id(a) = i /\ life[a].tracked
    /\ \A i \in Ids : agents[i] = a => sessions[i] = a
    /\ life[a].announced /\ ~Released(a) => agents[Id(a)] = a

\* The factory's unload reaches everything it made.
Reached(a) ==
    /\ factory # "active" => life[a].scope # "live" /\ (life[a].machine # "none" => a \in joined \/ Released(a))
    /\ factory = "gone" /\ (\A b \in joined : life[b].disp # "failed") =>
          Answered(a) /\ (a \in joined => Ended(a))

Sound == \A a \in Starts : Placed(a) /\ Disposed(a) /\ Entered(a) /\ Reached(a)

-----------------------------------------------------------------------------
(* What comments say and the code does not do                              *)

\* index.ts:523: dispose is "memoized so every racing owner awaits one
\* quiescence"; 580: "Owner disposal owns the same quiescence boundary".
OwnersQuiesce == \A a \in Starts : owner[a] = "gone" /\ life[a].disp # "no" => Released(a)
=============================================================================
