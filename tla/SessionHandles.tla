--------------------------- MODULE SessionHandles ---------------------------
(***************************************************************************)
(* The write handles of one stored session: JsonlSessionHandle, its        *)
(* tracker and its kernel lock (packages/session/session-persistence-jsonl *)
(* /src: storage.ts, lease.ts, and create, open, persistBatch and          *)
(* appendLines of index.ts), in several processes over one file.           *)
(*                                                                         *)
(* A handle is driven by its mutation chain, one operation at a time, whose*)
(* head stands at `work[h].stage`; by the drain of its buffer, which is    *)
(* one coroutine shared by all its callers; and by the coroutines of       *)
(* close() and of one flush() caller. Code between two awaits is one       *)
(* action. Events are their sequence numbers, counted from 1.              *)
(***************************************************************************)
EXTENDS Integers, Sequences

CONSTANTS
    Procs,      \* processes that share the file system
    Handles,    \* write handles, each created or opened once
    MaxEvents,  \* bound: events of the session
    Faults,     \* what may fail besides lock contention, see AllFaults
    none        \* no handle

AllFaults == {"write", "sync", "close", "rollback", "release"}

ASSUME BoundAssumption == MaxEvents \in Nat
ASSUME FaultAssumption == Faults \subseteq AllFaults
ASSUME NoneAssumption == none \notin Handles /\ none \notin Procs

VARIABLES
    file,       \* the artifact, without the bytes of a write that is under way:
                \* made, its complete events, and a torn tail
    lock,       \* the handle that holds session.lock, or none
    writers,    \* the tracker's writers, of each process
    pending,    \* the tracker's pending, of each process
    at,         \* of each handle: its process, its stage, its lease
    state,      \* StorageHandleState of each handle
    buf,        \* live routing: buffered, batchTimer, drainPaused, draining
    work,       \* the mutation chain and its running operation
    owner,      \* the session's owner: live, events so far, explicit append
    flush,      \* one flush() call of each handle
    close,      \* close() of each handle
    acked,      \* history: the last event whose write was acknowledged
    stray       \* history: a drain began that close() no longer waits for

tracker == <<writers, pending>>
vars == <<file, lock, tracker, at, state, buf, work, owner, flush, close, acked, stray>>

Events == 1 .. MaxEvents
Span(a, b) == [i \in 1 .. (b - a + 1) |-> a + i - 1]

Proc(h) == at[h].proc
Exists(h) == at[h].st \in {"open", "closed"}
Stored == file.full \o file.tail

NoState == [cursor |-> 0, made |-> FALSE, torn |-> FALSE, recovered |-> <<>>]
NoBuffer == [events |-> <<>>, timer |-> FALSE, paused |-> FALSE, drain |-> "none"]
NoWork == [chain |-> <<>>, stage |-> "idle", batch |-> <<>>]
NoOwner == [live |-> FALSE, last |-> 0, append |-> "none", suffix |-> <<>>]
NoFlush == [st |-> "none", kind |-> "session", upTo |-> 0, seen |-> 0]
NotClosing == [st |-> "no", wait |-> 0, failed |-> FALSE, upTo |-> 0]

Init ==
    /\ file = [made |-> FALSE, full |-> <<>>, torn |-> FALSE, tail |-> <<>>]
    /\ lock = none
    /\ writers = [p \in Procs |-> none]
    /\ pending = [p \in Procs |-> FALSE]
    /\ at = [h \in Handles |-> [proc |-> none, st |-> "unused", lease |-> "none"]]
    /\ state = [h \in Handles |-> NoState]
    /\ buf = [h \in Handles |-> NoBuffer]
    /\ work = [h \in Handles |-> NoWork]
    /\ owner = [h \in Handles |-> NoOwner]
    /\ flush = [h \in Handles |-> NoFlush]
    /\ close = [h \in Handles |-> NotClosing]
    /\ acked = 0
    /\ stray = FALSE

\* The operation at the head of the chain is at this stage.
Running(h, stage) == Exists(h) /\ work[h].chain # <<>> /\ work[h].stage = stage

\* A failed open(), or close(), awaits the release of its lease.
Releasing(h) == at[h].st = "failing" \/ (Exists(h) /\ close[h].st = "release")

\* A continuation of h is due as a microtask: timers, and completions of I/O,
\* are tasks of their own and come after all of them.
AwaitedChain(h) == Exists(h) /\ close[h].st \in {"look", "tail"} /\ close[h].wait = 0
Due(h) ==
    \/ at[h].st = "read"
    \/ Exists(h) /\ (buf[h].drain \in {"ended", "failed"} \/ flush[h].st = "drained")
    \/ AwaitedChain(h) \/ Running(h, "idle") \/ Running(h, "check")
    \/ Releasing(h) /\ at[h].lease = "none"
Quiet(p) == \A h \in Handles : Proc(h) = p => ~Due(h)

-----------------------------------------------------------------------------
(* create() and open(access = write)                                       *)

handleVars == <<buf, work, owner, flush, close, acked, stray>>

\* create: neither a pending session nor an artifact is found.
CreateLookup(h, p) ==
    /\ at[h].st = "unused" /\ ~pending[p] /\ ~file.made
    /\ at' = [at EXCEPT ![h].st = "creating", ![h].proc = p]
    /\ UNCHANGED <<file, lock, tracker, state, handleVars>>

\* registerCreated and adopt, after the lookup was awaited.
CreateRegister(h) ==
    /\ at[h].st = "creating" /\ Quiet(Proc(h))
    /\ IF writers[Proc(h)] = none
         THEN /\ writers' = [writers EXCEPT ![Proc(h)] = h]
              /\ pending' = [pending EXCEPT ![Proc(h)] = TRUE]
              /\ at' = [at EXCEPT ![h].st = "open"]
         ELSE at' = [at EXCEPT ![h].st = "gone"] /\ UNCHANGED tracker
    /\ UNCHANGED <<file, lock, state, handleVars>>

\* open: claimWrite.
OpenClaim(h, p) ==
    /\ at[h].st = "unused" /\ writers[p] = none
    /\ writers' = [writers EXCEPT ![p] = h]
    /\ at' = [at EXCEPT ![h].st = "claimed", ![h].proc = p]
    /\ UNCHANGED <<file, lock, pending, state, handleVars>>

\* The artifact is found and its lock acquired.
OpenLock(h) ==
    /\ at[h].st = "claimed" /\ Quiet(Proc(h)) /\ file.made /\ lock = none
    /\ lock' = h
    /\ at' = [at EXCEPT ![h].st = "locked", ![h].lease = "held"]
    /\ UNCHANGED <<file, tracker, state, handleVars>>

\* The log is read; a log that is not contiguous is refused (OpenFails).
OpenRead(h) ==
    /\ at[h].st = "locked" /\ Quiet(Proc(h)) /\ Stored = Span(1, Len(Stored))
    /\ state' = [state EXCEPT ![h] = [cursor |-> Len(Stored), made |-> TRUE,
                                      torn |-> file.torn, recovered |-> file.tail]]
    /\ at' = [at EXCEPT ![h].st = "read"]
    /\ UNCHANGED <<file, lock, tracker, handleVars>>

\* adopt.
OpenAdopt(h) ==
    /\ at[h].st = "read"
    /\ at' = [at EXCEPT ![h].st = "open"]
    /\ owner' = [owner EXCEPT ![h].last = state[h].cursor]
    /\ UNCHANGED <<file, lock, tracker, state, buf, work, flush, close, acked, stray>>

\* Not found, contention, a corrupt log, an I/O error or an abort: the lease, if
\* there is one, starts to be released.
OpenFails(h) ==
    /\ at[h].st \in {"claimed", "locked", "read"}
    /\ at' = [at EXCEPT ![h].st = "failing"]
    /\ UNCHANGED <<file, lock, tracker, state, handleVars>>

\* The release was awaited, and whether it failed or not: releaseClaim.
OpenReleases(h) ==
    /\ at[h].st = "failing" /\ at[h].lease # "held" /\ (at[h].lease = "released" => Quiet(Proc(h)))
    /\ writers' = [writers EXCEPT ![Proc(h)] = none]
    /\ at' = [at EXCEPT ![h].st = "gone", ![h].lease = "released"]
    /\ UNCHANGED <<file, lock, pending, state, handleVars>>

\* lease.release() of a failed open() or of close(): the descriptor is closed,
\* which frees the kernel lock; when that fails the lock may be free or not.
ReleaseLease(h) ==
    /\ Releasing(h) /\ at[h].lease = "held"
    /\ at' = [at EXCEPT ![h].lease = "released"]
    /\ \/ lock' = none /\ UNCHANGED close
       \/ /\ "release" \in Faults /\ lock' \in {none, lock}
          /\ close' = [close EXCEPT ![h].failed = @ \/ Exists(h)]
    /\ UNCHANGED <<file, tracker, state, buf, work, owner, flush, acked, stray>>

-----------------------------------------------------------------------------
(* drainLive, and the operations that put work on the chain                *)

\* drainLive() starts a drain unless one is running, which the caller joins.
Drain(b) == IF b.drain # "none" THEN b
            ELSE [b EXCEPT !.timer = FALSE, !.paused = FALSE,
                           !.drain = IF b.events = <<>> THEN "ended" ELSE "queued"]
WithDrain(b, chain) == IF b.drain = "none" /\ b.events # <<>> THEN Append(chain, "drain") ELSE chain

DrainLive(h) ==
    /\ buf' = [buf EXCEPT ![h] = Drain(@)]
    /\ work' = [work EXCEPT ![h].chain = WithDrain(buf[h], @)]

\* close() has taken its last look at the buffer.
PastLastLook(h) == close[h].st \in {"tail", "release", "done"}

\* append(): an owner that has not published the session yet stores a suffix.
ExplicitAppend(h, n) ==
    /\ at[h].st = "open" /\ close[h].st = "no" /\ n \in 1 .. (MaxEvents - owner[h].last)
    /\ ~owner[h].live /\ owner[h].append = "none"
    /\ owner' = [owner EXCEPT ![h].last = @ + n, ![h].append = "queued",
                            ![h].suffix = Span(owner[h].last + 1, owner[h].last + n)]
    /\ work' = [work EXCEPT ![h].chain = Append(@, "append")]
    /\ UNCHANGED <<file, lock, tracker, at, state, buf, flush, close, acked, stray>>

\* The owner publishes the session: its events are routed from here on.
GoLive(h) ==
    /\ at[h].st = "open" /\ ~owner[h].live /\ owner[h].append = "none"
    /\ owner' = [owner EXCEPT ![h].live = TRUE]
    /\ UNCHANGED <<file, lock, tracker, at, state, buf, work, flush, close, acked, stray>>

\* session/event: enqueueLive on the writer of the session's id.
RouteLive(h) ==
    /\ owner[h].live /\ Exists(h) /\ writers[Proc(h)] = h /\ owner[h].last < MaxEvents
    /\ owner' = [owner EXCEPT ![h].last = @ + 1]
    /\ buf' = [buf EXCEPT ![h].events = Append(@, owner[h].last + 1),
                          ![h].timer = @ \/ ~buf[h].paused]
    /\ UNCHANGED <<file, lock, tracker, at, state, work, flush, close, acked, stray>>

\* The batching deadline. Nothing cancels the timer of a closed handle.
TimerFires(h) ==
    /\ Exists(h) /\ buf[h].timer /\ Quiet(Proc(h))
    /\ buf' = [buf EXCEPT ![h] = Drain([@ EXCEPT !.timer = FALSE])]
    /\ work' = [work EXCEPT ![h].chain = WithDrain(buf[h], @)]
    /\ stray' = (stray \/ (PastLastLook(h) /\ buf[h].drain = "none" /\ buf[h].events # <<>>))
    /\ UNCHANGED <<file, lock, tracker, at, state, owner, flush, close, acked>>

\* The last event that was routed, or whose append was acknowledged; those
\* recovered from a torn tail never were.
Handed(h) == IF owner[h].append = "none" /\ owner[h].last > state[h].cursor
             THEN owner[h].last ELSE state[h].cursor - Len(state[h].recovered)

\* What a drain that is joined now can still see of that: one that has looked at
\* the buffer for the last time vouches only for what is in the artifact already.
Seen(h) == IF buf[h].drain = "ended" THEN state[h].cursor - Len(state[h].recovered) ELSE Handed(h)

\* session/flush of a live session ("session") or flushAll() of the service.
FlushCall(h, kind) ==
    /\ at[h].st = "open" /\ writers[Proc(h)] = h /\ (kind = "session" => owner[h].live)
    /\ flush[h].st = "none"
    /\ DrainLive(h)
    /\ flush' = [flush EXCEPT ![h] = [st |-> "drain", kind |-> kind, upTo |-> Handed(h), seen |-> Seen(h)]]
    /\ stray' = (stray \/ (PastLastLook(h) /\ buf[h].drain = "none" /\ buf[h].events # <<>>))
    /\ UNCHANGED <<file, lock, tracker, at, state, owner, close, acked>>

\* A flush that meets a closed handle: flushAll counts it as flushed.
Refused(h) == IF flush[h].kind = "all" THEN "done" ELSE "failed"

\* The drain was awaited: handle.flush().
FlushHandle(h) ==
    /\ Exists(h) /\ flush[h].st = "drained"
    /\ IF close[h].st # "no"
         THEN flush' = [flush EXCEPT ![h].st = Refused(h)] /\ UNCHANGED work
         ELSE /\ flush' = [flush EXCEPT ![h].st = "queued"]
              /\ work' = [work EXCEPT ![h].chain = Append(@, "flush")]
    /\ UNCHANGED <<file, lock, tracker, at, state, buf, owner, close, acked, stray>>

\* Defect: a rejected drain never reaches the close() that awaits it.
DrainSettlesQuietly(h) ==
    /\ Exists(h) /\ buf[h].drain \in {"ended", "failed"}
    /\ LET ok == buf[h].drain = "ended"
       IN /\ flush' = [flush EXCEPT ![h].st = IF @ # "drain" THEN @ ELSE IF ok THEN "drained" ELSE "failed"]
          /\ close' = IF close[h].st # "drain" \/ ~ok THEN close
                      ELSE [close EXCEPT ![h].st = "look", ![h].wait = Len(work[h].chain)]
    /\ buf' = [buf EXCEPT ![h].drain = "none"]
    /\ UNCHANGED <<file, lock, tracker, at, state, work, owner, acked, stray>>

\* drainBuffered returned or threw: `draining` is reset and its waiters go on.
DrainSettles(h) ==
    /\ Exists(h) /\ buf[h].drain \in {"ended", "failed"}
    /\ LET ok == buf[h].drain = "ended"
       IN /\ flush' = [flush EXCEPT ![h].st = IF @ # "drain" THEN @ ELSE IF ok THEN "drained" ELSE "failed"]
          /\ close' = IF close[h].st # "drain" THEN close
                      ELSE [close EXCEPT ![h].st = IF ok THEN "look" ELSE "tail",
                                        ![h].wait = Len(work[h].chain), ![h].failed = ~ok]
    /\ buf' = [buf EXCEPT ![h].drain = "none"]
    /\ UNCHANGED <<file, lock, tracker, at, state, work, owner, acked, stray>>

-----------------------------------------------------------------------------
(* The chained operations                                                  *)

\* Defect: a failed drain puts its batch behind what was routed meanwhile.
SettleBehind(h, ok) ==
    LET op == Head(work[h].chain)
        rest == Tail(work[h].chain)
        again == op = "drain" /\ ok /\ buf[h].events # <<>>
    IN /\ work' = [work EXCEPT ![h] = [NoWork EXCEPT !.chain = IF again THEN Append(rest, "drain") ELSE rest]]
       /\ buf' = IF op # "drain" THEN buf
                 ELSE IF ok THEN [buf EXCEPT ![h].drain = IF again THEN "queued" ELSE "ended"]
                 ELSE [buf EXCEPT ![h].events = @ \o work[h].batch, ![h].paused = TRUE, ![h].drain = "failed"]
       /\ owner' = IF op # "append" THEN owner
                   ELSE [owner EXCEPT ![h].append = IF ok THEN "none" ELSE "failed", ![h].suffix = <<>>]
       /\ flush' = IF op # "flush" THEN flush ELSE [flush EXCEPT ![h].st = IF ok THEN "done" ELSE "failed"]
       /\ close' = [close EXCEPT ![h].wait = IF @ = 0 THEN 0 ELSE @ - 1]

\* The running operation settles: its caller is told, and a drain goes on
\* while there is something buffered.
Settle(h, ok) ==
    LET op == Head(work[h].chain)
        rest == Tail(work[h].chain)
        again == op = "drain" /\ ok /\ buf[h].events # <<>>
    IN /\ work' = [work EXCEPT ![h] = [NoWork EXCEPT !.chain = IF again THEN Append(rest, "drain") ELSE rest]]
       /\ buf' = IF op # "drain" THEN buf
                 ELSE IF ok THEN [buf EXCEPT ![h].drain = IF again THEN "queued" ELSE "ended"]
                 ELSE [buf EXCEPT ![h].events = work[h].batch \o @, ![h].paused = TRUE, ![h].drain = "failed"]
       /\ owner' = IF op # "append" THEN owner
                   ELSE [owner EXCEPT ![h].append = IF ok THEN "none" ELSE "failed", ![h].suffix = <<>>]
       /\ flush' = IF op # "flush" THEN flush
                   ELSE [flush EXCEPT ![h].st = IF ok THEN "done"
                                                ELSE IF close[h].st # "no" /\ work[h].stage = "idle"
                                                     THEN Refused(h) ELSE "failed"]
       /\ close' = [close EXCEPT ![h].wait = IF @ = 0 THEN 0 ELSE @ - 1]

\* ensureLease is awaited even when the lease is there; then the first step of
\* the write.
AfterLease(op) == IF op = "flush" THEN "header" ELSE "check"
\* Defect: only open() takes the lock.
LeaseOfOpen(h, op) == AfterLease(op)

Lease(h, op) == IF at[h].lease = "none" THEN "lease" ELSE AfterLease(op)

\* An operation reaches the head of the chain. A close() that awaited the chain
\* registered before every operation that came later, so it goes first.
Begin(h) ==
    /\ Running(h, "idle") /\ ~AwaitedChain(h)
    /\ LET op == Head(work[h].chain)
       IN \/ /\ op = "drain"
             /\ work' = [work EXCEPT ![h].batch = buf[h].events, ![h].stage = Lease(h, op)]
             /\ buf' = [buf EXCEPT ![h].events = <<>>]
             /\ UNCHANGED <<owner, flush, close>>
          \/ /\ op = "append" /\ close[h].st = "no"
             /\ work' = [work EXCEPT ![h].batch = owner[h].suffix, ![h].stage = Lease(h, op)]
             /\ UNCHANGED <<buf, owner, flush, close>>
          \/ /\ op = "flush" /\ close[h].st = "no" /\ ~state[h].made
             /\ work' = [work EXCEPT ![h].stage = Lease(h, op)]
             /\ UNCHANGED <<buf, owner, flush, close>>
          \/ op = "flush" /\ close[h].st = "no" /\ state[h].made /\ Settle(h, TRUE)
          \/ op # "drain" /\ close[h].st # "no" /\ Settle(h, FALSE)
    /\ UNCHANGED <<file, lock, tracker, at, state, acked, stray>>

\* The kernel lock is acquired before the first log bytes are published.
AcquireLease(h) ==
    /\ Running(h, "lease") /\ Quiet(Proc(h)) /\ lock = none
    /\ lock' = h
    /\ at' = [at EXCEPT ![h].lease = "held"]
    /\ work' = [work EXCEPT ![h].stage = AfterLease(Head(work[h].chain))]
    /\ UNCHANGED <<file, tracker, state, buf, owner, flush, close, acked, stray>>

LeaseRefused(h) ==
    /\ Running(h, "lease") /\ Quiet(Proc(h)) /\ lock # none
    /\ Settle(h, FALSE)
    /\ UNCHANGED <<file, lock, tracker, at, state, acked, stray>>

\* assertContiguous, then the repair of a torn tail before the batch.
FirstWrite(h) == IF state[h].torn THEN "truncate" ELSE IF state[h].recovered # <<>> THEN "rewrite" ELSE "write"

Check(h) ==
    /\ Running(h, "check")
    /\ IF Head(work[h].batch) = state[h].cursor + 1
         THEN work' = [work EXCEPT ![h].stage = FirstWrite(h)] /\ UNCHANGED <<buf, owner, flush, close>>
         ELSE Settle(h, FALSE)
    /\ UNCHANGED <<file, lock, tracker, at, state, acked, stray>>

\* Defect: the cut is made one event too early.
TruncateTooMuch(h) ==
    /\ Running(h, "truncate") /\ Quiet(Proc(h))
    /\ file' = [file EXCEPT !.torn = FALSE, !.tail = <<>>, !.full = SubSeq(@, 1, Len(@) - 1)]
    /\ state' = [state EXCEPT ![h].torn = FALSE]
    /\ work' = [work EXCEPT ![h].stage = IF state[h].recovered # <<>> THEN "rewrite" ELSE "write"]
    /\ UNCHANGED <<lock, tracker, at, buf, owner, flush, close, acked, stray>>

\* repair(): the torn bytes are cut off and the cut is synced.
Truncate(h) ==
    /\ Running(h, "truncate") /\ Quiet(Proc(h))
    /\ file' = [file EXCEPT !.torn = FALSE, !.tail = <<>>]
    /\ state' = [state EXCEPT ![h].torn = FALSE]
    /\ work' = [work EXCEPT ![h].stage = IF state[h].recovered # <<>> THEN "rewrite" ELSE "write"]
    /\ UNCHANGED <<lock, tracker, at, buf, owner, flush, close, acked, stray>>

\* The complete events of the torn tail are written again.
Rewrite(h) ==
    /\ Running(h, "rewrite") /\ Quiet(Proc(h))
    /\ file' = [file EXCEPT !.full = @ \o state[h].recovered]
    /\ state' = [state EXCEPT ![h].recovered = <<>>]
    /\ work' = [work EXCEPT ![h].stage = "write"]
    /\ UNCHANGED <<lock, tracker, at, buf, owner, flush, close, acked, stray>>

\* What materialize publishes: the header and the first batch, by link().
Published(batch) == [made |-> TRUE, full |-> batch, torn |-> FALSE, tail |-> <<>>]

\* persistBatch succeeds: appendLines, or materialize for the first batch.
Write(h) ==
    /\ Running(h, "write") /\ Quiet(Proc(h))
    /\ state[h].made \/ ~file.made
    /\ file' = IF state[h].made THEN [file EXCEPT !.full = @ \o work[h].batch] ELSE Published(work[h].batch)
    /\ pending' = IF state[h].made THEN pending ELSE [pending EXCEPT ![Proc(h)] = FALSE]
    /\ state' = [state EXCEPT ![h].made = TRUE, ![h].cursor = @ + Len(work[h].batch)]
    /\ LET end == state[h].cursor + Len(work[h].batch) IN acked' = IF end > acked THEN end ELSE acked
    /\ Settle(h, TRUE)
    /\ UNCHANGED <<lock, writers, at, stray>>

\* flush() of an empty session: persistHeader.
Header(h) ==
    /\ Running(h, "header") /\ Quiet(Proc(h)) /\ ~file.made
    /\ file' = Published(<<>>)
    /\ pending' = [pending EXCEPT ![Proc(h)] = FALSE]
    /\ state' = [state EXCEPT ![h].made = TRUE]
    /\ Settle(h, TRUE)
    /\ UNCHANGED <<lock, writers, at, acked, stray>>

\* materialize never publishes over an existing log.
RefuseExisting(h) ==
    /\ Running(h, "write") \/ Running(h, "header")
    /\ Quiet(Proc(h))
    /\ ~state[h].made /\ file.made
    /\ Settle(h, FALSE)
    /\ UNCHANGED <<file, lock, tracker, at, state, acked, stray>>

-----------------------------------------------------------------------------
(* Failures of a write                                                     *)

\* The bytes of the write that runs: the recovered events go first.
Bytes(h) == IF state[h].recovered # <<>> THEN state[h].recovered ELSE work[h].batch

\* The running write appends to a log that exists (appendLines).
Appending(h) == state[h].made /\ (Running(h, "rewrite") \/ Running(h, "write"))

\* What the file is after a write of h failed for good:
\*   "write"    no byte was published
\*   "sync"     materialize linked the log, or repair cut it, and could not sync
\*   "close"    appendLines synced its bytes and could not close the file
Outcome(h) ==
    {file : f \in Faults \cap {"write"}}
    \cup {[file EXCEPT !.torn = FALSE, !.tail = <<>>] :
            f \in IF work[h].stage = "truncate" THEN Faults \cap {"sync"} ELSE {}}
    \cup {Published(Bytes(h)) : f \in IF state[h].made \/ file.made THEN {} ELSE Faults \cap {"sync"}}
    \cup {[file EXCEPT !.full = @ \o Bytes(h)] : f \in IF Appending(h) THEN Faults \cap {"close"} ELSE {}}

Fail(h) ==
    /\ \E stage \in {"lease", "truncate", "rewrite", "write", "header"} : Running(h, stage)
    /\ Quiet(Proc(h))
    /\ file' \in IF work[h].stage = "lease" THEN {file : f \in Faults \cap {"write"}} ELSE Outcome(h)
    /\ Settle(h, FALSE)
    /\ UNCHANGED <<lock, tracker, at, state, acked, stray>>

\* appendLines could not write or sync all of its bytes: it takes them back.
AppendFails(h) ==
    /\ Appending(h) /\ Quiet(Proc(h)) /\ Faults \cap {"write", "sync"} # {}
    /\ work' = [work EXCEPT ![h].stage = "rollback"]
    /\ UNCHANGED <<file, lock, tracker, at, state, buf, owner, flush, close, acked, stray>>

\* Defect: the bytes of a failed append stay in the log.
RollBackNothing(h) ==
    /\ Running(h, "rollback") /\ Quiet(Proc(h))
    /\ file' = [file EXCEPT !.full = @ \o Bytes(h)]
    /\ Settle(h, FALSE)
    /\ UNCHANGED <<lock, tracker, at, state, acked, stray>>

\* rollbackAppend: the log has its previous size again, or ("rollback") all of
\* the bytes stay; either way the append fails and its batch is written again.
RollBack(h) ==
    /\ Running(h, "rollback") /\ Quiet(Proc(h))
    /\ file' \in {file} \cup {[file EXCEPT !.full = @ \o Bytes(h)] : f \in Faults \cap {"rollback"}}
    /\ Settle(h, FALSE)
    /\ UNCHANGED <<lock, tracker, at, state, acked, stray>>

-----------------------------------------------------------------------------
(* close()                                                                 *)

Close(h) ==
    /\ at[h].st = "open" /\ close[h].st = "no"
    /\ close' = [close EXCEPT ![h].st = "drain", ![h].upTo = Handed(h)]
    /\ DrainLive(h)
    /\ UNCHANGED <<file, lock, tracker, at, state, owner, flush, acked, stray>>

\* Defect: close() drains once.
CloseLookNot(h) ==
    /\ AwaitedChain(h) /\ close[h].st = "look"
    /\ close' = [close EXCEPT ![h].st = "tail", ![h].wait = Len(work[h].chain)]
    /\ UNCHANGED <<file, lock, tracker, at, state, buf, work, owner, flush, acked, stray>>

\* The chain was awaited: look for events that were routed meanwhile.
CloseLook(h) ==
    /\ AwaitedChain(h) /\ close[h].st = "look"
    /\ IF buf[h].events = <<>>
         THEN close' = [close EXCEPT ![h].st = "tail", ![h].wait = Len(work[h].chain)] /\ UNCHANGED <<buf, work>>
         ELSE close' = [close EXCEPT ![h].st = "drain"] /\ DrainLive(h)
    /\ UNCHANGED <<file, lock, tracker, at, state, owner, flush, acked, stray>>

\* Awaited once more; the lease starts to be released.
CloseTail(h) ==
    /\ AwaitedChain(h) /\ close[h].st = "tail"
    /\ close' = [close EXCEPT ![h].st = "release"]
    /\ UNCHANGED <<file, lock, tracker, at, state, buf, work, owner, flush, acked, stray>>

\* Defect: the release of the lease is not awaited.
CloseReleaseUnawaited(h) ==
    /\ close[h].st = "release" /\ Exists(h)
    /\ at' = [at EXCEPT ![h].st = "closed"]
    /\ writers' = [writers EXCEPT ![Proc(h)] = none]
    /\ pending' = IF state[h].made THEN pending ELSE [pending EXCEPT ![Proc(h)] = FALSE]
    /\ close' = [close EXCEPT ![h].st = "done"]
    /\ UNCHANGED <<file, lock, state, buf, work, owner, flush, acked, stray>>

\* The release was awaited (ReleaseLease; a handle that never wrote has no lease),
\* and whether it failed or not releaseHandle frees the id.
CloseRelease(h) ==
    /\ close[h].st = "release" /\ Exists(h)
    /\ at[h].lease # "held" /\ (at[h].lease = "released" => Quiet(Proc(h)))
    /\ at' = [at EXCEPT ![h].st = "closed"]
    /\ writers' = [writers EXCEPT ![Proc(h)] = none]
    /\ pending' = IF state[h].made THEN pending ELSE [pending EXCEPT ![Proc(h)] = FALSE]
    /\ close' = [close EXCEPT ![h].st = "done"]
    /\ UNCHANGED <<file, lock, state, buf, work, owner, flush, acked, stray>>

-----------------------------------------------------------------------------
(* A process dies                                                          *)

Writes == {"truncate", "rewrite", "write", "header", "rollback"}

\* Handles whose write may have reached the file when the process died.
Writing(p) == {h \in Handles : Proc(h) = p /\ \E s \in Writes : Running(h, s)}

\* What an interrupted write leaves: nothing, everything, or a torn tail of
\* which some events can be recovered.
Interrupted(h) ==
    IF work[h].stage = "truncate" THEN {[file EXCEPT !.torn = FALSE, !.tail = <<>>]}
    ELSE IF ~state[h].made THEN {Published(Bytes(h)) : f \in IF file.made THEN {} ELSE {0}}
    ELSE {[file EXCEPT !.full = @ \o Bytes(h)]}
         \cup {[file EXCEPT !.torn = TRUE, !.tail = SubSeq(Bytes(h), 1, n)] : n \in 0 .. Len(Bytes(h))}

Gone == [proc |-> none, st |-> "gone", lease |-> "released"]

Reset(f, p, initial) == [h \in Handles |-> IF Proc(h) = p THEN initial ELSE f[h]]

Crash(p) ==
    /\ \E h \in Handles : Proc(h) = p
    /\ file' \in {file} \cup UNION {Interrupted(h) : h \in Writing(p)}
    /\ at' = [h \in Handles |-> IF Proc(h) = p THEN Gone ELSE at[h]]
    /\ lock' = IF lock # none /\ Proc(lock) = p THEN none ELSE lock
    /\ writers' = [writers EXCEPT ![p] = none]
    /\ pending' = [pending EXCEPT ![p] = FALSE]
    /\ state' = Reset(state, p, NoState)
    /\ buf' = Reset(buf, p, NoBuffer)
    /\ work' = Reset(work, p, NoWork)
    /\ owner' = Reset(owner, p, NoOwner)
    /\ close' = Reset(close, p, NotClosing)
    /\ flush' = Reset(flush, p, NoFlush)
    /\ UNCHANGED <<acked, stray>>

-----------------------------------------------------------------------------
Next ==
    \/ \E h \in Handles, p \in Procs : CreateLookup(h, p) \/ OpenClaim(h, p)
    \/ \E h \in Handles :
          \/ CreateRegister(h) \/ OpenLock(h) \/ OpenRead(h) \/ OpenAdopt(h) \/ OpenFails(h)
          \/ OpenReleases(h) \/ ReleaseLease(h)
          \/ \E n \in Events : ExplicitAppend(h, n)
          \/ GoLive(h) \/ RouteLive(h) \/ TimerFires(h)
          \/ \E kind \in {"session", "all"} : FlushCall(h, kind)
          \/ FlushHandle(h) \/ DrainSettles(h)
          \/ Begin(h) \/ AcquireLease(h) \/ LeaseRefused(h) \/ Check(h)
          \/ Truncate(h) \/ Rewrite(h) \/ Write(h) \/ Header(h) \/ RefuseExisting(h) \/ Fail(h)
          \/ AppendFails(h) \/ RollBack(h)
          \/ Close(h) \/ CloseLook(h) \/ CloseTail(h) \/ CloseRelease(h)
    \/ \E p \in Procs : Crash(p)

Spec == Init /\ [][Next]_vars

\* Timers fire, promises resume and I/O ends, one way or the other. Nobody has
\* to publish an event, to flush or to close.
Steps(h) ==
    \/ CreateRegister(h) \/ OpenLock(h) \/ OpenRead(h) \/ OpenAdopt(h)
    \/ OpenReleases(h) \/ ReleaseLease(h)
    \/ TimerFires(h) \/ FlushHandle(h) \/ DrainSettles(h)
    \/ Begin(h) \/ AcquireLease(h) \/ LeaseRefused(h) \/ Check(h)
    \/ Truncate(h) \/ Rewrite(h) \/ Write(h) \/ Header(h) \/ RefuseExisting(h)
    \/ RollBack(h)
    \/ CloseLook(h) \/ CloseTail(h) \/ CloseRelease(h)

FairSpec == Spec /\ \A h \in Handles : WF_vars(Steps(h))

-----------------------------------------------------------------------------
(* Properties                                                              *)

Stages == {"idle", "lease", "check"} \cup Writes
Ops == {"append", "flush", "drain"}

\* A lease object is that of a handle that opens, is open or fails to open; it is
\* given back before the handle is closed, unless a drain begins behind close().
LeaseFits(h) ==
    /\ ~stray /\ at[h].lease = "held" => at[h].st \in {"locked", "read", "failing", "open"}
    /\ at[h].lease = "released" => at[h].st \in {"failing", "open", "closed", "gone"}

\* Type invariant.
TypeOK ==
    /\ file \in [made : BOOLEAN, full : Seq(Events), torn : BOOLEAN, tail : Seq(Events)]
    /\ lock \in Handles \cup {none}
    /\ writers \in [Procs -> Handles \cup {none}]
    /\ pending \in [Procs -> BOOLEAN]
    /\ at \in [Handles -> [proc : Procs \cup {none},
                           st : {"unused", "creating", "claimed", "locked", "read", "failing", "open", "closed", "gone"},
                           lease : {"none", "held", "released"}]]
    /\ state \in [Handles -> [cursor : Nat, made : BOOLEAN, torn : BOOLEAN, recovered : Seq(Events)]]
    /\ buf \in [Handles -> [events : Seq(Events), timer : BOOLEAN, paused : BOOLEAN,
                            drain : {"none", "queued", "ended", "failed"}]]
    /\ work \in [Handles -> [chain : Seq(Ops), stage : Stages, batch : Seq(Events)]]
    /\ owner \in [Handles -> [live : BOOLEAN, last : Nat,
                              append : {"none", "queued", "failed"}, suffix : Seq(Events)]]
    /\ flush \in [Handles -> [st : {"none", "drain", "drained", "queued", "done", "failed"},
                              kind : {"session", "all"}, upTo : Int, seen : Int]]
    /\ close \in [Handles -> [st : {"no", "drain", "look", "tail", "release", "done"},
                              wait : Nat, failed : BOOLEAN, upTo : Int]]
    /\ acked \in Nat
    /\ stray \in BOOLEAN
    /\ \A h \in Handles : LeaseFits(h)

\* The stored log is contiguous from its first event and holds nothing twice,
\* whichever writes failed, were torn by a crash or were repaired by the next
\* writer (storage.ts: assertContiguous; index.ts: appendLines rolls back).
InOrder == ~stray => Stored = Span(1, Len(Stored))

\* A handle that changes the artifact holds the kernel lock, from its first
\* write until close() has drained it (lease.ts; storage.ts: ensureLease).
WriterHoldsLock == \A h \in Handles : ~stray /\ Exists(h) /\ work[h].stage \in Writes => lock = h

\* Every event handed to an open handle is stored, being written, or still in
\* order behind that: nothing is skipped or reordered by a failed drain that
\* puts its batch back while new events are routed (storage.ts: drainBuffered).
Unstored(h) == work[h].batch
               \o (IF work[h].batch = <<>> THEN owner[h].suffix ELSE <<>>) \o buf[h].events
NothingSkipped ==
    \A h \in Handles : at[h].st = "open" /\ owner[h].append # "failed"
        => Unstored(h) = Span(state[h].cursor + 1, owner[h].last)

\* A flush that succeeded found stored what the drain it joined could see, also
\* when it was answered by a concurrent close: that is everything routed before
\* the flush, unless it joined a drain that had already seen an empty buffer.
FlushCovers == \A h \in Handles : flush[h].st = "done" => flush[h].seen <= Len(file.full)

\* A close that succeeded stored everything routed before it was called, if no
\* drain began behind the last look of a close (`stray`).
CloseDrains ==
    \A h \in Handles : close[h].st = "done" /\ ~close[h].failed /\ ~stray
        => close[h].upTo <= Len(file.full)

\* What flush() and close() told their callers stays true of the artifact across
\* failed writes, rollbacks, truncations, crashes and later handles, in the
\* cases FlushCovers and CloseDrains name (storage.ts: drainLive, flush, close).
PromisesStored == FlushCovers /\ CloseDrains

\* The handles implement the seam's promise: what was acknowledged stays.
Log == INSTANCE StoredLog WITH stored <- Len(Stored), durable <- acked
StoredRefined == Log!Spec

\* A buffered event is written, or its drain fails and is reported: nobody has
\* to flush for it (storage.ts: enqueueLive arms the batching window).
BufferedSettles ==
    \A h \in Handles : (at[h].st = "open" /\ buf[h].events # <<>>)
        ~> (buf[h].events = <<>> \/ buf[h].paused \/ at[h].st # "open")

\* close() settles, however many drains, flushes and appends it has to wait for.
CloseEnds == \A h \in Handles : close[h].st = "drain" ~> close[h].st \in {"done", "no"}

\* Nothing routed or closed waits for ever.
HandlesSettle == BufferedSettles /\ CloseEnds

-----------------------------------------------------------------------------
(* What docs say and the code does not do                                  *)

\* "each handle's routed live events drain durably and its session materializes"
\* (session-persistence/src/index.ts:168-170): a flush that succeeded found
\* everything handed over before it in the artifact, here of a handle nobody closes.
FlushStores ==
    \A h \in Handles : flush[h].st = "done" /\ close[h].st = "no" => flush[h].upTo <= Len(file.full)

-----------------------------------------------------------------------------
(* Why a writer holds the lock: the strengthening that is inductive        *)

\* Only open handles work, and a stage is one of a chained operation.
Working(h) ==
    /\ ~Exists(h) => work[h] = NoWork /\ buf[h] = NoBuffer /\ close[h] = NotClosing
    /\ work[h].stage # "idle" => work[h].chain # <<>>

\* The lease object follows the kernel lock, and writes come after ensureLease.
Leased(h) ==
    /\ LeaseFits(h)
    /\ at[h].lease = "held" => lock = h
    /\ at[h].lease = "released" => at[h].st \in {"closed", "gone"} \/ Releasing(h)
    /\ work[h].stage \in Writes \cup {"check"} => at[h].lease # "none"

\* Exactly the running drain has an operation on the chain, and only one.
OneDrain(h) ==
    /\ \A i \in 1 .. Len(work[h].chain) : work[h].chain[i] = "drain" => buf[h].drain = "queued"
    /\ \A i, j \in 1 .. Len(work[h].chain) :
          work[h].chain[i] = "drain" /\ work[h].chain[j] = "drain" => i = j

\* What close() waits for is all there is, except a drain that began while it
\* waited and that it finds when it looks.
Waited(h) ==
    /\ (close[h].st = "done") <=> (at[h].st = "closed")
    /\ ~stray /\ close[h].st = "look" /\ buf[h].drain # "queued" => Len(work[h].chain) = close[h].wait
    /\ ~stray /\ close[h].st = "look" /\ buf[h].drain = "queued" =>
          /\ Len(work[h].chain) = close[h].wait + 1
          /\ work[h].chain[Len(work[h].chain)] = "drain"
          /\ buf[h].events # <<>>
          /\ close[h].wait = 0 => work[h].stage = "idle"
    /\ ~stray /\ PastLastLook(h) => buf[h].drain # "queued" /\ Len(work[h].chain) = close[h].wait
    /\ close[h].st \in {"release", "done"} => close[h].wait = 0

Ordered == \A h \in Handles : Working(h) /\ Leased(h) /\ OneDrain(h) /\ Waited(h)
=============================================================================
