-------------------------- MODULE AgentDriverProofs --------------------------
(***************************************************************************)
(* Theorems about AgentDriver, for every set of messages and every bound.  *)
(***************************************************************************)
EXTENDS AgentDriver, SequenceTheorems, TLAPS

USE DEF Targets, AllCauses, Live, StepReasons, Reasons, Causes0

-------------------------------------------------------------------------------
(* Types *)

LEMMA PhaseType ==
    ASSUME NEW kind \in {"idle", "maintenance", "running"}, NEW turn \in Nat
    PROVE  Phase(kind, turn) \in Phases
BY DEF Phase, Phases

LEMMA FrameType ==
    ASSUME NEW op \in {"wake", "clear", "abort", "drive", "retire"}, NEW flag \in BOOLEAN,
           NEW cause \in Causes0
    PROVE  Frame(op, flag, cause) \in Frames
BY DEF Frame, Frames

LEMMA SetFateType ==
    ASSUME fate \in [Msgs -> Fates], NEW S, NEW f \in Fates, SetFate(S, f)
    PROVE  fate' \in [Msgs -> Fates]
BY DEF SetFate, Fates

LEMMA ReleasedType ==
    ASSUME waking \in [Msgs -> Wakings]
    PROVE  Released \in [Msgs -> Wakings]
BY DEF Released, Wakings

LEMMA InitType == Init => TypeOK
<1> SUFFICES ASSUME Init PROVE TypeOK
  OBVIOUS
<1>1. TypePhase
  BY PhaseType DEF Init, TypePhase, Positions, Traces, Events, Trace!EmptyTrace, Trace!NoEvent
<1>2. TypeTurn
  BY DEF Init, TypeTurn
<1>3. TypeInbox
  BY DEF Init, TypeInbox, Fates, Wakings
<1>4. TypeCalls
  BY DEF Init, TypeCalls
<1> QED
  BY <1>1, <1>2, <1>3, <1>4 DEF TypeOK

-------------------------------------------------------------------------------
(* The log *)

LEMMA InitTrace == Init => DriverTrace /\ Trace!Init
BY DEF Init, DriverTrace, InTurn, InStep, Phase, Trace!Init, Trace!EmptyTrace

\* What one step does to the position, the phase and the log.
StepKeepsTrace == TypePhase' /\ DriverTrace' /\ [Trace!Next]_(Trace!vars)

\* A step that leaves the log and the position alone, and of the phase changes
\* the signal and the latch at most.
LEMMA SameTrace ==
    ASSUME TypePhase, DriverTrace, UNCHANGED <<pc, logVars>>,
           phase' \in Phases, phase'.kind = phase.kind,
           phase'.turn = phase.turn, phase'.step = phase.step
    PROVE  StepKeepsTrace
BY DEF TypePhase, DriverTrace, StepKeepsTrace, logVars, Trace!vars

\* ... or moves the position where no boundary lies in between.
SameKind(p, q) == (p \in InTurn <=> q \in InTurn) /\ (p \in InStep <=> q \in InStep)

LEMMA SameBoundary ==
    ASSUME TypePhase, DriverTrace, UNCHANGED <<phase, logVars>>,
           pc' \in Positions, SameKind(pc, pc'), pc # "off", pc' # "off", pc' # "turn"
    PROVE  StepKeepsTrace
BY DEF TypePhase, DriverTrace, StepKeepsTrace, SameKind, logVars, Trace!vars

\* A driver that is started, or gone, between two turns.
LEMMA BetweenTurns ==
    ASSUME TypePhase, DriverTrace, UNCHANGED logVars, pc \notin InTurn,
           NEW kind \in {"idle", "maintenance", "running"}, phase' = Phase(kind, phase.turn),
           pc' = IF kind = "running" THEN "turn" ELSE "off"
    PROVE  StepKeepsTrace
BY PhaseType DEF TypePhase, DriverTrace, StepKeepsTrace, InTurn, InStep, Phase, Phases, Positions, logVars, Trace!vars

LEMMA WakeTrace ==
    ASSUME TypePhase, DriverTrace, NEW afterAbort \in BOOLEAN, NEW rest,
           WakeDriver(afterAbort, rest), UNCHANGED logVars
    PROVE  StepKeepsTrace
<1>1. CASE phase.kind = "idle"
  BY <1>1, BetweenTurns DEF WakeDriver, DriverTrace, InTurn, InStep
<1>2. CASE phase.kind # "idle"
  BY <1>2, SameTrace DEF WakeDriver, TypePhase, Phases
<1> QED
  BY <1>1, <1>2

LEMMA AbortTrace ==
    ASSUME TypePhase, DriverTrace, NEW cause \in Causes0, NEW drop \in BOOLEAN,
           AbortActivity(cause, drop), UNCHANGED <<pc, logVars>>
    PROVE  StepKeepsTrace
BY SameTrace DEF AbortActivity, TypePhase, Phases

LEMMA ClearQueuedTrace ==
    ASSUME TypePhase, DriverTrace, NEW cause \in Causes0, NEW rest, ClearQueued(cause, rest),
           UNCHANGED <<pc, logVars>>
    PROVE  StepKeepsTrace
BY AbortTrace, SameTrace DEF ClearQueued, ClearList, TypePhase, Phases

LEMMA CancelTrace ==
    ASSUME TypePhase, DriverTrace, NEW cause \in Causes0, NEW keep \in BOOLEAN, CancelWith(cause, keep)
    PROVE  StepKeepsTrace
<1>1. UNCHANGED <<pc, logVars>>
  BY DEF CancelWith
<1>2. CASE AbortActivity(cause, FALSE)
  BY <1>1, <1>2, AbortTrace
<1>3. CASE ClearList("next-step", "clear", cause, calls)
  BY <1>1, <1>3, SameTrace DEF ClearList, TypePhase, Phases
<1>4. CASE ClearQueued(cause, calls)
  BY <1>1, <1>4, ClearQueuedTrace
<1> QED
  BY <1>2, <1>3, <1>4 DEF CancelWith

LEMMA CallersTrace == TypePhase /\ DriverTrace /\ Callers => StepKeepsTrace
<1> SUFFICES ASSUME TypePhase, DriverTrace, Callers PROVE StepKeepsTrace
  OBVIOUS
<1>1. ASSUME NEW m \in Msgs, NEW list \in Targets, NEW wakeup \in BOOLEAN, Send(m, list, wakeup)
      PROVE  StepKeepsTrace
  BY <1>1, SameTrace DEF Send, TypePhase, Phases
<1>2. ASSUME NEW cause \in Causes, NEW keepInbox \in BOOLEAN, Cancel(cause, keepInbox)
      PROVE  StepKeepsTrace
  BY <1>2, CancelTrace DEF Cancel
<1>3. CASE EditInbox
  BY <1>3, SameTrace DEF EditInbox, Splice, TypePhase, Phases
<1>4. CASE RunMaintenance
  BY <1>4, BetweenTurns DEF RunMaintenance, DriverTrace, InTurn, InStep
<1>5. CASE BeginDispose
  BY <1>5, CancelTrace DEF BeginDispose
<1> QED
  BY <1>1, <1>2, <1>3, <1>4, <1>5 DEF Callers

LEMMA ReturnsTrace == TypeOK /\ DriverTrace /\ Returns => StepKeepsTrace
<1> SUFFICES ASSUME TypeOK, DriverTrace, Returns PROVE StepKeepsTrace
  OBVIOUS
<1>0. TypePhase /\ TypeCalls
  BY DEF TypeOK
<1>1. calls # <<>> => Head(calls) \in Frames
  BY <1>0 DEF TypeCalls
<1>2. CASE SendWakes
  BY <1>0, <1>1, <1>2, WakeTrace DEF SendWakes, Frames
<1>3. CASE CancelAborts
  BY <1>0, <1>1, <1>3, AbortTrace DEF CancelAborts, Frames
<1>5. CASE CancelClears
  BY <1>0, <1>1, <1>5, ClearQueuedTrace DEF CancelClears, Frames
<1>4. CASE Retire
  <2>1. CASE Head(calls).flag /\ HasPending
    BY <1>0, <1>4, <2>1, WakeTrace DEF Retire
  <2>2. CASE ~(Head(calls).flag /\ HasPending)
    BY <1>0, <1>4, <2>2, SameTrace DEF Retire, TypePhase, Phases
  <2> QED
    BY <2>1, <2>2
<1> QED
  BY <1>2, <1>3, <1>4, <1>5 DEF Returns

\* The driver actions that append no boundary.
LEMMA QuietTrace ==
    ASSUME TypePhase, DriverTrace,
           \/ Claim \/ PreStep \/ Request \/ Admit \/ Build \/ Stream \/ Recover \/ Tools
           \/ Boundary \/ Stopping \/ Catch
    PROVE  StepKeepsTrace
<1> USE DEF SameKind, InTurn, InStep, Positions
<1>1. CASE Claim
  BY <1>1, SameBoundary DEF Claim, Raise
<1>2. CASE PreStep
  BY <1>2, SameBoundary DEF PreStep, Raise
<1>3. CASE Request \/ Build \/ Recover
  BY <1>3, SameBoundary DEF Request, Build, Recover, Fail, stepFrame
<1>4. CASE Admit
  BY <1>4, SameBoundary DEF Admit, Fail, stepFrame
<1>5. CASE Stream \/ Tools
  BY <1>5, SameBoundary DEF Stream, Tools, Fail, stepFrame
<1>6. CASE Boundary
  BY <1>6, SameBoundary DEF Boundary, NextStep, Raise
<1>7. CASE Stopping
  BY <1>7, SameBoundary DEF Stopping, NextStep, Break, Raise
<1>8. CASE Catch
  BY <1>8, SameBoundary DEF Catch
<1> QED
  BY <1>1, <1>2, <1>3, <1>4, <1>5, <1>6, <1>7, <1>8

\* The driver actions that append a boundary, and what the log makes of it.
LEMMA OpenTurnTrace == TypePhase /\ DriverTrace /\ OpenTurn => StepKeepsTrace
<1> SUFFICES ASSUME TypePhase, DriverTrace, OpenTurn PROVE StepKeepsTrace
  OBVIOUS
<1> USE DEF InTurn, InStep, Positions
<1>1. CASE Aborted
  BY <1>1 DEF OpenTurn, TypePhase, DriverTrace, StepKeepsTrace, logVars, Trace!vars
<1>2. CASE ~Aborted
  <2>1. /\ pc = "turn" /\ pc' = "claim"
        /\ phase' = [phase EXCEPT !.turn = @ + 1]
        /\ trace' = [trace EXCEPT !.openTurn = phase.turn + 1, !.nextStep = 1]
        /\ last' = Trace!Event("turn/start", phase.turn + 1, 0)
    BY <1>2 DEF OpenTurn, Logged
  <2>2. trace.openTurn = 0 /\ trace.nextTurn = phase.turn + 1 /\ trace.openStep = 0 /\ phase.step = 0
    BY <2>1 DEF DriverTrace
  <2>3. Trace!TurnStart
    BY <2>1, <2>2 DEF Trace!TurnStart
  <2>4. TypePhase'
    <3>1. trace \in Traces /\ phase \in Phases
      BY DEF TypePhase
    <3>. phase.turn + 1 \in Nat
      BY <3>1 DEF Phases
    <3>2. trace' \in Traces
      BY <2>1, <3>1 DEF Traces
    <3>3. last' \in Events
      BY <2>1, <3>1 DEF Phases, Events, Trace!Event
    <3>4. phase' \in Phases
      BY <2>1, <3>1 DEF Phases
    <3> QED
      BY <2>1, <3>2, <3>3, <3>4 DEF TypePhase
  <2>5. DriverTrace'
    BY <2>1, <2>2 DEF DriverTrace, TypePhase, Phases, Traces
  <2> QED
    BY <2>3, <2>4, <2>5 DEF StepKeepsTrace, Trace!Next
<1> QED
  BY <1>1, <1>2

LEMMA DecideTrace == TypePhase /\ DriverTrace /\ Decide => StepKeepsTrace
<1> SUFFICES ASSUME TypePhase, DriverTrace, Decide PROVE StepKeepsTrace
  OBVIOUS
<1> USE DEF InTurn, InStep, Positions
<1>1. CASE pc' \in {"endTurn", "catch"}
  <2>1. UNCHANGED <<phase, logVars>> /\ pc = "decide"
    BY <1>1 DEF Decide, Raise
  <2> QED
    BY <1>1, <2>1, SameBoundary DEF SameKind
<1>2. CASE pc' \notin {"endTurn", "catch"}
  <2>1. /\ pc = "decide" /\ pc' = "request"
        /\ phase' = [phase EXCEPT !.step = @ + 1]
        /\ trace' = [trace EXCEPT !.openStep = phase.step + 1]
        /\ last' = Trace!Event("step/start", phase.turn, phase.step + 1)
    BY <1>2 DEF Decide, Raise, Logged
  <2>2. trace.openTurn = phase.turn /\ phase.turn # 0 /\ trace.openStep = 0 /\ trace.nextStep = phase.step + 1
    BY <2>1 DEF DriverTrace
  <2>3. Trace!StepStart
    BY <2>1, <2>2 DEF Trace!StepStart
  <2>4. TypePhase'
    BY <2>1 DEF TypePhase, Phases, Traces, Events, Trace!Event
  <2>5. DriverTrace'
    BY <2>1, <2>2 DEF DriverTrace, TypePhase, Phases, Traces
  <2> QED
    BY <2>3, <2>4, <2>5 DEF StepKeepsTrace, Trace!Next
<1> QED
  BY <1>1, <1>2

LEMMA EndStepTrace == TypePhase /\ DriverTrace /\ EndStep => StepKeepsTrace
<1> SUFFICES ASSUME TypePhase, DriverTrace, EndStep PROVE StepKeepsTrace
  OBVIOUS
<1> USE DEF InTurn, InStep, Positions
<1>1. /\ pc = "stepEnd" /\ pc' \in {"catch", "boundary"} /\ phase' = phase
      /\ trace' = [trace EXCEPT !.openStep = 0, !.nextStep = trace.nextStep + 1]
      /\ last' = Trace!Event("step/end", phase.turn, phase.step)
  BY DEF EndStep, Logged
<1>2. /\ trace.openTurn = phase.turn /\ phase.turn # 0
      /\ trace.openStep = phase.step /\ phase.step # 0 /\ trace.nextStep = phase.step
  BY <1>1 DEF DriverTrace
<1>3. Trace!StepEnd
  BY <1>1, <1>2 DEF Trace!StepEnd
<1>4. TypePhase'
  <2>1. trace \in Traces /\ phase \in Phases
    BY DEF TypePhase
  <2>. trace.nextStep + 1 \in Nat
    BY <2>1 DEF Traces
  <2>2. trace' \in Traces
    BY <1>1, <2>1 DEF Traces
  <2>3. last' \in Events
    BY <1>1, <2>1 DEF Phases, Events, Trace!Event
  <2> QED
    BY <1>1, <2>1, <2>2, <2>3 DEF TypePhase
<1>5. DriverTrace'
  BY <1>1, <1>2 DEF DriverTrace, TypePhase, Phases, Traces
<1> QED
  BY <1>3, <1>4, <1>5 DEF StepKeepsTrace, Trace!Next

LEMMA EndTurnTrace == TypePhase /\ DriverTrace /\ EndTurn => StepKeepsTrace
<1> SUFFICES ASSUME TypePhase, DriverTrace, EndTurn PROVE StepKeepsTrace
  OBVIOUS
<1> USE DEF InTurn, InStep, Positions
<1>1. /\ pc = "endTurn" /\ pc' \in {"requeue", "exit"} /\ phase' = phase
      /\ trace' = [trace EXCEPT !.openTurn = 0, !.nextTurn = trace.nextTurn + 1]
      /\ last' = Trace!Event("turn/end", phase.turn, 0)
  BY DEF EndTurn, Logged
<1>2. /\ trace.openTurn = phase.turn /\ phase.turn # 0 /\ trace.nextTurn = phase.turn /\ trace.openStep = 0
  BY <1>1 DEF DriverTrace
<1>3. Trace!TurnEnd
  BY <1>1, <1>2 DEF Trace!TurnEnd
<1>4. TypePhase'
  <2>1. trace \in Traces /\ phase \in Phases
    BY DEF TypePhase
  <2>. trace.nextTurn + 1 \in Nat
    BY <2>1 DEF Traces
  <2>2. trace' \in Traces
    BY <1>1, <2>1 DEF Traces
  <2>3. last' \in Events
    BY <1>1, <2>1 DEF Phases, Events, Trace!Event
  <2> QED
    BY <1>1, <2>1, <2>2, <2>3 DEF TypePhase
<1>5. DriverTrace'
  BY <1>1, <1>2 DEF DriverTrace, TypePhase, Phases, Traces
<1> QED
  BY <1>3, <1>4, <1>5 DEF StepKeepsTrace, Trace!Next

LEMMA DriverStepTrace == TypePhase /\ DriverTrace /\ Driver => StepKeepsTrace
<1> SUFFICES ASSUME TypePhase, DriverTrace, Driver PROVE StepKeepsTrace
  OBVIOUS
<1>1. CASE Requeue
  BY <1>1, BetweenTurns, SameBoundary DEF Requeue, SameKind, InTurn, InStep, Positions
<1>2. CASE Exit
  BY <1>2, BetweenTurns DEF Exit, InTurn, InStep
<1>3. CASE EndMaintenance
  BY <1>3, BetweenTurns DEF EndMaintenance, DriverTrace, InTurn, InStep
<1> QED
  BY <1>1, <1>2, <1>3, QuietTrace, OpenTurnTrace, DecideTrace, EndStepTrace, EndTurnTrace DEF Driver

LEMMA NextTrace == TypeOK /\ DriverTrace /\ [Next]_vars => StepKeepsTrace
<1> SUFFICES ASSUME TypeOK, DriverTrace, [Next]_vars PROVE StepKeepsTrace
  OBVIOUS
<1>1. TypePhase
  BY DEF TypeOK
<1>2. CASE FinishDispose
  BY <1>1, <1>2, SameTrace DEF FinishDispose, TypePhase
<1>3. CASE UNCHANGED vars
  BY <1>1, <1>3, SameTrace DEF vars, TypePhase, logVars
<1> QED
  BY <1>1, <1>2, <1>3, CallersTrace, ReturnsTrace, DriverStepTrace DEF Next

-------------------------------------------------------------------------------
(* Types of the other variables *)

LEMMA ClaimedType ==
    ASSUME TypeInbox
    PROVE  Claimed \subseteq Msgs
<1>1. \A t \in Targets : inbox[t] \in Seq(Msgs)
  BY DEF TypeInbox
<1>2. \A s \in Seq(Msgs) : Range(s) \subseteq Msgs /\ (s # <<>> => Head(s) \in Msgs)
  BY DEF Range
<1> QED
  BY <1>1, <1>2 DEF Claimed

LEMMA TurnType == TypeOK /\ [Next]_vars => TypeTurn'
<1> SUFFICES ASSUME TypeOK, [Next]_vars PROVE TypeTurn'
  OBVIOUS
<1>0. TypeTurn /\ TypeInbox
  BY DEF TypeOK
<1> USE DEF TypeTurn, turnVars
<1>1. CASE UNCHANGED vars
  BY <1>0, <1>1 DEF vars
<1>2. CASE Callers
  <2>1. \A m \in Msgs, list \in Targets, wakeup \in BOOLEAN : Send(m, list, wakeup) => TypeTurn'
    BY <1>0 DEF Send
  <2>2. \A cause \in Causes, keep \in BOOLEAN : Cancel(cause, keep) => TypeTurn'
    BY <1>0 DEF Cancel, CancelWith
  <2>3. EditInbox => TypeTurn'
    BY <1>0 DEF EditInbox, Splice
  <2>4. RunMaintenance => TypeTurn'
    BY <1>0 DEF RunMaintenance
  <2>5. BeginDispose => TypeTurn'
    BY <1>0 DEF BeginDispose, CancelWith
  <2> QED
    BY <1>2, <2>1, <2>2, <2>3, <2>4, <2>5 DEF Callers
<1>3. CASE Returns \/ FinishDispose
  BY <1>0, <1>3 DEF Returns, SendWakes, CancelClears, CancelAborts, Retire, FinishDispose
<1>4. CASE OpenTurn
  BY <1>0, <1>4 DEF OpenTurn
<1>5. CASE Claim
  BY <1>0, <1>5, ClaimedType DEF Claim, Raise
<1>6. CASE PreStep
  BY ZenonT(60), <1>0, <1>6 DEF PreStep, Raise
<1>7. CASE Decide
  BY <1>0, <1>7 DEF Decide, Raise
<1>8. CASE Request \/ Build \/ Recover
  BY <1>0, <1>8 DEF Request, Build, Recover, Fail, stepFrame
<1>9. CASE Admit
  BY <1>0, <1>9 DEF Admit, Fail, stepFrame
<1>10. CASE Stream \/ Tools
  BY <1>0, <1>10 DEF Stream, Tools, Fail, stepFrame
<1>11. CASE EndStep
  BY <1>0, <1>11 DEF EndStep
<1>12. CASE Boundary \/ Stopping
  BY <1>0, <1>12 DEF Boundary, Stopping, NextStep, Break, Raise
<1>13. CASE Catch
  BY <1>0, <1>13 DEF Catch
<1>14. CASE EndTurn
  BY <1>0, <1>14 DEF EndTurn
<1>15. CASE Requeue \/ Exit \/ EndMaintenance
  BY <1>0, <1>15 DEF Requeue, Exit, EndMaintenance
<1> QED
  BY <1>1, <1>2, <1>3, <1>4, <1>5, <1>6, <1>7, <1>8, <1>9, <1>10, <1>11, <1>12, <1>13,
     <1>14, <1>15 DEF Next, Driver

LEMMA PushCalls ==
    ASSUME NEW frame \in Frames, NEW rest \in Seq(Frames)
    PROVE  <<frame>> \o rest \in Seq(Frames)
OBVIOUS

LEMMA WakeCalls ==
    ASSUME TypeInbox, NEW afterAbort, NEW rest \in Seq(Frames), WakeDriver(afterAbort, rest)
    PROVE  waking' \in [Msgs -> Wakings] /\ calls' \in Seq(Frames)
<1>1. DriveFrame \in Frames
  BY FrameType DEF DriveFrame
<1>2. Released \in [Msgs -> Wakings]
  BY ReleasedType DEF TypeInbox
<1>3. <<DriveFrame>> \o rest \in Seq(Frames)
  BY <1>1, PushCalls
<1> QED
  BY <1>2, <1>3 DEF WakeDriver, TypeInbox

LEMMA AbortWaking ==
    ASSUME TypeInbox, NEW cause, NEW drop, AbortActivity(cause, drop)
    PROVE  waking' \in [Msgs -> Wakings]
BY ReleasedType DEF AbortActivity, TypeInbox

LEMMA ClearTypes ==
    ASSUME TypeInbox, NEW list \in Targets, NEW op \in {"clear", "abort"}, NEW cause \in Causes0,
           NEW rest \in Seq(Frames), ClearList(list, op, cause, rest)
    PROVE  TypeInbox' /\ TypeCalls'
<1>1. Frame(op, TRUE, cause) \in Frames
  BY FrameType
<1>2. <<Frame(op, TRUE, cause)>> \o rest \in Seq(Frames)
  BY <1>1, PushCalls
<1>3. fate' \in [Msgs -> Fates]
  BY SetFateType DEF ClearList, TypeInbox, Fates
<1>4. <<>> \in Seq(Msgs)
  OBVIOUS
<1>5. inbox' \in [Targets -> Seq(Msgs)]
  BY <1>4 DEF ClearList, TypeInbox
<1> QED
  BY <1>2, <1>3, <1>5 DEF ClearList, TypeInbox, TypeCalls

LEMMA ClearQueuedTypes ==
    ASSUME TypeInbox, NEW cause \in Causes0, NEW rest \in Seq(Frames), ClearQueued(cause, rest)
    PROVE  TypeInbox' /\ TypeCalls'
<1>1. CASE ClearList("next-turn", "abort", cause, rest)
  BY <1>1, ClearTypes
<1>2. CASE AbortActivity(cause, TRUE) /\ calls' = rest /\ UNCHANGED <<inbox, fate>>
  BY <1>2, AbortWaking DEF TypeInbox, TypeCalls
<1> QED
  BY <1>1, <1>2 DEF ClearQueued

LEMMA CancelCalls ==
    ASSUME TypeInbox, TypeCalls, NEW cause \in Causes0, NEW keep, CancelWith(cause, keep)
    PROVE  TypeInbox' /\ TypeCalls'
<1>0. calls \in Seq(Frames)
  BY DEF TypeCalls
<1>1. CASE AbortActivity(cause, FALSE) /\ UNCHANGED <<calls, inbox, fate>>
  BY <1>1, AbortWaking DEF TypeInbox, TypeCalls
<1>2. CASE ClearList("next-step", "clear", cause, calls)
  BY <1>0, <1>2, ClearTypes
<1>3. CASE ClearQueued(cause, calls)
  BY <1>0, <1>3, ClearQueuedTypes
<1> QED
  BY <1>1, <1>2, <1>3 DEF CancelWith

LEMMA SendTypes ==
    ASSUME TypeInbox, TypeCalls, NEW m \in Msgs, NEW list \in Targets, NEW wakeup \in BOOLEAN,
           Send(m, list, wakeup)
    PROVE  TypeInbox' /\ TypeCalls'
<1> DEFINE late == wakeup /\ phase.kind # "idle" /\ Aborted
           to == IF late THEN "next-turn" ELSE list
<1>0. CASE UNCHANGED <<inbox, fate, waking, calls>>
  BY <1>0 DEF TypeInbox, TypeCalls
<1> SUFFICES ASSUME ~UNCHANGED <<inbox, fate, waking, calls>> PROVE TypeInbox' /\ TypeCalls'
  BY <1>0
<1>1. late \in BOOLEAN /\ to \in Targets
  BY DEF Aborted
<1>2. inbox' = [inbox EXCEPT ![to] = Append(@, m)]
  BY DEF Send
<1>3. inbox' \in [Targets -> Seq(Msgs)]
  <2>1. Append(inbox[to], m) \in Seq(Msgs)
    BY <1>1 DEF TypeInbox
  <2> HIDE DEF to
  <2> QED
    BY <1>2, <2>1 DEF TypeInbox
<1>4. fate' \in [Msgs -> Fates]
  BY SetFateType DEF Send, TypeInbox, Fates
<1>5. waking' \in [Msgs -> Wakings]
  BY DEF Send, TypeInbox, Wakings
<1>6. calls' \in Seq(Frames)
  <2>1. Frame("wake", late, Live) \in Frames
    BY <1>1, FrameType
  <2>2. <<Frame("wake", late, Live)>> \o calls \in Seq(Frames)
    BY <2>1, PushCalls DEF TypeCalls
  <2>3. calls' = IF wakeup THEN <<Frame("wake", late, Live)>> \o calls ELSE calls
    BY DEF Send
  <2> QED
    BY <2>2, <2>3 DEF TypeCalls
<1> QED
  BY <1>3, <1>4, <1>5, <1>6 DEF TypeInbox, TypeCalls

LEMMA InsertionType == \A inserted \in Insertions : inserted \in Seq(Msgs)
<1> SUFFICES ASSUME NEW inserted \in Insertions PROVE inserted \in Seq(Msgs)
  OBVIOUS
<1>1. PICK n \in 0 .. MaxInsert : inserted \in [1 .. n -> Offered]
  BY DEF Insertions
<1>2. n \in Nat /\ Offered \subseteq Msgs
  BY BoundsAssumption DEF Offered
<1> QED
  BY <1>1, <1>2

LEMMA SpliceTypes ==
    ASSUME TypeInbox, TypeCalls, NEW list \in Targets, NEW inserted \in Insertions,
           NEW start \in 0 .. Len(inbox[list]), NEW removed \in 0 .. Len(inbox[list]),
           Splice(list, start, removed, inserted)
    PROVE  TypeInbox' /\ TypeCalls'
<1> DEFINE old == inbox[list]
           new == SubSeq(old, 1, start) \o inserted \o SubSeq(old, start + removed + 1, Len(old))
<1>1. old \in Seq(Msgs) /\ inserted \in Seq(Msgs)
  <2>1. old \in Seq(Msgs)
    BY DEF TypeInbox
  <2>3. inserted \in Seq(Msgs)
    BY InsertionType
  <2> QED
    BY <2>1, <2>3
<1>2. new \in Seq(Msgs)
  <2>0. /\ start \in Nat /\ removed \in Nat /\ Len(old) \in Nat /\ start <= Len(old)
        /\ \A i \in 1 .. Len(old) : old[i] \in Msgs
    BY <1>1
  <2> HIDE DEF old
  <2>1. SubSeq(old, 1, start) \in Seq(Msgs)
    <3>1. \A i \in 1 .. start : old[i] \in Msgs
      BY <2>0
    <3> QED
      BY <2>0, <3>1, SubSeqProperties
  <2>2. SubSeq(old, start + removed + 1, Len(old)) \in Seq(Msgs)
    <3>1. \A i \in start + removed + 1 .. Len(old) : old[i] \in Msgs
      BY <2>0
    <3>2. start + removed + 1 \in Int
      BY <2>0
    <3> QED
      BY <2>0, <3>1, <3>2, SubSeqProperties
  <2> QED
    BY <1>1, <2>1, <2>2, ConcatProperties
<1>3. inbox' = inbox \/ inbox' = [inbox EXCEPT ![list] = new]
  BY DEF Splice
<1>4. inbox' \in [Targets -> Seq(Msgs)]
  <2> HIDE DEF new
  <2> QED
    BY <1>2, <1>3 DEF TypeInbox
<1>5. fate' \in [Msgs -> Fates]
  BY DEF Splice, TypeInbox, Fates
<1> QED
  BY <1>4, <1>5 DEF Splice, TypeInbox, TypeCalls

LEMMA AfterClaimType ==
    ASSUME TypeInbox
    PROVE  AfterClaim \in [Targets -> Seq(Msgs)]
<1>1. \A s \in Seq(Msgs) : s # <<>> => Tail(s) \in Seq(Msgs)
  BY HeadTailProperties
<1>2. <<>> \in Seq(Msgs)
  OBVIOUS
<1> QED
  BY <1>1, <1>2 DEF AfterClaim, TypeInbox

LEMMA InboxType == TypeOK /\ [Next]_vars => TypeInbox' /\ TypeCalls'
<1> SUFFICES ASSUME TypeOK, [Next]_vars PROVE TypeInbox' /\ TypeCalls'
  OBVIOUS
<1>0. TypePhase /\ TypeTurn /\ TypeInbox /\ TypeCalls
  BY DEF TypeOK
<1>1. calls # <<>> => Head(calls) \in Frames /\ Tail(calls) \in Seq(Frames)
  BY <1>0, HeadTailProperties DEF TypeCalls
<1>2. LeaveKick => TypeCalls'
  BY <1>0, <1>1 DEF LeaveKick, InKick, TypeCalls
<1>3. CASE Callers
  <2>1. \A m \in Msgs, list \in Targets, wakeup \in BOOLEAN :
           Send(m, list, wakeup) => TypeInbox' /\ TypeCalls'
    BY <1>0, SendTypes
  <2>2. \A cause \in Causes0, keep \in BOOLEAN : CancelWith(cause, keep) => TypeInbox' /\ TypeCalls'
    BY <1>0, CancelCalls
  <2>3. CASE EditInbox
    BY <1>0, <2>3, SpliceTypes DEF EditInbox
  <2>4. CASE RunMaintenance
    BY <1>0, <2>4 DEF RunMaintenance, TypeInbox, TypeCalls
  <2> QED
    BY <1>3, <2>1, <2>2, <2>3, <2>4 DEF Callers, Cancel, BeginDispose
<1>4. CASE SendWakes \/ Retire
  BY <1>0, <1>1, <1>4, WakeCalls DEF SendWakes, Retire, TypeInbox, TypeCalls
<1>5. CASE CancelAborts
  BY <1>0, <1>1, <1>5, AbortWaking DEF CancelAborts, TypeInbox, TypeCalls
<1>15. CASE CancelClears
  BY <1>0, <1>1, <1>15, ClearQueuedTypes DEF CancelClears, Frames
<1>6. CASE OpenTurn
  BY <1>0, <1>2, <1>6 DEF OpenTurn, TypeInbox, TypeCalls
<1>7. CASE Claim
  <2>1. fate' \in [Msgs -> Fates]
    BY <1>0, <1>7, SetFateType DEF Claim, TypeInbox, Fates
  <2>2. inbox' \in [Targets -> Seq(Msgs)]
    BY <1>0, <1>7, AfterClaimType DEF Claim, TypeInbox
  <2> QED
    BY <1>0, <1>2, <1>7, <2>1, <2>2 DEF Claim, TypeInbox, TypeCalls
<1>8. CASE PreStep
  <2>1. fate' \in [Msgs -> Fates]
    BY <1>0, <1>8, SetFateType DEF PreStep, TypeInbox, Fates
  <2> QED
    BY <1>0, <1>8, <2>1 DEF PreStep, TypeInbox, TypeCalls
<1>9. CASE Admit
  <2>1. fate' \in [Msgs -> Fates]
    <3>1. fate' = fate \/ \E m \in batch : SetFate({m}, "committed")
      BY <1>9 DEF Admit
    <3> QED
      BY <1>0, <3>1, SetFateType DEF TypeInbox, Fates
  <2> QED
    BY <1>0, <1>9, <2>1 DEF Admit, stepFrame, TypeInbox, TypeCalls
<1>10. CASE EndTurn
  <2>1. fate' \in [Msgs -> Fates]
    BY <1>0, <1>10, SetFateType DEF EndTurn, TypeInbox, Fates
  <2> QED
    BY <1>0, <1>2, <1>10, <2>1 DEF EndTurn, TypeInbox, TypeCalls
<1>11. CASE Requeue
  BY <1>0, <1>11, ReleasedType DEF Requeue, TypeInbox, TypeCalls
<1>12. CASE Exit
  <2>1. Frame("retire", phase.wake, Live) \in Frames
    BY <1>0, FrameType DEF TypePhase, Phases
  <2>2. calls' \in Seq(Frames)
    BY <1>12, <2>1 DEF Exit
  <2> QED
    BY <1>0, <1>12, <2>2 DEF Exit, TypeInbox, TypeCalls
<1>13. CASE EndMaintenance
  <2>1. DriveFrame \in Frames
    BY FrameType DEF DriveFrame
  <2>2. <<DriveFrame>> \in Seq(Frames)
    BY <2>1
  <2>3. Released \in [Msgs -> Wakings]
    BY <1>0, ReleasedType DEF TypeInbox
  <2> QED
    BY <1>0, <1>13, <2>2, <2>3 DEF EndMaintenance, TypeInbox, TypeCalls
<1>14. CASE Decide \/ Request \/ Build \/ Stream \/ Recover \/ Tools \/ EndStep \/ Boundary
            \/ Stopping \/ Catch \/ FinishDispose \/ UNCHANGED vars
  <2>1. UNCHANGED <<inbox, fate, waking, calls>>
    BY <1>14 DEF Decide, Request, Build, Stream, Recover, Tools, EndStep, Boundary, Stopping,
                 Catch, FinishDispose, stepFrame, vars
  <2> QED
    BY <1>0, <2>1 DEF TypeInbox, TypeCalls
<1> QED
  BY <1>3, <1>4, <1>5, <1>6, <1>7, <1>8, <1>9, <1>10, <1>11, <1>12, <1>13, <1>14, <1>15
  DEF Next, Driver, Returns

-------------------------------------------------------------------------------
(* The lists of the inbox *)

\* What the check of mutate() lets through: no identity twice in a list, and
\* none in both.
LEMMA NoDuplicates ==
    ASSUME NEW lists \in [Targets -> Seq(Msgs)], ~Duplicated(lists)
    PROVE  /\ \A t \in Targets : IsInjective(lists[t])
           /\ Range(lists["next-turn"]) \cap Range(lists["next-step"]) = {}
<1> DEFINE a == lists["next-turn"]
           b == lists["next-step"]
           c == a \o b
<1>1. a \in Seq(Msgs) /\ b \in Seq(Msgs) /\ IsInjective(c)
  BY DEF Duplicated
<1> HIDE DEF a, b
<1>2. /\ Len(a) \in Nat /\ DOMAIN a = 1 .. Len(a)
      /\ Len(b) \in Nat /\ DOMAIN b = 1 .. Len(b)
  BY <1>1
<1>3. /\ DOMAIN c = 1 .. Len(a) + Len(b)
      /\ \A i \in 1 .. Len(a) + Len(b) : c[i] = IF i <= Len(a) THEN a[i] ELSE b[i - Len(a)]
  BY <1>1, ConcatProperties
<1> HIDE DEF c
<1>4. \A i, j \in 1 .. Len(a) + Len(b) : c[i] = c[j] => i = j
  BY <1>1, <1>3 DEF IsInjective
<1>5. \A i \in 1 .. Len(a) : i \in 1 .. Len(a) + Len(b) /\ c[i] = a[i]
  BY <1>2, <1>3
<1>6. \A i \in 1 .. Len(b) : Len(a) + i \in 1 .. Len(a) + Len(b) /\ c[Len(a) + i] = b[i]
  BY <1>2, <1>3
<1>7. IsInjective(a)
  BY <1>2, <1>4, <1>5 DEF IsInjective
<1>8. IsInjective(b)
  <2> SUFFICES ASSUME NEW i \in 1 .. Len(b), NEW j \in 1 .. Len(b), b[i] = b[j] PROVE i = j
    BY <1>2 DEF IsInjective
  <2>1. Len(a) + i = Len(a) + j
    BY <1>4, <1>6
  <2> QED
    BY <1>2, <2>1
<1>9. Range(a) \cap Range(b) = {}
  <2> SUFFICES ASSUME NEW i \in 1 .. Len(a), NEW j \in 1 .. Len(b), a[i] = b[j] PROVE FALSE
    BY <1>2 DEF Range
  <2>1. i = Len(a) + j
    BY <1>4, <1>5, <1>6
  <2> QED
    BY <1>2, <2>1
<1> QED
  BY <1>7, <1>8, <1>9 DEF a, b

\* Pushing an identity adds it and no other.
LEMMA AppendList ==
    ASSUME NEW s \in Seq(Msgs), NEW m \in Msgs
    PROVE  Range(Append(s, m)) = Range(s) \cup {m}
<1> DEFINE t == Append(s, m)
<1>1. /\ Len(s) \in Nat /\ DOMAIN s = 1 .. Len(s)
      /\ DOMAIN t = 1 .. Len(s) + 1
      /\ \A i \in 1 .. Len(s) : t[i] = s[i]
      /\ t[Len(s) + 1] = m
  BY AppendProperties
<1> HIDE DEF t
<1>2. Range(t) \subseteq Range(s) \cup {m}
  BY <1>1 DEF Range
<1>3. Range(s) \cup {m} \subseteq Range(t)
  <2>1. \A i \in DOMAIN s : i \in DOMAIN t /\ t[i] = s[i]
    BY <1>1
  <2>2. Len(s) + 1 \in DOMAIN t
    BY <1>1
  <2> QED
    BY <1>1, <2>1, <2>2 DEF Range
<1> QED
  BY <1>2, <1>3 DEF t

\* Taking the head of a list takes that identity and no other.
LEMMA TailList ==
    ASSUME NEW s \in Seq(Msgs), s # <<>>, IsInjective(s)
    PROVE  IsInjective(Tail(s)) /\ Range(Tail(s)) = Range(s) \ {Head(s)}
<1> DEFINE t == Tail(s)
<1>1. /\ Len(s) \in Nat \ {0} /\ DOMAIN s = 1 .. Len(s) /\ Head(s) = s[1]
      /\ DOMAIN t = 1 .. Len(s) - 1
      /\ \A i \in 1 .. Len(s) - 1 : t[i] = s[i + 1]
  BY HeadTailProperties, EmptySeq
<1> HIDE DEF t
<1>2. \A i, j \in 1 .. Len(s) : s[i] = s[j] => i = j
  BY <1>1 DEF IsInjective
<1>3. IsInjective(t)
  <2> SUFFICES ASSUME NEW i \in 1 .. Len(s) - 1, NEW j \in 1 .. Len(s) - 1, t[i] = t[j]
               PROVE  i = j
    BY <1>1 DEF IsInjective
  <2>1. i + 1 \in 1 .. Len(s) /\ j + 1 \in 1 .. Len(s) /\ s[i + 1] = s[j + 1]
    BY <1>1
  <2>2. i + 1 = j + 1
    BY <1>2, <2>1
  <2> QED
    BY <2>2
<1>4. ASSUME NEW x \in Range(t) PROVE x \in Range(s) \ {Head(s)}
  <2>1. PICK i \in 1 .. Len(s) - 1 : x = t[i]
    BY <1>1 DEF Range
  <2>2. i + 1 \in 1 .. Len(s) /\ i + 1 # 1 /\ 1 \in 1 .. Len(s) /\ x = s[i + 1]
    BY <1>1, <2>1
  <2>3. x # s[1]
    BY <1>2, <2>2
  <2> QED
    BY <1>1, <2>2, <2>3 DEF Range
<1>5. ASSUME NEW x \in Range(s), x # Head(s) PROVE x \in Range(t)
  <2>1. PICK i \in 1 .. Len(s) : x = s[i]
    BY <1>1 DEF Range
  <2>2. i # 1
    BY <1>1, <1>5, <2>1
  <2>3. i - 1 \in 1 .. Len(s) - 1 /\ t[i - 1] = s[i]
    BY <1>1, <2>2
  <2> QED
    BY <1>1, <2>1, <2>3 DEF Range
<1> QED
  BY <1>3, <1>4, <1>5 DEF t

\* What Splice leaves of a list, and the identities it takes.
Spliced(s, new, start, removed) ==
    SubSeq(s, 1, start) \o new \o SubSeq(s, start + removed + 1, Len(s))
Stretch(s, start, removed) == {s[i] : i \in start + 1 .. start + removed}

\* Replacing a stretch of a list by other identities, some of which may be those
\* of the stretch, takes the stretch, adds the new ones and keeps the rest.
LEMMA SpliceList ==
    ASSUME NEW s \in Seq(Msgs), IsInjective(s),
           NEW new \in Seq(Msgs),
           NEW start \in Nat, NEW removed \in Nat, start + removed <= Len(s)
    PROVE  Range(Spliced(s, new, start, removed)) = (Range(s) \ Stretch(s, start, removed)) \cup Range(new)
<1> DEFINE a == SubSeq(s, 1, start)
           b == SubSeq(s, start + removed + 1, Len(s))
           t == a \o new \o b
           n == start + Len(new)
           k == Len(s) - removed + Len(new)
           gone == {s[i] : i \in start + 1 .. start + removed}
<1>1. /\ Len(s) \in Nat /\ DOMAIN s = 1 .. Len(s) /\ Len(new) \in Nat /\ DOMAIN new = 1 .. Len(new)
      /\ \A i \in 1 .. Len(s) : s[i] \in Msgs
  OBVIOUS
<1>2. /\ a \in Seq(Msgs) /\ Len(a) = start
      /\ \A i \in 1 .. start : a[i] = s[i]
  <2>1. \A i \in 1 .. start : s[i] \in Msgs
    BY <1>1
  <2>2. /\ a \in Seq(Msgs) /\ Len(a) = IF 1 <= start THEN start - 1 + 1 ELSE 0
        /\ \A i \in 1 .. start - 1 + 1 : a[i] = s[1 + i - 1]
    BY <2>1, SubSeqProperties
  <2> HIDE DEF a
  <2> QED
    BY <2>2
<1>3. /\ b \in Seq(Msgs) /\ Len(b) = Len(s) - start - removed
      /\ \A i \in 1 .. Len(s) - start - removed : b[i] = s[start + removed + i]
  <2>1. \A i \in start + removed + 1 .. Len(s) : s[i] \in Msgs
    BY <1>1
  <2>2. start + removed + 1 \in Int /\ Len(s) \in Int
    BY <1>1
  <2>3. /\ b \in Seq(Msgs)
        /\ Len(b) = IF start + removed + 1 <= Len(s) THEN Len(s) - (start + removed + 1) + 1 ELSE 0
        /\ \A i \in 1 .. Len(s) - (start + removed + 1) + 1 : b[i] = s[(start + removed + 1) + i - 1]
    BY <2>1, <2>2, SubSeqProperties
  <2> HIDE DEF b
  <2> DEFINE m == Len(s) - start - removed
  <2>4. Len(b) = m
    <3>1. Len(b) = IF start + removed + 1 <= Len(s) THEN Len(s) - (start + removed + 1) + 1 ELSE 0
      BY <2>3
    <3>2. Len(s) \in Nat
      BY <1>1
    <3>3. CASE start + removed + 1 <= Len(s)
      BY <3>1, <3>2, <3>3
    <3>4. CASE ~(start + removed + 1 <= Len(s))
      <4>1. start + removed = Len(s)
        BY <3>2, <3>4
      <4>2. Len(b) = 0
        BY <3>1, <3>4
      <4> QED
        BY <3>2, <4>1, <4>2
    <3> QED
      BY <3>3, <3>4
  <2>5. ASSUME NEW i \in 1 .. m PROVE b[i] = s[start + removed + i]
    <3>1. i \in 1 .. Len(s) - (start + removed + 1) + 1
      BY <1>1
    <3>2. b[i] = s[(start + removed + 1) + i - 1]
      BY <2>3, <3>1
    <3>3. (start + removed + 1) + i - 1 = start + removed + i
      BY <1>1
    <3> QED
      BY <3>2, <3>3
  <2> QED
    BY <2>3, <2>4, <2>5
<1>4. /\ a \o new \in Seq(Msgs) /\ Len(a \o new) = n
      /\ \A i \in 1 .. n : (a \o new)[i] = IF i <= start THEN s[i] ELSE new[i - start]
  <2>1. /\ a \o new \in Seq(Msgs) /\ Len(a \o new) = Len(a) + Len(new)
        /\ \A i \in 1 .. Len(a) + Len(new) :
              (a \o new)[i] = IF i <= Len(a) THEN a[i] ELSE new[i - Len(a)]
    BY <1>2, ConcatProperties
  <2> HIDE DEF a
  <2> QED
    BY <1>1, <1>2, <2>1
<1>5. /\ DOMAIN t = 1 .. k
      /\ \A i \in 1 .. k : t[i] = IF i <= start THEN s[i]
                                   ELSE IF i <= n THEN new[i - start]
                                   ELSE s[i - Len(new) + removed]
  <2> DEFINE c == a \o new
  <2>1. c \in Seq(Msgs) /\ b \in Seq(Msgs) /\ t = c \o b
    BY <1>3, <1>4
  <2>2. /\ t \in Seq(Msgs) /\ Len(t) = Len(c) + Len(b)
        /\ \A i \in 1 .. Len(c) + Len(b) : t[i] = IF i <= Len(c) THEN c[i] ELSE b[i - Len(c)]
    <3> HIDE DEF c, b, t
    <3> QED
      BY <2>1, ConcatProperties
  <2>3. /\ Len(c) = n /\ \A i \in 1 .. n : c[i] = IF i <= start THEN s[i] ELSE new[i - start]
    BY <1>4
  <2> HIDE DEF c, t, b
  <2>4. Len(t) = k /\ Len(c) + Len(b) = k
    BY <1>1, <1>3, <2>2, <2>3
  <2>5. DOMAIN t = 1 .. k
    BY <2>2, <2>4
  <2> SUFFICES ASSUME NEW i \in 1 .. k
               PROVE  t[i] = IF i <= start THEN s[i] ELSE IF i <= n THEN new[i - start]
                             ELSE s[i - Len(new) + removed]
    BY <2>5
  <2>6. CASE i <= n
    BY <1>1, <2>2, <2>3, <2>4, <2>6
  <2>7. CASE ~(i <= n)
    <3>1. t[i] = b[i - n]
      BY <1>1, <2>2, <2>3, <2>4, <2>7
    <3>2. i - n \in 1 .. Len(s) - start - removed
      BY <1>1, <2>7
    <3>3. b[i - n] = s[start + removed + (i - n)]
      BY <1>3, <3>2
    <3>4. start + removed + (i - n) = i - Len(new) + removed
      BY <1>1
    <3>5. ~(i <= start)
      BY <1>1, <2>7
    <3> QED
      BY <2>7, <3>1, <3>3, <3>4, <3>5
  <2> QED
    BY <2>6, <2>7
<1> HIDE DEF t, a, b
<1>6. \A i, j \in 1 .. Len(s) : s[i] = s[j] => i = j
  BY <1>1 DEF IsInjective
<1> DEFINE Old(i) == i <= start \/ i > n
           at(i) == IF i <= start THEN i ELSE i - Len(new) + removed
<1>7. ASSUME NEW i \in 1 .. k
      PROVE  /\ Old(i) => at(i) \in 1 .. Len(s) /\ t[i] = s[at(i)]
                          /\ at(i) \notin start + 1 .. start + removed
             /\ ~Old(i) => i - start \in 1 .. Len(new) /\ t[i] = new[i - start]
  BY <1>1, <1>5
<1>9. ASSUME NEW x \in Range(t) PROVE x \in (Range(s) \ gone) \cup Range(new)
  <2>1. PICK i \in 1 .. k : x = t[i]
    BY <1>5 DEF Range
  <2>2. CASE Old(i)
    <3>1. /\ at(i) \in 1 .. Len(s) /\ x = s[at(i)]
          /\ at(i) \notin start + 1 .. start + removed
      BY <1>7, <2>1, <2>2
    <3> HIDE DEF at
    <3>2. ASSUME NEW j \in start + 1 .. start + removed PROVE x # s[j]
      <4>1. j \in 1 .. Len(s) /\ j # at(i)
        BY <1>1, <3>1
      <4> QED
        BY <1>6, <3>1, <4>1
    <3>3. x \in Range(s)
      BY <1>1, <3>1 DEF Range
    <3> QED
      BY <3>2, <3>3
  <2>3. CASE ~Old(i)
    <3>1. i - start \in DOMAIN new /\ x = new[i - start]
      BY <1>1, <1>7, <2>1, <2>3
    <3> QED
      BY <3>1 DEF Range
  <2> QED
    BY <2>2, <2>3
<1>10. ASSUME NEW x \in (Range(s) \ gone) \cup Range(new) PROVE x \in Range(t)
  <2>1. CASE x \in Range(new)
    <3>1. PICK j \in 1 .. Len(new) : x = new[j]
      BY <1>1, <2>1 DEF Range
    <3>2. start + j \in 1 .. k /\ ~Old(start + j) /\ (start + j) - start = j
      BY <1>1
    <3>3. t[start + j] = x
      BY <1>7, <3>1, <3>2
    <3> QED
      BY <1>5, <3>2, <3>3 DEF Range
  <2>2. CASE x \in Range(s) \ gone
    <3>1. PICK j \in 1 .. Len(s) : x = s[j]
      BY <1>1, <2>2 DEF Range
    <3>2. j \notin start + 1 .. start + removed
      BY <2>2, <3>1
    <3> DEFINE i == IF j <= start THEN j ELSE j - removed + Len(new)
    <3>3. i \in 1 .. k /\ Old(i) /\ at(i) = j
      BY <1>1, <3>2
    <3>4. t[i] = x
      BY <1>7, <3>1, <3>3
    <3> HIDE DEF i
    <3> QED
      BY <1>5, <3>3, <3>4 DEF Range
  <2> QED
    BY <2>1, <2>2
<1>11. Range(t) = (Range(s) \ gone) \cup Range(new)
  BY <1>9, <1>10
<1> QED
  BY <1>11 DEF t, a, b, Spliced, Stretch

-------------------------------------------------------------------------------
(* The theorems *)

LEMMA NextKeeps == TypeOK /\ DriverTrace /\ [Next]_vars =>
                      TypeOK' /\ DriverTrace' /\ [Trace!Next]_(Trace!vars)
<1> SUFFICES ASSUME TypeOK, DriverTrace, [Next]_vars
             PROVE  TypeOK' /\ DriverTrace' /\ [Trace!Next]_(Trace!vars)
  OBVIOUS
<1>1. StepKeepsTrace
  BY NextTrace
<1>2. TypeTurn' /\ TypeInbox' /\ TypeCalls'
  BY TurnType, InboxType
<1> QED
  BY <1>1, <1>2 DEF StepKeepsTrace, TypeOK

\* The variables keep the types of agent.ts and inbox.ts, and the position of
\* the driver's coroutine determines which turn and step the log has open.
THEOREM TypeCorrect == Spec => [](TypeOK /\ DriverTrace)
<1>1. Init => TypeOK /\ DriverTrace
  BY InitType, InitTrace
<1>2. (TypeOK /\ DriverTrace) /\ [Next]_vars => (TypeOK /\ DriverTrace)'
  BY NextKeeps
<1> QED
  BY <1>1, <1>2, PTL DEF Spec

\* The driver implements the session trace: whatever calls, cancels, failures
\* and re-entrant wakes interleave with it, every boundary event it appends is
\* one session/src/invariant.ts accepts.
THEOREM TraceRefined == Spec => TraceOK
<1>1. Init => Trace!Init
  BY InitTrace
<1>2. TypeOK /\ DriverTrace /\ [Next]_vars => [Trace!Next]_(Trace!vars)
  BY NextKeeps
<1> QED
  BY <1>1, <1>2, TypeCorrect, PTL DEF Spec, TraceOK, Trace!Spec

-------------------------------------------------------------------------------
(* Pending and claimed messages *)

\* What the driver took out of the lists and has neither committed nor dropped.
Held == {m \in Msgs : fate[m] = "claimed"}

\* Only the step that is being proposed or admitted holds claimed messages: the
\* batch is exactly what was claimed until the pre-step hooks settle, bounds it
\* until the request is built, and a turn that leaves with a normal reason
\* holds none.  A failing step may, until its turn is closed.
ClaimsHeld ==
    /\ pc = "preStep" => Held = batch
    /\ pc \in {"decide", "request", "admit"} => Held \subseteq batch
    /\ pc = "decide" /\ decision = "empty" => batch = {}
    /\ pc = "stepEnd" => raised \/ Held = {}
    /\ pc = "endTurn" /\ turnEnds \in StepReasons => Held = {}
    /\ pc \notin {"preStep", "decide", "request", "admit", "stepEnd", "catch", "endTurn"} => Held = {}

InboxInv == InboxConsistent /\ ClaimsHeld

LEMMA TwoLists ==
    /\ Pending = Range(inbox["next-turn"]) \cup Range(inbox["next-step"])
    /\ Pending' = Range(inbox'["next-turn"]) \cup Range(inbox'["next-step"])
BY DEF Pending

LEMMA InitInbox == Init => InboxInv
<1> SUFFICES ASSUME Init PROVE InboxInv
  OBVIOUS
<1>1. Range(<<>>) = {} /\ IsInjective(<<>>)
  BY DEF Range, IsInjective
<1>2. inbox["next-turn"] = <<>> /\ inbox["next-step"] = <<>>
  BY DEF Init
<1>3. Pending = {}
  BY <1>1, <1>2, TwoLists
<1>4. \A m \in Msgs : fate[m] = "unsent"
  BY DEF Init
<1>5. InboxConsistent
  BY <1>1, <1>2, <1>3, <1>4 DEF InboxConsistent
<1>6. ClaimsHeld
  BY <1>4 DEF Init, ClaimsHeld, Held
<1> QED
  BY <1>5, <1>6 DEF InboxInv

\* Identities move into and out of one list.
LEMMA MoveList ==
    ASSUME TypeInbox, InboxConsistent, NEW list \in Targets, NEW new,
           NEW gone \in SUBSET Range(inbox[list]), NEW added,
           Range(new) = (Range(inbox[list]) \ gone) \cup added,
           inbox' = [inbox EXCEPT ![list] = new],
           \A t \in Targets : IsInjective(inbox'[t]),
           Range(inbox'["next-turn"]) \cap Range(inbox'["next-step"]) = {},
           \A m \in Msgs : fate'[m] = "pending" <=> m \in added \/ (fate[m] = "pending" /\ m \notin gone)
    PROVE  InboxConsistent'
<1>1. PICK other \in Targets : other # list /\ Targets = {list, other}
  <2>1. CASE list = "next-turn"
    BY <2>1
  <2>2. CASE list = "next-step"
    BY <2>2
  <2> QED
    BY <2>1, <2>2
<1>2. inbox'[list] = new /\ inbox'[other] = inbox[other]
  BY <1>1 DEF TypeInbox
<1>3. /\ Pending = Range(inbox[list]) \cup Range(inbox[other])
      /\ Pending' = Range(inbox'[list]) \cup Range(inbox'[other])
  BY <1>1, TwoLists
<1>4. Range(inbox[list]) \cap Range(inbox[other]) = {}
  BY <1>1 DEF InboxConsistent
<1>8. Pending' = (Pending \ gone) \cup added
  BY <1>2, <1>3, <1>4
<1>9. \A m \in Msgs : fate'[m] = "pending" <=> m \in Pending'
  BY <1>8 DEF InboxConsistent
<1> QED
  BY <1>9 DEF InboxConsistent

\* The lists stay as they are, and no pending message gets another fate.
LEMMA SameLists ==
    ASSUME InboxConsistent, inbox' = inbox,
           \A m \in Msgs : fate'[m] = "pending" <=> fate[m] = "pending"
    PROVE  InboxConsistent'
BY DEF InboxConsistent, Pending

\* One list is cleared, and what it held is cancelled.
LEMMA ClearedList ==
    ASSUME TypeInbox, InboxConsistent, NEW list \in Targets, inbox' = [inbox EXCEPT ![list] = <<>>],
           SetFate(Range(inbox[list]), "canceled")
    PROVE  InboxConsistent' /\ Held' = Held
<1> DEFINE gone == Range(inbox[list])
<1>1. Range(<<>>) = {} /\ IsInjective(<<>>)
  BY DEF Range, IsInjective
<1>2. \A t \in Targets : inbox'[t] = IF t = list THEN <<>> ELSE inbox[t]
  BY DEF TypeInbox
<1>3. \A m \in Msgs : fate'[m] = IF m \in gone THEN "canceled" ELSE fate[m]
  BY DEF SetFate
<1>4. \A m \in Msgs : m \in gone => fate[m] = "pending"
  BY DEF InboxConsistent, Pending
<1>5. /\ \A t \in Targets : IsInjective(inbox'[t])
      /\ Range(inbox'["next-turn"]) \cap Range(inbox'["next-step"]) = {}
  BY <1>1, <1>2 DEF InboxConsistent
<1>6. Range(<<>>) = (Range(inbox[list]) \ gone) \cup {}
  BY <1>1
<1>7. \A m \in Msgs : fate'[m] = "pending" <=> m \in {} \/ (fate[m] = "pending" /\ m \notin gone)
  BY <1>3
<1>8. gone \in SUBSET Range(inbox[list])
  OBVIOUS
<1>9. InboxConsistent'
  <2> HIDE DEF gone
  <2> QED
    BY <1>5, <1>6, <1>7, <1>8, MoveList
<1>10. Held' = Held
  BY <1>3, <1>4 DEF Held
<1> QED
  BY <1>9, <1>10

\* A call into the agent moves neither the driver nor what it holds.
LEMMA SameClaims ==
    ASSUME ClaimsHeld, UNCHANGED <<pc, turnVars>>, Held' = Held
    PROVE  ClaimsHeld'
BY DEF ClaimsHeld, turnVars

\* A driver that starts holds nothing.
LEMMA StartClaims ==
    ASSUME DriverTrace, ClaimsHeld, UNCHANGED <<turnVars, fate>>,
           \/ UNCHANGED pc
           \/ phase.kind # "running" /\ pc' = "turn"
    PROVE  ClaimsHeld'
<1>1. Held' = Held
  BY DEF Held
<1>2. CASE UNCHANGED pc
  BY <1>1, <1>2, SameClaims
<1>3. CASE phase.kind # "running" /\ pc' = "turn"
  <2>1. pc = "off"
    BY <1>3 DEF DriverTrace
  <2>2. Held = {}
    BY <2>1 DEF ClaimsHeld
  <2> QED
    BY <1>1, <1>3, <2>2 DEF ClaimsHeld
<1> QED
  BY <1>2, <1>3

\* An action that leaves the lists and the fates to others.
LEMMA SameInbox ==
    ASSUME InboxConsistent, UNCHANGED <<inbox, fate>>
    PROVE  InboxConsistent' /\ Held' = Held
BY SameLists DEF Held

LEMMA SendInbox ==
    ASSUME TypeInbox, InboxInv, NEW m \in Msgs, NEW list \in Targets, NEW wakeup \in BOOLEAN,
           Send(m, list, wakeup)
    PROVE  InboxInv'
<1>0. UNCHANGED <<pc, turnVars>>
  BY DEF Send
<1>1. CASE UNCHANGED <<inbox, fate>>
  BY <1>0, <1>1, SameInbox, SameClaims DEF InboxInv
<1>2. CASE ~UNCHANGED <<inbox, fate>>
  <2>1. PICK to \in Targets : /\ inbox' = [inbox EXCEPT ![to] = Append(inbox[to], m)]
                             /\ ~Duplicated([inbox EXCEPT ![to] = Append(inbox[to], m)])
    BY <1>2 DEF Send
  <2>2. /\ fate[m] \in {"unsent", "pending"}
        /\ \A x \in Msgs : fate'[x] = IF x = m THEN "pending" ELSE fate[x]
    BY <1>2 DEF Send, Offered, SetFate
  <2> DEFINE new == Append(inbox[to], m)
  <2>3. inbox[to] \in Seq(Msgs) /\ new \in Seq(Msgs)
    BY DEF TypeInbox
  <2>4. Range(new) = (Range(inbox[to]) \ {}) \cup {m}
    BY <2>3, AppendList
  <2>5. \A x \in Msgs : fate'[x] = "pending" <=> x \in {m} \/ (fate[x] = "pending" /\ x \notin {})
    BY <2>2
  <2>6. {} \in SUBSET Range(inbox[to])
    OBVIOUS
  <2>7. inbox' \in [Targets -> Seq(Msgs)] /\ ~Duplicated(inbox') /\ inbox' = [inbox EXCEPT ![to] = new]
    <3> HIDE DEF new
    <3>1. inbox' = [inbox EXCEPT ![to] = new] /\ ~Duplicated([inbox EXCEPT ![to] = new])
      BY <2>1 DEF new
    <3> QED
      BY <2>3, <3>1 DEF TypeInbox
  <2> HIDE DEF new
  <2>8. InboxConsistent'
    BY <2>4, <2>5, <2>6, <2>7, NoDuplicates, MoveList DEF InboxInv
  <2>9. Held' = Held
    BY <2>2 DEF Held
  <2> QED
    BY <1>0, <2>8, <2>9, SameClaims DEF InboxInv
<1> QED
  BY <1>1, <1>2

LEMMA ClearQueuedInbox ==
    ASSUME TypeInbox, InboxConsistent, NEW cause, NEW rest, ClearQueued(cause, rest)
    PROVE  InboxConsistent' /\ Held' = Held
BY ClearedList, SameInbox DEF ClearQueued, ClearList

LEMMA CancelInbox ==
    ASSUME TypeInbox, InboxInv, NEW cause, NEW keep, CancelWith(cause, keep)
    PROVE  InboxInv'
<1>1. UNCHANGED <<pc, turnVars>> /\ InboxConsistent
  BY DEF CancelWith, InboxInv
<1>2. InboxConsistent' /\ Held' = Held
  <2>1. CASE UNCHANGED <<inbox, fate>>
    BY <1>1, <2>1, SameInbox
  <2>2. CASE ClearList("next-step", "clear", cause, calls)
    BY <1>1, <2>2, ClearedList DEF ClearList
  <2>3. CASE ClearQueued(cause, calls)
    BY <1>1, <2>3, ClearQueuedInbox
  <2> QED
    BY <2>1, <2>2, <2>3 DEF CancelWith
<1> QED
  BY <1>1, <1>2, SameClaims DEF InboxInv

LEMMA SpliceInbox ==
    ASSUME TypeInbox, TypeCalls, InboxInv, NEW list \in Targets, NEW inserted \in Insertions,
           NEW start \in 0 .. Len(inbox[list]), NEW removed \in 0 .. Len(inbox[list]),
           Splice(list, start, removed, inserted)
    PROVE  InboxInv'
<1> DEFINE old == inbox[list]
           new == Spliced(old, inserted, start, removed)
           gone == Stretch(old, start, removed)
<1>0. UNCHANGED <<pc, turnVars>>
  BY DEF Splice
<1>1. CASE UNCHANGED <<inbox, fate>>
  BY <1>0, <1>1, SameInbox, SameClaims DEF InboxInv
<1>2. CASE ~UNCHANGED <<inbox, fate>>
  <2>1. /\ inbox' = [inbox EXCEPT ![list] = new]
        /\ ~Duplicated([inbox EXCEPT ![list] = new])
        /\ start + removed <= Len(old)
        /\ \A m \in Msgs : fate'[m] = IF m \in Range(inserted) THEN "pending"
                                       ELSE IF m \in gone THEN "canceled" ELSE fate[m]
    BY <1>2 DEF Splice, Spliced, Stretch
  <2>2. old \in Seq(Msgs) /\ IsInjective(old) /\ Range(old) \subseteq Pending
    BY TwoLists DEF TypeInbox, InboxInv, InboxConsistent
  <2>3. \A m \in Msgs : fate[m] = "pending" <=> m \in Pending
    BY DEF InboxInv, InboxConsistent
  <2>4. inserted \in Seq(Msgs) /\ \A m \in Range(inserted) : fate[m] \in {"unsent", "pending"}
    <3>1. PICK n \in 0 .. MaxInsert : inserted \in [1 .. n -> Offered]
      BY DEF Insertions
    <3> QED
      BY <3>1, InsertionType DEF Offered, Range
  <2>5. gone \in SUBSET Range(old)
    <3>1. \A i \in start + 1 .. start + removed : i \in DOMAIN old
      BY <2>1, <2>2
    <3> QED
      BY <3>1 DEF Range, Stretch
  <2>6. Range(new) = (Range(old) \ gone) \cup Range(inserted)
    <3>1. start \in Nat /\ removed \in Nat
      BY <2>2
    <3> HIDE DEF old
    <3> QED
      BY <2>1, <2>2, <2>4, <3>1, SpliceList
  <2>7. inbox' \in [Targets -> Seq(Msgs)]
    BY SpliceTypes DEF TypeInbox
  <2> HIDE DEF new, gone
  <2>8. \A m \in Msgs : fate'[m] = "pending" <=>
                            m \in Range(inserted) \/ (fate[m] = "pending" /\ m \notin gone)
    BY <2>1
  <2>9. InboxConsistent'
    BY <2>1, <2>5, <2>6, <2>7, <2>8, NoDuplicates, MoveList DEF InboxInv
  <2>10. Held' = Held
    <3>1. \A m \in Msgs : m \in gone \/ m \in Range(inserted) => fate[m] \in {"pending", "unsent"}
      BY <2>2, <2>3, <2>4, <2>5
    <3> QED
      BY <2>1, <3>1 DEF Held
  <2> QED
    BY <1>0, <2>9, <2>10, SameClaims DEF InboxInv
<1> QED
  BY <1>1, <1>2

LEMMA CallersInbox == TypeInbox /\ TypeCalls /\ InboxInv /\ Callers => InboxInv'
<1> SUFFICES ASSUME TypeInbox, TypeCalls, InboxInv, Callers PROVE InboxInv'
  OBVIOUS
<1>1. \A m \in Msgs, list \in Targets, wakeup \in BOOLEAN : Send(m, list, wakeup) => InboxInv'
  BY SendInbox
<1>2. \A cause, keep : CancelWith(cause, keep) => InboxInv'
  BY CancelInbox
<1>3. CASE EditInbox
  BY <1>3, SpliceInbox DEF EditInbox
<1>4. CASE RunMaintenance
  BY <1>4, SameInbox, SameClaims DEF RunMaintenance, InboxInv
<1> QED
  BY <1>1, <1>2, <1>3, <1>4 DEF Callers, Cancel, BeginDispose

LEMMA ReturnsInbox == TypeInbox /\ DriverTrace /\ InboxInv /\ (Returns \/ EndMaintenance) => InboxInv'
<1> SUFFICES ASSUME TypeInbox, DriverTrace, InboxInv, Returns \/ EndMaintenance PROVE InboxInv'
  OBVIOUS
<1>1. CASE CancelClears
  <2>1. InboxConsistent' /\ Held' = Held
    BY <1>1, ClearQueuedInbox DEF CancelClears, InboxInv
  <2>2. UNCHANGED <<pc, turnVars>>
    BY <1>1 DEF CancelClears
  <2> QED
    BY <2>1, <2>2, SameClaims DEF InboxInv
<1>2. CASE ~CancelClears
  <2>1. UNCHANGED <<inbox, fate, turnVars>>
    BY <1>2 DEF Returns, SendWakes, CancelAborts, Retire, EndMaintenance
  <2>2. UNCHANGED pc \/ (phase.kind # "running" /\ pc' = "turn")
    <3>1. \A late, rest : WakeDriver(late, rest) =>
              UNCHANGED pc \/ (phase.kind # "running" /\ pc' = "turn")
      BY DEF WakeDriver
    <3> QED
      BY <1>2, <3>1 DEF Returns, SendWakes, CancelAborts, Retire, EndMaintenance
  <2> QED
    BY <2>1, <2>2, SameInbox, StartClaims DEF InboxInv
<1> QED
  BY <1>1, <1>2

LEMMA ClaimInbox == TypeTurn /\ TypeInbox /\ InboxInv /\ Claim => InboxInv'
<1> SUFFICES ASSUME TypeTurn, TypeInbox, InboxInv, Claim PROVE InboxInv'
  OBVIOUS
<1>1. CASE Aborted
  <2>1. pc' = "catch" /\ UNCHANGED <<inbox, fate>>
    BY <1>1 DEF Claim, Raise
  <2> QED
    BY <2>1, SameInbox DEF ClaimsHeld, InboxInv
<1>2. CASE ~Aborted
  <2> DEFINE front == inbox["next-turn"]
             taken == IF target = "next-turn" /\ front # <<>> THEN {Head(front)} ELSE {}
  <2>1. /\ pc = "claim" /\ pc' = "preStep" /\ batch' = Claimed /\ inbox' = AfterClaim
        /\ \A m \in Msgs : fate'[m] = IF m \in Claimed THEN "claimed" ELSE fate[m]
    BY <1>2 DEF Claim, SetFate
  <2>2. Claimed = Range(inbox["next-step"]) \cup taken /\ Claimed \subseteq Msgs
    BY ClaimedType DEF Claimed
  <2>3. front \in Seq(Msgs) /\ IsInjective(front) /\ Range(front) \cap Range(inbox["next-step"]) = {}
    BY DEF TypeInbox, InboxInv, InboxConsistent
  <2>4. /\ IsInjective(inbox'["next-turn"])
        /\ Range(inbox'["next-turn"]) = Range(front) \ taken
        /\ taken \subseteq Range(front)
    <3>1. CASE target = "next-turn" /\ front # <<>>
      <4>1. inbox'["next-turn"] = Tail(front) /\ taken = {Head(front)}
        BY <2>1, <3>1 DEF AfterClaim
      <4>2. 1 \in DOMAIN front /\ Head(front) = front[1]
        BY <2>3, <3>1, EmptySeq
      <4>3. Head(front) \in Range(front)
        BY <4>2 DEF Range
      <4> HIDE DEF front, taken
      <4> QED
        BY <2>3, <3>1, <4>1, <4>3, TailList
    <3>2. CASE ~(target = "next-turn" /\ front # <<>>)
      <4>1. inbox'["next-turn"] = front /\ taken = {}
        BY <2>1, <3>2 DEF AfterClaim, TypeTurn
      <4> QED
        BY <2>3, <4>1
    <3> QED
      BY <3>1, <3>2
  <2>5. inbox'["next-step"] = <<>>
    BY <2>1 DEF AfterClaim
  <2>6. Range(<<>>) = {} /\ IsInjective(<<>>)
    BY DEF Range, IsInjective
  <2> HIDE DEF front, taken
  <2>7. Pending' = Pending \ Claimed
    <3>1. Pending = Range(front) \cup Range(inbox["next-step"])
      BY TwoLists DEF front
    <3>2. Pending' = Range(front) \ taken
      BY <2>4, <2>5, <2>6, TwoLists
    <3> QED
      BY <2>2, <2>3, <2>4, <3>1, <3>2
  <2>8. \A m \in Msgs : fate'[m] = "pending" <=> m \in Pending'
    BY <2>1, <2>7 DEF InboxInv, InboxConsistent
  <2>9. InboxConsistent'
    BY <2>4, <2>5, <2>6, <2>8 DEF InboxConsistent
  <2>10. Held = {}
    BY <2>1 DEF InboxInv, ClaimsHeld
  <2>11. Held' = batch'
    BY <2>1, <2>2, <2>10 DEF Held
  <2>12. ClaimsHeld'
    BY <2>1, <2>11 DEF ClaimsHeld
  <2> QED
    BY <2>9, <2>12 DEF InboxInv
<1> QED
  BY <1>1, <1>2

\* The driver's other actions take no message from the lists: what changes its
\* fate was claimed.
LEMMA FromClaims ==
    ASSUME InboxConsistent, inbox' = inbox, NEW S, \A m \in S : fate[m] = "claimed",
           NEW f \in {"dropped", "committed"}, SetFate(S, f)
    PROVE  InboxConsistent' /\ Held' = Held \ S
<1>1. \A m \in Msgs : fate'[m] = IF m \in S THEN f ELSE fate[m]
  BY DEF SetFate
<1>2. InboxConsistent'
  BY <1>1, SameLists
<1>3. Held' = Held \ S
  BY <1>1 DEF Held
<1> QED
  BY <1>2, <1>3

LEMMA PreStepInbox == InboxInv /\ PreStep => InboxInv'
<1> SUFFICES ASSUME InboxInv, PreStep PROVE InboxInv'
  OBVIOUS
<1>1. Held = batch /\ inbox' = inbox
  BY DEF InboxInv, ClaimsHeld, PreStep
<1>2. CASE UNCHANGED <<batch, fate>> /\ (pc' = "catch" \/ (pc' = "decide" /\ decision' = "reject"))
  <2>1. InboxConsistent' /\ Held' = batch'
    BY <1>1, <1>2, SameInbox DEF InboxInv
  <2> QED
    BY <1>2, <2>1 DEF InboxInv, ClaimsHeld
<1>3. ASSUME NEW kept \in SUBSET batch, NEW d \in {"empty", "some"},
             kept # {} => d = "some", batch' = kept, decision' = d,
             SetFate(batch \ kept, "dropped"), pc' = "decide"
      PROVE  InboxInv'
  <2>1. \A m \in batch \ kept : fate[m] = "claimed"
    BY <1>1 DEF Held
  <2>2. InboxConsistent' /\ Held' = Held \ (batch \ kept)
    BY <1>1, <1>3, <2>1, FromClaims DEF InboxInv
  <2>3. Held' \subseteq batch'
    BY <1>1, <1>3, <2>2
  <2> QED
    BY <1>3, <2>2, <2>3 DEF InboxInv, ClaimsHeld
<1> QED
  BY <1>2, <1>3 DEF PreStep, Raise

LEMMA AdmitInbox == InboxInv /\ Admit => InboxInv'
<1> SUFFICES ASSUME InboxInv, Admit PROVE InboxInv'
  OBVIOUS
<1>1. pc = "admit" /\ inbox' = inbox /\ batch' = batch
  BY DEF Admit, stepFrame
<1>2. Held \subseteq batch
  BY <1>1 DEF InboxInv, ClaimsHeld
<1>3. CASE pc' = pc
  <2>1. PICK m \in batch : fate[m] = "claimed" /\ SetFate({m}, "committed")
    BY <1>1, <1>3 DEF Admit, Fail
  <2>2. InboxConsistent' /\ Held' = Held \ {m}
    BY <1>1, <2>1, FromClaims DEF InboxInv
  <2> QED
    BY <1>1, <1>2, <1>3, <2>2 DEF InboxInv, ClaimsHeld
<1>4. CASE pc' # pc
  <2>1. pc' = "stepEnd" /\ raised' /\ fate' = fate
    BY <1>4 DEF Admit, Fail
  <2>2. InboxConsistent' /\ Held' = Held
    BY <1>1, <2>1, SameInbox DEF InboxInv
  <2> QED
    BY <2>1, <2>2 DEF InboxInv, ClaimsHeld
<1> QED
  BY <1>3, <1>4

LEMMA EndTurnInbox == InboxInv /\ EndTurn => InboxInv'
<1> SUFFICES ASSUME InboxInv, EndTurn PROVE InboxInv'
  OBVIOUS
<1>1. pc' \in {"requeue", "exit"} /\ inbox' = inbox /\ SetFate(Held, "dropped")
  BY DEF EndTurn, Held
<1>2. \A m \in Held : fate[m] = "claimed"
  BY DEF Held
<1>3. InboxConsistent' /\ Held' = Held \ Held
  BY <1>1, <1>2, FromClaims DEF InboxInv
<1> QED
  BY <1>1, <1>3 DEF InboxInv, ClaimsHeld

\* The driver actions that move no message.
LEMMA QuietInbox ==
    ASSUME InboxInv, TypeOK,
           \/ OpenTurn \/ Decide \/ Request \/ Build \/ Stream \/ Recover \/ Tools \/ EndStep
           \/ Boundary \/ Stopping \/ Catch \/ Requeue \/ Exit
    PROVE  InboxInv'
<1>0. UNCHANGED <<inbox, fate>>
  BY DEF OpenTurn, Decide, Request, Build, Stream, Recover, Tools, EndStep, Boundary, Stopping,
         Catch, Requeue, Exit, stepFrame
<1>1. InboxConsistent' /\ Held' = Held
  BY <1>0, SameInbox DEF InboxInv
<1>2. ClaimsHeld
  BY DEF InboxInv
<1> SUFFICES ClaimsHeld'
  BY <1>1 DEF InboxInv
<1>3. CASE OpenTurn
  BY <1>1, <1>2, <1>3 DEF OpenTurn, ClaimsHeld
<1>4. CASE Decide
  <2>1. pc = "decide" /\ batch' = batch /\ Held \subseteq batch
    BY <1>2, <1>4 DEF Decide, ClaimsHeld
  <2>2. pc' \in {"request", "catch"} \/ (pc' = "endTurn" /\ (turnEnds' = "blocked" \/ decision = "empty"))
    BY <1>4 DEF Decide, Raise
  <2>3. decision = "empty" => Held = {}
    BY <1>2, <2>1 DEF ClaimsHeld
  <2> QED
    BY <1>1, <2>1, <2>2, <2>3 DEF ClaimsHeld
<1>5. CASE Request
  BY <1>1, <1>2, <1>5 DEF Request, Fail, stepFrame, ClaimsHeld
<1>6. CASE Build
  <2>1. pc = "admit" /\ \A m \in batch : fate[m] # "claimed"
    BY <1>6 DEF Build
  <2>2. Held = {}
    BY <1>2, <2>1 DEF ClaimsHeld, Held
  <2>3. pc' \in {"stepEnd", "stream"}
    BY <1>6 DEF Build, Fail
  <2> QED
    BY <1>1, <2>2, <2>3 DEF ClaimsHeld
<1>7. CASE Stream \/ Recover \/ Tools
  <2>1. Held = {} /\ batch' = batch /\ pc' \in {"stepEnd", "recover", "tools", "request"}
    BY <1>2, <1>7 DEF Stream, Recover, Tools, Fail, stepFrame, ClaimsHeld
  <2> QED
    BY <1>1, <2>1 DEF ClaimsHeld
<1>8. CASE EndStep
  BY <1>1, <1>2, <1>8 DEF EndStep, ClaimsHeld
<1>9. CASE Boundary \/ Stopping
  <2>1. Held = {} /\ pc' \in {"catch", "stopping", "claim", "endTurn"}
    BY <1>2, <1>9 DEF Boundary, Stopping, Raise, NextStep, Break, ClaimsHeld
  <2> QED
    BY <1>1, <2>1 DEF ClaimsHeld
<1>10. CASE Catch
  <2>1. pc' = "endTurn" /\ turnEnds' \in {"aborted", "error"}
    BY <1>10 DEF Catch
  <2> QED
    BY <2>1 DEF ClaimsHeld
<1>11. CASE Requeue \/ Exit
  <2>1. Held = {} /\ pc' \in {"turn", "exit", "off"}
    BY <1>2, <1>11 DEF Requeue, Exit, ClaimsHeld
  <2> QED
    BY <1>1, <2>1 DEF ClaimsHeld
<1> QED
  BY <1>3, <1>4, <1>5, <1>6, <1>7, <1>8, <1>9, <1>10, <1>11

LEMMA NextInbox == TypeOK /\ DriverTrace /\ InboxInv /\ [Next]_vars => InboxInv'
<1> SUFFICES ASSUME TypeOK, DriverTrace, InboxInv, [Next]_vars PROVE InboxInv'
  OBVIOUS
<1>1. TypeTurn /\ TypeInbox /\ TypeCalls
  BY DEF TypeOK
<1>2. CASE FinishDispose \/ UNCHANGED vars
  <2>1. UNCHANGED <<inbox, fate, pc, turnVars>>
    BY <1>2 DEF FinishDispose, vars
  <2> QED
    BY <2>1, SameInbox, SameClaims DEF InboxInv
<1> QED
  BY <1>1, <1>2, CallersInbox, ReturnsInbox, ClaimInbox, PreStepInbox, AdmitInbox, EndTurnInbox,
     QuietInbox DEF Next, Driver

LEMMA InboxInvariant == Spec => []InboxInv
<1>1. TypeOK /\ DriverTrace /\ InboxInv /\ [Next]_vars => InboxInv'
  BY NextInbox
<1> QED
  BY <1>1, InitInbox, TypeCorrect, PTL DEF Spec

\* No message is lost or duplicated: callers may insert identities that are
\* pending already, or the same one several times, and still a pending identity
\* stands in one place of one list, and one that left the lists was claimed or
\* cancelled, through every interleaving of sends, edits and cancels with the
\* driver's claims (inbox.ts:218-225).
THEOREM InboxHolds == Spec => []InboxConsistent
BY InboxInvariant, PTL DEF InboxInv

\* The other actions leave the log alone, and only a live signal starts a request.
LEMMA QuietLog ==
    ASSUME [Next]_vars, ~(OpenTurn \/ Decide \/ EndStep \/ EndTurn)
    PROVE  UNCHANGED trace /\ (pc' = "stream" => pc = "stream" \/ ~Aborted)
<1>1. \A late, rest : WakeDriver(late, rest) => (pc' = "stream" => pc = "stream")
  BY DEF WakeDriver
<1>2. CASE Callers
  BY <1>2 DEF Callers, Send, Cancel, CancelWith, EditInbox, Splice, RunMaintenance, BeginDispose, logVars
<1>3. CASE Returns \/ EndMaintenance \/ FinishDispose
  BY <1>1, <1>3 DEF Returns, SendWakes, CancelClears, CancelAborts, Retire, EndMaintenance, FinishDispose,
     logVars
<1>4. CASE Claim \/ PreStep \/ Boundary \/ Stopping \/ Catch \/ Requeue \/ Exit
  BY <1>4 DEF Claim, PreStep, Boundary, Stopping, Catch, Requeue, Exit, Raise, NextStep, Break, logVars
<1>5. CASE Request \/ Admit \/ Build \/ Stream \/ Recover \/ Tools
  BY <1>5 DEF Request, Admit, Build, Stream, Recover, Tools, Fail, stepFrame, logVars
<1>6. CASE UNCHANGED vars
  BY <1>6 DEF vars, logVars
<1> QED
  BY <1>2, <1>3, <1>4, <1>5, <1>6 DEF Next, Driver

\* Only turn()'s finally closes a turn.
LEMMA ClosesAtEnd == TypeOK /\ DriverTrace /\ [Next]_vars /\ ClosesTurn => EndTurn
<1> SUFFICES ASSUME TypeOK, DriverTrace, [Next]_vars, ~EndTurn PROVE ~ClosesTurn
  OBVIOUS
<1>1. trace \in Traces /\ phase \in Phases
  BY DEF TypeOK, TypePhase
<1>2. CASE OpenTurn
  <2>1. trace' = trace \/ trace' = [trace EXCEPT !.openTurn = phase.turn + 1, !.nextStep = 1]
    BY <1>2 DEF OpenTurn, Logged, logVars
  <2>2. phase.turn + 1 # 0
    BY <1>1 DEF Phases
  <2> QED
    BY <1>1, <2>1, <2>2 DEF ClosesTurn, Traces
<1>3. CASE Decide
  <2>1. trace' = trace \/ trace' = [trace EXCEPT !.openStep = phase.step + 1]
    BY <1>3 DEF Decide, Logged, logVars
  <2> QED
    BY <1>1, <2>1 DEF ClosesTurn, Traces
<1>4. CASE EndStep
  <2>1. trace' = [trace EXCEPT !.openStep = 0, !.nextStep = @ + 1]
    BY <1>4 DEF EndStep, Logged
  <2> QED
    BY <1>1, <2>1 DEF ClosesTurn, Traces
<1>5. CASE ~(OpenTurn \/ Decide \/ EndStep)
  <2>1. UNCHANGED trace
    BY <1>5, QuietLog
  <2> QED
    BY <2>1 DEF ClosesTurn
<1> QED
  BY <1>2, <1>3, <1>4, <1>5

\* A turn that ends as completed or max-tokens has put every message it claimed
\* into the log, unless a hook took it out: wherever a cancel, a rejection or a
\* failure leaves claimed input behind, the turn ends with another reason
\* (agent.ts:270-283, 401-405).
THEOREM ClaimsAccounted == Spec => ClaimAccounted
<1>1. TypeOK /\ DriverTrace /\ InboxInv /\ [Next]_vars
      => [ClosesTurn /\ turnEnds \in StepReasons => \A m \in Msgs : fate[m] # "claimed"]_vars
  <2> SUFFICES ASSUME TypeOK, DriverTrace, InboxInv, [Next]_vars, ClosesTurn, turnEnds \in StepReasons
               PROVE  \A m \in Msgs : fate[m] # "claimed"
    OBVIOUS
  <2>1. pc = "endTurn"
    BY ClosesAtEnd DEF EndTurn
  <2>2. Held = {}
    BY <2>1 DEF InboxInv, ClaimsHeld
  <2> QED
    BY <2>2 DEF Held
<1> QED
  BY <1>1, InboxInvariant, TypeCorrect, PTL DEF Spec, ClaimAccounted

\* After an abort the driver opens no further step and starts no further request,
\* wherever the abort arrived: every await of the driver is followed by a look at
\* the signal before the next boundary (agent.ts:313, 327, 340, 384, 562-627).
THEOREM AbortsStop == Spec => AbortStops
<1>1. TypeOK /\ DriverTrace /\ [Next]_vars
      => [phase.kind = "running" /\ Aborted =>
             trace'.openStep \in {trace.openStep, 0} /\ (pc' = "stream" => pc = "stream")]_vars
  <2> SUFFICES ASSUME TypeOK, DriverTrace, [Next]_vars, Aborted
               PROVE  trace'.openStep \in {trace.openStep, 0} /\ (pc' = "stream" => pc = "stream")
    OBVIOUS
  <2>1. trace \in Traces
    BY DEF TypeOK, TypePhase
  <2>2. CASE EndStep
    <3>1. trace' = [trace EXCEPT !.openStep = 0, !.nextStep = @ + 1] /\ pc' # "stream"
      BY <2>2 DEF EndStep, Logged
    <3> QED
      BY <2>1, <3>1 DEF Traces
  <2>3. CASE EndTurn
    <3>1. trace' = [trace EXCEPT !.openTurn = 0, !.nextTurn = @ + 1] /\ pc' # "stream"
      BY <2>3 DEF EndTurn, Logged
    <3> QED
      BY <2>1, <3>1 DEF Traces
  <2>4. CASE OpenTurn \/ Decide
    BY <2>4 DEF OpenTurn, Decide, Raise, logVars
  <2>5. CASE ~(OpenTurn \/ Decide \/ EndStep \/ EndTurn)
    BY <2>5, QuietLog
  <2> QED
    BY <2>2, <2>3, <2>4, <2>5
<1> QED
  BY <1>1, TypeCorrect, PTL DEF Spec, AbortStops
==============================================================================
