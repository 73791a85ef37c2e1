--------------------------- MODULE ToolCallsProofs ---------------------------
(***************************************************************************)
(* Theorems about ToolCalls, for every number of calls and every limit.    *)
(***************************************************************************)
EXTENDS ToolCalls, FiniteSetTheorems, TLAPS

USE StepAssumption, LimitAssumption
USE DEF Calls, Modes, Outcomes, Positions

IInv == TypeOK /\ Counted /\ Grouped /\ Awaited

\* What a step keeps, and what it does to the log.
Keeps == IInv' /\ [Log!Next]_(Log!vars)

LEMMA SlotType ==
    /\ NoSlot \in Slots
    /\ \A outcome \in Outcomes, post \in BOOLEAN : Slot(outcome, post) \in Slots /\ Slot(outcome, post) # NoSlot
BY DEF NoSlot, Slot, Slots

LEMMA SupersededType ==
    ASSUME NEW c, NEW outcome \in Outcomes
    PROVE  Superseded(c, outcome) \in Outcomes
BY DEF Superseded

LEMMA InitKeeps == Init => IInv /\ Log!Init
<1> SUFFICES ASSUME Init PROVE IInv /\ Log!Init
  OBVIOUS
<1> USE DEF Init, Log!Init, Log!Entry
<1>1. TypeScheduler
  <2>1. 0 \in 0 .. N
    OBVIOUS
  <2> QED
    BY <2>1 DEF TypeScheduler
<1>2. TypeDispatched
  BY SlotType DEF TypeDispatched
<1>3. TypeLog
  BY DEF TypeLog
<1>4. Counted
  BY DEF Counted
<1>5. Grouped /\ Awaited
  BY DEF Grouped, Awaited
<1> QED
  BY <1>1, <1>2, <1>3, <1>4, <1>5 DEF IInv, TypeOK

LEMMA SameLog == UNCHANGED logVars => [Log!Next]_(Log!vars)
BY DEF logVars, Log!vars

-------------------------------------------------------------------------------
(* Steps that leave the log alone *)

LEMMA OthersKeep ==
    ASSUME IInv, Abort \/ Reclassify
    PROVE  Keeps
<1> USE DEF IInv, TypeOK, groupVars, bodyVars, logVars, OthersRun, Finished
<1>1. CASE Abort
  <2>1. TypeScheduler' /\ TypeLog'
    BY <1>1 DEF Abort, TypeScheduler, TypeLog
  <2>2. TypeDispatched'
    BY <1>1 DEF Abort, TypeDispatched, TypeScheduler
  <2>3. Counted'
    BY <1>1 DEF Abort, Counted, TypeScheduler, TypeDispatched, TypeLog
  <2>4. Grouped'
    BY <1>1 DEF Abort, Grouped, Counted, TypeScheduler, TypeDispatched
  <2>5. Awaited'
    BY <1>1 DEF Abort, Awaited, Counted, TypeScheduler, TypeDispatched
  <2> QED
    BY <1>1, <2>1, <2>2, <2>3, <2>4, <2>5, SameLog DEF Abort, Keeps
<1>2. CASE Reclassify
  <2>1. TypeScheduler' /\ TypeLog'
    BY <1>2 DEF Reclassify, TypeScheduler, TypeLog
  <2>2. TypeDispatched'
    BY <1>2 DEF Reclassify, TypeDispatched, TypeScheduler
  <2>3. Counted'
    BY <1>2 DEF Reclassify, Counted, TypeScheduler, TypeDispatched, TypeLog
  <2>4. Grouped'
    BY <1>2 DEF Reclassify, Grouped, Counted, TypeScheduler, TypeDispatched
  <2>5. Awaited'
    BY <1>2 DEF Reclassify, Awaited, Counted, TypeScheduler, TypeDispatched
  <2> QED
    BY <1>2, <2>1, <2>2, <2>3, <2>4, <2>5, SameLog DEF Reclassify, Keeps
<1> QED
  BY <1>1, <1>2

LEMMA GroupsKeep ==
    ASSUME IInv, FormGroup \/ Return \/ StopFilling \/ EndGroup \/ EndSkipping \/ Drain
    PROVE  Keeps
<1> USE DEF IInv, TypeOK, frame, groupVars, bodyVars, logVars
<1>1. CASE FormGroup
  <2>1. TypeScheduler' /\ TypeLog'
    BY <1>1 DEF FormGroup, TypeScheduler, TypeLog
  <2>2. TypeDispatched'
    BY <1>1 DEF FormGroup, TypeDispatched, TypeScheduler
  <2>3. Counted'
    BY <1>1 DEF FormGroup, Counted, TypeScheduler, TypeDispatched, TypeLog
  <2>4. Grouped'
    BY <1>1 DEF FormGroup, Grouped, Counted, TypeScheduler, TypeDispatched
  <2>5. Awaited'
    BY <1>1 DEF FormGroup, Awaited, Counted, TypeScheduler, TypeDispatched
  <2> QED
    BY <1>1, <2>1, <2>2, <2>3, <2>4, <2>5, SameLog DEF FormGroup, Keeps
<1>2. CASE Return
  <2>1. TypeScheduler' /\ TypeLog'
    BY <1>2 DEF Return, TypeScheduler, TypeLog
  <2>2. TypeDispatched'
    BY <1>2 DEF Return, TypeDispatched, TypeScheduler
  <2>3. Counted'
    BY <1>2 DEF Return, Counted, TypeScheduler, TypeDispatched, TypeLog
  <2>4. Grouped'
    BY <1>2 DEF Return, Grouped, Counted, TypeScheduler, TypeDispatched
  <2>5. Awaited'
    BY <1>2 DEF Return, Awaited, Counted, TypeScheduler, TypeDispatched
  <2> QED
    BY <1>2, <2>1, <2>2, <2>3, <2>4, <2>5, SameLog DEF Return, Keeps
<1>3. CASE StopFilling
  <2>1. TypeScheduler' /\ TypeLog'
    BY <1>3 DEF StopFilling, TypeScheduler, TypeLog
  <2>2. TypeDispatched'
    BY <1>3 DEF StopFilling, TypeDispatched, TypeScheduler
  <2>3. Counted'
    BY <1>3 DEF StopFilling, Counted, TypeScheduler, TypeDispatched, TypeLog
  <2>4. Grouped'
    BY <1>3 DEF StopFilling, Grouped, Counted, TypeScheduler, TypeDispatched
  <2>5. Awaited'
    BY <1>3 DEF StopFilling, Awaited, Counted, TypeScheduler, TypeDispatched
  <2> QED
    BY <1>3, <2>1, <2>2, <2>3, <2>4, <2>5, SameLog DEF StopFilling, Keeps
<1>4. CASE EndGroup
  <2>1. TypeScheduler' /\ TypeLog'
    BY <1>4 DEF EndGroup, TypeScheduler, TypeLog
  <2>2. TypeDispatched'
    BY <1>4 DEF EndGroup, TypeDispatched, TypeScheduler
  <2>3. Counted'
    BY <1>4 DEF EndGroup, Counted, TypeScheduler, TypeDispatched, TypeLog, Awaited
  <2>4. Grouped'
    BY <1>4 DEF EndGroup, Grouped, Counted, TypeScheduler, TypeDispatched
  <2>5. Awaited'
    BY <1>4 DEF EndGroup, Awaited, Counted, TypeScheduler, TypeDispatched
  <2> QED
    BY <1>4, <2>1, <2>2, <2>3, <2>4, <2>5, SameLog DEF EndGroup, Keeps
<1>5. CASE EndSkipping
  <2>1. TypeScheduler' /\ TypeLog'
    BY <1>5 DEF EndSkipping, TypeScheduler, TypeLog
  <2>2. TypeDispatched'
    BY <1>5 DEF EndSkipping, TypeDispatched, TypeScheduler
  <2>3. Counted'
    BY <1>5 DEF EndSkipping, Counted, TypeScheduler, TypeDispatched, TypeLog
  <2>4. Grouped'
    BY <1>5 DEF EndSkipping, Grouped, Counted, TypeScheduler, TypeDispatched
  <2>5. Awaited'
    BY <1>5 DEF EndSkipping, Awaited, Counted, TypeScheduler, TypeDispatched
  <2> QED
    BY <1>5, <2>1, <2>2, <2>3, <2>4, <2>5, SameLog DEF EndSkipping, Keeps
<1>6. CASE Drain
  <2>1. TypeScheduler' /\ TypeLog'
    BY <1>6 DEF Drain, TypeScheduler, TypeLog
  <2>2. TypeDispatched'
    BY <1>6 DEF Drain, TypeDispatched, TypeScheduler
  <2>3. Counted'
    BY <1>6 DEF Drain, Counted, TypeScheduler, TypeDispatched, TypeLog
  <2>4. Grouped'
    BY <1>6 DEF Drain, Grouped, Counted, TypeScheduler, TypeDispatched
  <2>5. Awaited'
    BY <1>6 DEF Drain, Awaited, Counted, TypeScheduler, TypeDispatched
  <2> QED
    BY <1>6, <2>1, <2>2, <2>3, <2>4, <2>5, SameLog DEF Drain, Keeps
<1> QED
  BY <1>1, <1>2, <1>3, <1>4, <1>5, <1>6

LEMMA CallsKeep ==
    ASSUME IInv, Prepare \/ TakePrepared \/ Dispatch \/ Finalize \/ Refill \/ TakeSettled
    PROVE  Keeps
<1> USE DEF IInv, TypeOK, frame, groupVars, bodyVars, logVars, Throw, Ready, Settled
<1>1. CASE Prepare
  <2>1. TypeScheduler' /\ TypeLog'
    BY <1>1 DEF Prepare, TypeScheduler, TypeLog
  <2>2. TypeDispatched'
    BY <1>1, SlotType DEF Prepare, TypeDispatched, TypeScheduler
  <2>3. Counted'
    BY <1>1 DEF Prepare, Counted, TypeScheduler, TypeDispatched, TypeLog
  <2>4. Grouped'
    BY <1>1 DEF Prepare, Grouped, Counted, TypeScheduler, TypeDispatched
  <2>5. Awaited'
    BY <1>1, SlotType DEF Prepare, Awaited, Counted, TypeScheduler, TypeDispatched
  <2> QED
    BY <1>1, <2>1, <2>2, <2>3, <2>4, <2>5, SameLog DEF Prepare, Keeps
<1>2. CASE TakePrepared
  <2>1. TypeScheduler' /\ TypeLog'
    BY <1>2 DEF TakePrepared, TypeScheduler, TypeLog
  <2>2. TypeDispatched'
    BY <1>2 DEF TakePrepared, TypeDispatched, TypeScheduler
  <2>3. Counted'
    BY <1>2 DEF TakePrepared, Counted, TypeScheduler, TypeDispatched, TypeLog
  <2>4. Grouped'
    BY <1>2 DEF TakePrepared, Grouped, Counted, TypeScheduler, TypeDispatched
  <2>5. Awaited'
    BY <1>2 DEF TakePrepared, Awaited, Counted, TypeScheduler, TypeDispatched
  <2> QED
    BY <1>2, <2>1, <2>2, <2>3, <2>4, <2>5, SameLog DEF TakePrepared, Keeps
<1>3. CASE Dispatch
  <2>1. started \in Calls /\ base < started
    BY <1>3 DEF Dispatch, TypeScheduler, Counted
  <2>2. inFlight' \subseteq Calls
    <3>1. inFlight' = inFlight \/ inFlight' = inFlight \cup {started}
      BY <1>3 DEF Dispatch
    <3> QED
      BY <2>1, <3>1 DEF TypeScheduler
  <2>3. TypeScheduler' /\ TypeLog'
    BY <1>3, <2>2 DEF Dispatch, TypeScheduler, TypeLog
  <2>4. TypeDispatched'
    BY <1>3 DEF Dispatch, TypeDispatched, TypeScheduler
  <2>5. Counted'
    BY <1>3 DEF Dispatch, Counted, TypeScheduler, TypeDispatched, TypeLog
  <2>6. Grouped'
    <3>1. /\ UNCHANGED <<mode, pool, base, end, started, startedAs>> /\ pc = "dispatch"
          /\ inFlight' = inFlight \/ inFlight' = inFlight \cup {started}
          /\ pc' \in {"drain", "commit"}
      BY <1>3 DEF Dispatch
    <3>2. startedAs[started] = pool
      BY <3>1 DEF Grouped
    <3>3. \A c \in inFlight' : base < c /\ c <= started /\ startedAs[c] = pool
      <4>1. \A c \in inFlight : base < c /\ c <= started /\ startedAs[c] = pool
        BY DEF Grouped
      <4>2. base < started /\ started <= started
        BY <2>1
      <4> QED
        BY <3>1, <3>2, <4>1, <4>2
    <3> QED
      BY <3>1, <3>3 DEF Grouped
  <2>7. Awaited'
    BY <1>3 DEF Dispatch, Awaited, Counted, TypeScheduler, TypeDispatched
  <2> QED
    BY <1>3, <2>3, <2>4, <2>5, <2>6, <2>7, SameLog DEF Dispatch, Keeps
<1>4. CASE Finalize
  <2> DEFINE c == committed + 1
  <2>1. c \in Calls
    BY <1>4 DEF Finalize, TypeScheduler
  <2>2. slot[c] \in [outcome : Outcomes, post : BOOLEAN]
    BY <1>4, <2>1 DEF Finalize, TypeDispatched, Slots
  <2>3. PICK outcome \in Outcomes : slot' = [slot EXCEPT ![c] = Slot(Superseded(c, outcome), FALSE)]
    BY <1>4, <2>2 DEF Finalize
  <2> DEFINE new == Slot(Superseded(c, outcome), FALSE)
  <2>4. new \in Slots /\ new # NoSlot
    <3>1. Superseded(c, outcome) \in Outcomes
      BY SupersededType
    <3> QED
      BY <3>1, SlotType
  <2>5. /\ slot' = [slot EXCEPT ![c] = new] /\ slot[c] # NoSlot
        /\ UNCHANGED <<frame, pc, aborted, started, committed, failure, inFlight, startedAs, logVars>>
    BY <1>4, <2>3 DEF Finalize
  <2> HIDE DEF new, c
  <2>6. TypeScheduler' /\ TypeLog' /\ TypeDispatched'
    BY <2>4, <2>5 DEF TypeScheduler, TypeLog, TypeDispatched
  <2>7. \A d \in Calls : slot'[d] # NoSlot <=> slot[d] # NoSlot
    BY <2>1, <2>4, <2>5 DEF TypeDispatched
  <2>8. Counted'
    BY <2>5, <2>7 DEF Counted
  <2>9. Grouped'
    BY <2>5 DEF Grouped
  <2>10. Awaited'
    <3>1. \A d \in committed + 1 .. started : d \in Calls
      BY DEF TypeScheduler
    <3> QED
      BY <2>5, <2>7, <3>1 DEF Awaited
  <2> QED
    BY <2>5, <2>6, <2>8, <2>9, <2>10, SameLog DEF Keeps
<1>5. CASE Refill
  <2>1. TypeScheduler' /\ TypeLog'
    BY <1>5 DEF Refill, TypeScheduler, TypeLog
  <2>2. TypeDispatched'
    BY <1>5 DEF Refill, TypeDispatched, TypeScheduler
  <2>3. Counted'
    BY <1>5 DEF Refill, Counted, TypeScheduler, TypeDispatched, TypeLog
  <2>4. Grouped'
    BY <1>5 DEF Refill, Grouped, Counted, TypeScheduler, TypeDispatched
  <2>5. Awaited'
    BY <1>5 DEF Refill, Awaited, Counted, TypeScheduler, TypeDispatched
  <2> QED
    BY <1>5, <2>1, <2>2, <2>3, <2>4, <2>5, SameLog DEF Refill, Keeps
<1>6. CASE TakeSettled
  <2>1. TypeScheduler' /\ TypeLog'
    BY <1>6 DEF TakeSettled, TypeScheduler, TypeLog
  <2>2. TypeDispatched'
    BY <1>6 DEF TakeSettled, TypeDispatched, TypeScheduler
  <2>3. Counted'
    BY <1>6 DEF TakeSettled, Counted, TypeScheduler, TypeDispatched, TypeLog, Grouped
  <2>4. Grouped'
    BY <1>6 DEF TakeSettled, Grouped, Counted, TypeScheduler, TypeDispatched
  <2>5. Awaited'
    BY <1>6 DEF TakeSettled, Awaited, Counted, TypeScheduler, TypeDispatched
  <2> QED
    BY <1>6, <2>1, <2>2, <2>3, <2>4, <2>5, SameLog DEF TakeSettled, Keeps
<1> QED
  BY <1>1, <1>2, <1>3, <1>4, <1>5, <1>6

LEMMA DispatchedKeep ==
    ASSUME IInv, NEW c \in Calls,
           InvokeBody(c) \/ BodySettles(c) \/ DispatchSettles(c) \/ DispatchRejects(c)
    PROVE  Keeps
<1> USE DEF IInv, TypeOK, callFrame, groupVars, logVars
<1>1. /\ UNCHANGED <<mode, signal, pc, base, end, pool, aborted, started, committed, inFlight,
                     startedAs, called, answered, entry>>
  BY DEF InvokeBody, BodySettles, DispatchSettles, DispatchRejects
<1>0. (failure' = failure \/ failure' = TRUE) /\ failure' \in BOOLEAN
  BY DEF InvokeBody, BodySettles, DispatchSettles, DispatchRejects, TypeScheduler
<1>2. stage[c] \in {"wrapper", "body"} /\ c <= started
  <2>1. stage[c] \in {"wrapper", "body"}
    BY DEF InvokeBody, BodySettles, DispatchSettles, DispatchRejects
  <2> QED
    BY <2>1 DEF Counted
<1>3. /\ \A d \in Calls \ {c} : stage'[d] = stage[d] /\ slot'[d] = slot[d]
      /\ slot[c] # NoSlot => slot'[c] # NoSlot
      /\ stage'[c] = "rejected" => failure'
      /\ stage'[c] = "settled" => slot'[c] # NoSlot
  <2>1. CASE InvokeBody(c) \/ BodySettles(c) \/ DispatchRejects(c)
    BY <1>2, <2>1 DEF InvokeBody, BodySettles, DispatchRejects, TypeDispatched
  <2>2. CASE DispatchSettles(c)
    <3>1. PICK outcome \in Outcomes, post \in BOOLEAN :
                slot' = [slot EXCEPT ![c] = Slot(Superseded(c, outcome), post)]
      BY <2>2 DEF DispatchSettles, TypeDispatched
    <3>2. Slot(Superseded(c, outcome), post) # NoSlot
      <4>1. Superseded(c, outcome) \in Outcomes
        BY SupersededType
      <4> QED
        BY <4>1, SlotType
    <3> QED
      BY <2>2, <3>1, <3>2 DEF DispatchSettles, TypeDispatched
  <2> QED
    BY <2>1, <2>2
<1>4. TypeScheduler' /\ TypeLog'
  BY <1>0, <1>1 DEF TypeScheduler, TypeLog
<1>5. TypeDispatched'
  <2>1. CASE InvokeBody(c)
    BY <2>1 DEF InvokeBody, TypeDispatched
  <2>0. Returned(c) => attempt' \in [Calls -> Outcomes \cup {"none"}]
    BY DEF Returned, TypeDispatched
  <2>2. CASE BodySettles(c) \/ DispatchRejects(c)
    BY <2>0, <2>2 DEF BodySettles, DispatchRejects, TypeDispatched
  <2>3. CASE DispatchSettles(c)
    <3>1. PICK outcome \in Outcomes, post \in BOOLEAN :
                slot' = [slot EXCEPT ![c] = Slot(Superseded(c, outcome), post)]
      BY <2>3 DEF DispatchSettles, TypeDispatched
    <3>2. Slot(Superseded(c, outcome), post) \in Slots
      <4>1. Superseded(c, outcome) \in Outcomes
        BY SupersededType
      <4> QED
        BY <4>1, SlotType
    <3> QED
      BY <2>0, <2>3, <3>1, <3>2 DEF DispatchSettles, TypeDispatched
  <2> QED
    BY <2>1, <2>2, <2>3
<1>6. Counted'
  BY <1>1, <1>2, <1>3 DEF Counted
<1>7. Grouped'
  BY <1>0, <1>1 DEF Grouped
<1>8. Awaited'
  <2>1. \A d \in Calls : (stage'[d] = "rejected" => failure') /\ (stage'[d] = "settled" => slot'[d] # NoSlot)
    <3>1. \A d \in Calls : (stage[d] = "rejected" => failure) /\ (stage[d] = "settled" => slot[d] # NoSlot)
      BY DEF Awaited
    <3>2. \A d \in Calls \ {c} : stage'[d] = stage[d] /\ slot'[d] = slot[d]
      BY <1>3
    <3>3. \A d \in Calls : stage'[d] = "rejected" => failure'
      BY <1>0, <1>3, <3>1, <3>2
    <3>4. \A d \in Calls : stage'[d] = "settled" => slot'[d] # NoSlot
      BY <1>3, <3>1, <3>2
    <3> QED
      BY <3>3, <3>4
  <2>2. \A d \in Calls : slot[d] # NoSlot => slot'[d] # NoSlot
    BY <1>3
  <2>3. \A d \in committed + 1 .. started : d \in Calls
    BY DEF TypeScheduler
  <2> QED
    BY <1>0, <1>1, <2>1, <2>2, <2>3 DEF Awaited
<1> QED
  BY <1>1, <1>4, <1>5, <1>6, <1>7, <1>8, SameLog DEF Keeps

-------------------------------------------------------------------------------
(* Steps that append *)

LEMMA StartKeeps ==
    ASSUME IInv, StartCall
    PROVE  Keeps
<1> USE DEF IInv, TypeOK, frame, groupVars, bodyVars, logVars
<1>1. /\ pc = "fill" /\ started < end /\ started + 1 \in Calls /\ base <= started
      /\ called = started /\ answered = committed
      /\ pool = "parallel" /\ started > base => mode[started + 1] = pool
  BY DEF StartCall, MayStart, Counted, TypeScheduler
<1>2. mode[started + 1] = pool
  <2>1. CASE started = base
    BY <1>1, <2>1 DEF Grouped, TypeScheduler
  <2>2. CASE started > base /\ pool = "exclusive"
    BY <1>1, <2>2 DEF Grouped, TypeScheduler
  <2> QED
    BY <1>1, <2>1, <2>2 DEF TypeScheduler
<1>3. CASE Throw /\ UNCHANGED <<started, startedAs, logVars>>
  <2>1. pc' = "drain" /\ failure'
        /\ UNCHANGED <<mode, signal, base, end, pool, stage, slot, attempt, ran, aborted,
                       started, startedAs, committed, inFlight, called, answered, entry>>
    BY <1>3 DEF StartCall, Throw
  <2>2. TypeOK'
    BY <1>3, <2>1 DEF Throw, TypeScheduler, TypeDispatched, TypeLog
  <2>3. Counted' /\ Grouped' /\ Awaited'
    BY <1>1, <2>1 DEF Counted, Grouped, Awaited
  <2> QED
    BY <2>1, <2>2, <2>3, SameLog DEF Keeps
<1>4. CASE AppendCall(started + 1) /\ started' = started + 1 /\ pc' = "prepare" /\ failure' = failure
           /\ startedAs' = [startedAs EXCEPT ![started + 1] = mode[started + 1]]
  <2>1. /\ UNCHANGED <<mode, signal, base, end, pool, stage, slot, attempt, ran, aborted,
                       committed, inFlight, failure, answered>>
        /\ called' = called + 1 /\ entry' = [type |-> "tool/call", call |-> started + 1]
    BY <1>4 DEF StartCall, AppendCall, Log!Entry
  <2>2. TypeScheduler' /\ TypeDispatched'
    BY <1>1, <1>4, <2>1 DEF TypeScheduler, TypeDispatched
  <2>3. TypeLog'
    BY <1>1, <2>1 DEF TypeLog
  <2>4. started + 1 \notin inFlight
    BY DEF Grouped, TypeScheduler
  <2>5. Counted'
    BY <1>1, <1>4, <2>1 DEF Counted, TypeScheduler
  <2>6. Grouped'
    BY <1>1, <1>2, <1>4, <2>1, <2>4 DEF Grouped, TypeScheduler
  <2>7. Awaited'
    BY <1>1, <1>4, <2>1, <2>4 DEF Awaited, TypeScheduler
  <2>8. Log!Call
    BY <1>1, <2>1 DEF Log!Call, Log!Entry, TypeScheduler
  <2> QED
    BY <2>2, <2>3, <2>5, <2>6, <2>7, <2>8 DEF Keeps, Log!Next
<1> QED
  BY <1>3, <1>4 DEF StartCall

LEMMA CommitKeeps ==
    ASSUME IInv, Commit
    PROVE  Keeps
<1> USE DEF IInv, TypeOK, frame, groupVars, bodyVars, logVars
<1>1. /\ pc = "commit" /\ committed < end /\ committed + 1 \in Calls /\ slot[committed + 1] # NoSlot
      /\ called = started /\ answered = committed
  BY DEF Commit, Ready, Counted, TypeScheduler
<1>2. committed + 1 <= started
  BY <1>1 DEF Counted
<1>3. CASE Throw /\ UNCHANGED <<committed, logVars>>
  <2>1. pc' = "drain" /\ failure'
        /\ UNCHANGED <<mode, signal, base, end, pool, stage, slot, attempt, ran, aborted,
                       started, startedAs, committed, inFlight, called, answered, entry>>
    BY <1>3 DEF Commit, Throw
  <2>2. TypeOK'
    BY <1>3, <2>1 DEF Throw, TypeScheduler, TypeDispatched, TypeLog
  <2>3. Counted' /\ Grouped' /\ Awaited'
    BY <1>1, <2>1 DEF Counted, Grouped, Awaited
  <2> QED
    BY <2>1, <2>2, <2>3, SameLog DEF Keeps
<1>4. CASE AppendResult(committed + 1) /\ committed' = committed + 1 /\ UNCHANGED <<pc, failure>>
  <2>1. /\ UNCHANGED <<mode, signal, pc, base, end, pool, stage, slot, attempt, ran, aborted,
                       started, startedAs, inFlight, failure, called>>
        /\ answered' = answered + 1 /\ entry' = [type |-> "tool/result", call |-> committed + 1]
    BY <1>4 DEF Commit, AppendResult, Log!Entry
  <2>2. TypeScheduler' /\ TypeDispatched'
    BY <1>1, <1>4, <2>1 DEF TypeScheduler, TypeDispatched
  <2>3. TypeLog'
    BY <1>1, <2>1 DEF TypeLog
  <2>4. Counted'
    BY <1>1, <1>2, <1>4, <2>1 DEF Counted, TypeScheduler
  <2>5. Grouped' /\ Awaited'
    BY <1>1, <1>4, <2>1 DEF Grouped, Awaited, TypeScheduler
  <2>6. Log!Result
    BY <1>1, <1>2, <2>1 DEF Log!Result, Log!Entry, TypeScheduler
  <2> QED
    BY <2>2, <2>3, <2>4, <2>5, <2>6 DEF Keeps, Log!Next
<1> QED
  BY <1>3, <1>4 DEF Commit

LEMMA SkipKeeps ==
    ASSUME IInv, Skip \/ AnswerSkipped
    PROVE  Keeps
<1> USE DEF IInv, TypeOK, frame, groupVars, bodyVars, logVars
<1>1. /\ pc = "skip" /\ pc' \in {"skip", "threw"}
      /\ UNCHANGED <<mode, signal, base, end, pool, stage, slot, attempt, ran, aborted,
                     started, startedAs, committed, inFlight, failure>>
  BY DEF Skip, AnswerSkipped
<1>2. \/ UNCHANGED logVars /\ pc' = "threw"
      \/ Skip /\ pc' = "skip" /\ called < N /\ answered = called /\ AppendCall(called + 1)
      \/ AnswerSkipped /\ pc' = "skip" /\ answered < called /\ answered + 1 = called /\ AppendResult(called)
  BY <1>1 DEF Skip, AnswerSkipped, Counted, TypeLog
<1>3. TypeScheduler' /\ TypeDispatched' /\ Grouped' /\ Awaited'
  BY <1>1 DEF TypeScheduler, TypeDispatched, Grouped, Awaited
<1>4. TypeLog' /\ [Log!Next]_(Log!vars) /\ (pc' = "skip" => answered' \in {called' - 1, called'})
  BY <1>2 DEF AppendCall, AppendResult, TypeLog, Log!Next, Log!Call, Log!Result, Log!Entry, Log!vars
<1>5. Counted'
  BY <1>1, <1>4 DEF Counted
<1> QED
  BY <1>3, <1>4, <1>5 DEF Keeps

LEMMA NextKeeps == IInv /\ [Next]_vars => Keeps
<1> SUFFICES ASSUME IInv, [Next]_vars PROVE Keeps
  OBVIOUS
<1>1. CASE UNCHANGED vars
  <2>1. TypeOK'
    BY <1>1 DEF IInv, vars, TypeOK, TypeScheduler, TypeDispatched, TypeLog, groupVars, bodyVars, logVars
  <2>2. Counted' /\ Grouped' /\ Awaited'
    BY <1>1 DEF IInv, vars, Counted, Grouped, Awaited, groupVars, bodyVars, logVars
  <2> QED
    BY <1>1, <2>1, <2>2, SameLog DEF IInv, Keeps, vars
<1> QED
  BY <1>1, OthersKeep, GroupsKeep, CallsKeep, DispatchedKeep, StartKeeps, CommitKeeps, SkipKeeps
  DEF Next, Scheduler, Dispatched

-------------------------------------------------------------------------------
(* The pool and the failure *)

LEMMA FiniteFlight == IInv => IsFiniteSet(inFlight) /\ Cardinality(inFlight) \in Nat
<1> SUFFICES ASSUME IInv PROVE IsFiniteSet(inFlight) /\ Cardinality(inFlight) \in Nat
  OBVIOUS
<1>1. inFlight \subseteq 1 .. N
  BY DEF IInv, TypeOK, TypeScheduler
<1>2. IsFiniteSet(1 .. N)
  BY FS_Interval
<1>3. IsFiniteSet(inFlight)
  BY <1>1, <1>2, FS_Subset
<1> QED
  BY <1>3, FS_CardinalityType

LEMMA PooledKept == IInv /\ Pooled /\ [Next]_vars => Pooled'
<1> SUFFICES ASSUME IInv, Pooled, [Next]_vars PROVE Pooled'
  OBVIOUS
<1> USE DEF Pooled, Running, frame, groupVars, bodyVars, logVars, Throw, Ready
<1>0. stage \in [Calls -> {"none", "wrapper", "body", "settled", "rejected"}]
  BY DEF IInv, TypeOK, TypeDispatched
<1>1. CASE Abort \/ Reclassify \/ UNCHANGED vars
  BY <1>1 DEF Abort, Reclassify, vars
<1>2. CASE FormGroup \/ Return \/ StopFilling \/ EndGroup \/ EndSkipping
  BY <1>2 DEF FormGroup, Return, StopFilling, EndGroup, EndSkipping
<1>3. CASE Drain
  BY <1>3 DEF Drain, Settled
<1>4. CASE Prepare \/ TakePrepared \/ Finalize \/ Refill \/ StartCall \/ Commit
  BY <1>4 DEF Prepare, TakePrepared, Finalize, Refill, StartCall, Commit
<1>5. CASE Dispatch
  BY <1>0, <1>5 DEF Dispatch
<1>6. CASE TakeSettled
  BY <1>6 DEF TakeSettled, Settled
<1>7. CASE Skip \/ AnswerSkipped
  BY <1>7 DEF Skip, AnswerSkipped
<1>8. ASSUME NEW c \in Calls,
             InvokeBody(c) \/ BodySettles(c) \/ DispatchSettles(c) \/ DispatchRejects(c)
      PROVE  Pooled'
  <2>1. /\ c \in Running /\ UNCHANGED <<pc, inFlight>>
        /\ \A d \in Calls \ {c} : stage'[d] = stage[d]
    BY <1>0, <1>8 DEF InvokeBody, BodySettles, DispatchSettles, DispatchRejects, callFrame
  <2> QED
    BY <2>1
<1> QED
  BY <1>1, <1>2, <1>3, <1>4, <1>5, <1>6, <1>7, <1>8 DEF Next, Scheduler, Dispatched

LEMMA BoundedKept == IInv /\ Bounded /\ [Next]_vars => Bounded'
<1> SUFFICES ASSUME IInv, Bounded, [Next]_vars PROVE Bounded'
  OBVIOUS
<1> USE DEF frame, groupVars, bodyVars, logVars, Throw, Ready
<1>0. IsFiniteSet(inFlight) /\ Cardinality(inFlight) \in Nat
  BY FiniteFlight
<1>1. CASE UNCHANGED <<inFlight, pc>>
  BY <1>1 DEF Bounded
<1>2. CASE inFlight' = inFlight /\ pc' \notin {"prepare", "prepared", "dispatch"}
  BY <1>2 DEF Bounded
<1>3. CASE StartCall
  BY <1>3 DEF StartCall, MayStart, Bounded
<1>4. CASE Prepare
  BY <1>4 DEF Prepare, Bounded
<1>5. CASE Dispatch /\ ~failure
  <2>1. /\ inFlight' = inFlight \cup {started} /\ pc' = "commit"
        /\ Cardinality(inFlight) < Limit
    BY <1>5 DEF Dispatch, Bounded
  <2>2. Cardinality(inFlight') <= Cardinality(inFlight) + 1
    BY <1>0, <2>1, FS_AddElement
  <2>3. Cardinality(inFlight') \in Nat
    BY <1>0, <2>1, FS_AddElement, FS_CardinalityType
  <2> QED
    BY <1>0, <2>1, <2>2, <2>3 DEF Bounded
<1>6. CASE TakeSettled
  <2>1. PICK c : inFlight' = inFlight \ {c}
    BY <1>6 DEF TakeSettled
  <2>2. Cardinality(inFlight') <= Cardinality(inFlight) /\ Cardinality(inFlight') \in Nat
    <3>1. IsFiniteSet(inFlight') /\ Cardinality(inFlight') <= Cardinality(inFlight)
      BY <1>0, <2>1, FS_RemoveElement
    <3> QED
      BY <3>1, FS_CardinalityType
  <2>3. pc' \in {"drain", "commit"}
    BY <1>6 DEF TakeSettled
  <2> QED
    BY <1>0, <2>2, <2>3 DEF Bounded
<1>7. CASE Abort \/ Reclassify \/ UNCHANGED vars
  BY <1>1, <1>7 DEF Abort, Reclassify, vars
<1>8. CASE FormGroup \/ Return \/ StopFilling \/ EndGroup \/ EndSkipping \/ Drain
  BY <1>2, <1>8 DEF FormGroup, Return, StopFilling, EndGroup, EndSkipping, Drain
<1>9. CASE TakePrepared \/ Refill \/ Commit \/ (Dispatch /\ failure)
  BY <1>1, <1>2, <1>9 DEF TakePrepared, Refill, Commit, Dispatch
<1>10. CASE Finalize \/ Skip \/ AnswerSkipped
  BY <1>1, <1>2, <1>10 DEF Finalize, Skip, AnswerSkipped
<1>11. CASE Dispatched
  BY <1>1, <1>11 DEF Dispatched, InvokeBody, BodySettles, DispatchSettles, DispatchRejects, callFrame
<1> QED
  BY <1>3, <1>4, <1>5, <1>6, <1>7, <1>8, <1>9, <1>10, <1>11 DEF Next, Scheduler

LEMMA FailedKept == IInv /\ Pooled /\ Failed /\ [Next]_vars => Failed'
<1> SUFFICES ASSUME IInv, Pooled, Failed, [Next]_vars PROVE Failed'
  OBVIOUS
<1> USE DEF Failed, frame, groupVars, bodyVars, logVars, Throw
<1>0. stage \in [Calls -> {"none", "wrapper", "body", "settled", "rejected"}]
  BY DEF IInv, TypeOK, TypeDispatched
<1>1. CASE Abort \/ Reclassify \/ UNCHANGED vars
  BY <1>1 DEF Abort, Reclassify, vars
<1>2. CASE FormGroup \/ Return \/ StopFilling \/ EndSkipping \/ Drain
  BY <1>2 DEF FormGroup, Return, StopFilling, EndSkipping, Drain
<1>3. CASE EndGroup
  BY <1>3 DEF EndGroup
<1>4. CASE Prepare \/ TakePrepared \/ Finalize \/ StartCall \/ Commit
  BY <1>4 DEF Prepare, TakePrepared, Finalize, StartCall, Commit
<1>5. CASE Dispatch \/ TakeSettled \/ Refill
  BY <1>5 DEF Dispatch, TakeSettled, Refill
<1>6. CASE Skip \/ AnswerSkipped
  BY <1>6 DEF Skip, AnswerSkipped
<1>7. ASSUME NEW c \in Calls, DispatchRejects(c)
      PROVE  Failed'
  <2>1. c \in inFlight
    BY <1>7 DEF Pooled, Running, DispatchRejects
  <2>2. stage'[c] = "rejected" /\ UNCHANGED <<pc, inFlight>>
    BY <1>0, <1>7 DEF DispatchRejects, callFrame
  <2>3. pc \notin {"group", "skip", "returned"}
    BY <2>1 DEF Pooled
  <2> QED
    BY <2>1, <2>2, <2>3
<1>8. ASSUME NEW c \in Calls, InvokeBody(c) \/ BodySettles(c) \/ DispatchSettles(c)
      PROVE  Failed'
  <2>1. stage[c] # "rejected" /\ UNCHANGED <<pc, inFlight, failure>>
        /\ \A d \in Calls \ {c} : stage'[d] = stage[d]
    BY <1>0, <1>8 DEF InvokeBody, BodySettles, DispatchSettles, callFrame
  <2>2. inFlight \subseteq Calls
    BY DEF IInv, TypeOK, TypeScheduler
  <2> QED
    BY <2>1, <2>2
<1> QED
  BY <1>1, <1>2, <1>3, <1>4, <1>5, <1>6, <1>7, <1>8 DEF Next, Scheduler, Dispatched

LEMMA AccountedKept ==
    IInv /\ Pooled /\ Failed /\ Failed' /\ ResultsAccounted /\ [Next]_vars => ResultsAccounted'
<1> SUFFICES ASSUME IInv, Pooled, Failed, Failed', ResultsAccounted, [Next]_vars PROVE ResultsAccounted'
  OBVIOUS
<1>0. Counted /\ Counted'
  BY NextKeeps DEF IInv, Keeps
<1>1. pc' = "returned" => called' = N /\ answered' = N
  <2>1. CASE Return
    BY <1>0, <2>1 DEF Return, Counted, logVars
  <2>2. CASE EndSkipping
    BY <2>2 DEF EndSkipping, logVars
  <2>3. CASE UNCHANGED vars
    BY <2>3 DEF vars, logVars, ResultsAccounted
  <2>4. CASE pc = "returned" /\ UNCHANGED <<pc, called, answered>>
    BY <2>4 DEF ResultsAccounted
  <2>5. CASE Abort \/ Reclassify \/ Dispatched
    <3>1. UNCHANGED <<pc, called, answered>>
      BY <2>5 DEF Abort, Reclassify, Dispatched, InvokeBody, BodySettles, DispatchSettles,
                  DispatchRejects, callFrame, logVars
    <3> QED
      BY <2>4, <3>1
  <2>6. CASE Scheduler /\ ~Return /\ ~EndSkipping
    BY <2>6 DEF Scheduler, FormGroup, StartCall, StopFilling, Prepare, TakePrepared, Dispatch,
                Finalize, Commit, Refill, TakeSettled, EndGroup, Skip, AnswerSkipped, Drain, Throw
  <2> QED
    BY <2>1, <2>2, <2>3, <2>5, <2>6 DEF Next
<1>2. failure' => answered' = committed'
  <2>1. CASE pc' \notin {"skip", "returned", "threw"}
    BY <1>0, <2>1 DEF Counted
  <2>2. CASE pc' \in {"skip", "returned"}
    BY <2>2 DEF Failed
  <2>3. CASE pc' = "threw" /\ failure'
    <3>1. CASE UNCHANGED <<failure, answered, committed>>
      BY <2>3, <3>1 DEF ResultsAccounted
    <3>2. CASE Abort \/ Reclassify \/ UNCHANGED vars
      BY <3>1, <3>2 DEF Abort, Reclassify, vars, logVars
    <3>3. CASE Scheduler
      <4>1. EndGroup \/ Drain \/ Skip \/ AnswerSkipped
        BY <2>3, <3>3 DEF Scheduler, FormGroup, Return, StartCall, StopFilling, Prepare, TakePrepared,
              Dispatch, Finalize, Commit, Refill, TakeSettled, EndSkipping, Throw
      <4>2. CASE EndGroup \/ Drain
        BY <3>1, <4>2 DEF EndGroup, Drain, frame, logVars
      <4>3. CASE Skip \/ AnswerSkipped
        BY <2>3, <4>3 DEF Skip, AnswerSkipped, Failed
      <4> QED
        BY <4>1, <4>2, <4>3
    <3>4. CASE Dispatched
      <4>1. UNCHANGED <<pc, answered, committed>>
        BY <3>4 DEF Dispatched, InvokeBody, BodySettles, DispatchSettles, DispatchRejects, callFrame, logVars
      <4>2. PICK c \in Calls : stage[c] \in {"wrapper", "body"} /\ (failure' = failure \/ DispatchRejects(c))
        BY <3>4 DEF Dispatched, InvokeBody, BodySettles, DispatchSettles, DispatchRejects
      <4>3. pc # "threw"
        BY <4>2 DEF Pooled, Running
      <4> QED
        BY <2>3, <4>1, <4>3
    <3> QED
      BY <3>2, <3>3, <3>4 DEF Next
  <2> QED
    BY <2>1, <2>2, <2>3
<1> QED
  BY <1>1, <1>2 DEF ResultsAccounted

-------------------------------------------------------------------------------
(* The theorems *)

\* The scheduler's counters, its group and its pool stay consistent with the log
\* and with the calls' own coroutines (tool-calls.ts:135-143).
THEOREM Inductive == Spec => []IInv
<1>1. IInv /\ [Next]_vars => IInv'
  BY NextKeeps DEF Keeps
<1> QED
  BY <1>1, InitKeeps, PTL DEF Spec

\* The variables keep the types of tool-calls.ts.
THEOREM TypeCorrect == Spec => []TypeOK
<1>1. IInv => TypeOK
  BY DEF IInv
<1> QED
  BY <1>1, Inductive, PTL

\* The scheduler implements the model-ordered log of a step, however its
\* dispatches overtake each other and whatever aborts or fails.
THEOREM LogRefined == Spec => LogOrdered
<1>1. IInv /\ [Next]_vars => [Log!Next]_(Log!vars)
  BY NextKeeps DEF Keeps
<1> QED
  BY <1>1, InitKeeps, Inductive, PTL DEF Spec, LogOrdered, Log!Spec

\* The error of tool-calls.ts:245 is unreachable for every number of calls.
THEOREM NoUncommitted == Spec => []AllCommitted
<1>1. IInv => AllCommitted
  BY DEF IInv, TypeOK, TypeScheduler, Counted, Awaited, AllCommitted
<1> QED
  BY <1>1, Inductive, PTL

\* What the pool holds, and what it has to show for a failure.
THEOREM PoolInductive == Spec => [](Pooled /\ Bounded /\ Failed /\ ResultsAccounted)
<1> DEFINE P == Pooled /\ Bounded /\ Failed /\ ResultsAccounted
<1>1. Init => P
  <2> SUFFICES ASSUME Init PROVE P
    OBVIOUS
  <2>1. Cardinality(inFlight) = 0
    BY FS_EmptySet DEF Init
  <2>2. Bounded
    BY <2>1 DEF Bounded, Init
  <2>3. Pooled /\ Failed
    BY DEF Init, Pooled, Running, Failed
  <2>4. ResultsAccounted
    BY DEF Init, Log!Init, ResultsAccounted
  <2> QED
    BY <2>2, <2>3, <2>4
<1>2. P /\ IInv /\ [Next]_vars => P'
  BY PooledKept, BoundedKept, FailedKept, AccountedKept
<1> QED
  BY <1>1, <1>2, Inductive, PTL DEF Spec

\* Never more dispatches overlap than the configured limit.
THEOREM PoolNeverExceeds == Spec => []PoolBounded
<1>1. IInv /\ Pooled /\ Bounded => PoolBounded
  <2> SUFFICES ASSUME IInv, Pooled, Bounded PROVE PoolBounded
    OBVIOUS
  <2>1. Cardinality(Running) <= Cardinality(inFlight) /\ IsFiniteSet(Running)
    BY FiniteFlight, FS_Subset DEF Pooled
  <2>2. Cardinality(Running) \in Nat
    BY <2>1, FS_CardinalityType
  <2> QED
    BY <2>1, <2>2, FiniteFlight DEF Bounded, PoolBounded
<1> QED
  BY <1>1, Inductive, PoolInductive, PTL

\* An exclusive call is a barrier, through every reclassification.
THEOREM BarrierHolds == Spec => []ExclusiveAlone
<1>1. IInv /\ Pooled => ExclusiveAlone
  <2> SUFFICES ASSUME IInv, Pooled, NEW c \in Running, startedAs[c] = "exclusive"
               PROVE  Running = {c}
    BY DEF ExclusiveAlone
  <2>1. c \in inFlight /\ pc \notin {"group", "returned", "threw", "skip"}
    BY DEF Pooled
  <2>2. pool = "exclusive" /\ end <= base + 1 /\ started <= end
    BY <2>1 DEF IInv, Grouped, Counted
  <2>3. \A d \in inFlight : d = base + 1
    <3>1. \A d \in inFlight : base < d /\ d <= started /\ d \in Nat
      BY DEF IInv, Grouped, TypeOK, TypeScheduler
    <3>2. base \in Nat /\ started \in Nat /\ end \in Nat
      BY DEF IInv, TypeOK, TypeScheduler
    <3> QED
      BY <2>2, <3>1, <3>2
  <2> QED
    BY <2>1, <2>3 DEF Pooled
<1> QED
  BY <1>1, Inductive, PoolInductive, PTL

\* Both rules of the pool (tool-calls.ts:79-86, 200-204), for every number of calls
\* and every limit.
THEOREM PoolRules == Spec => []PoolKept
<1>1. PoolBounded /\ ExclusiveAlone => PoolKept
  BY DEF PoolKept
<1> QED
  BY <1>1, PoolNeverExceeds, BarrierHolds, PTL

\* The step ends with nothing running, and with nothing made up.
THEOREM EndsAccounted == Spec => []StepAccounted
<1>1. Pooled /\ ResultsAccounted => StepAccounted
  BY DEF Pooled, Quiescent, Finished, Running, StepAccounted
<1> QED
  BY <1>1, PoolInductive, PTL

\* The scheduler's copy of the signal is current whenever it starts a call.
Fresh == pc = "fill" /\ signal => aborted

LEMMA FreshKept == Fresh /\ [Next]_vars => Fresh'
<1> SUFFICES ASSUME Fresh, [Next]_vars PROVE Fresh'
  OBVIOUS
<1>1. CASE FormGroup \/ Refill
  <2>1. CASE FormGroup
    BY <2>1 DEF Fresh, FormGroup
  <2>2. CASE Refill
    <3>1. signal' = signal
      BY <2>2 DEF Refill, frame
    <3>2. pc' = "fill" => aborted' = (aborted \/ signal)
      BY <2>2 DEF Refill, Throw
    <3> QED
      BY <3>1, <3>2, Zenon DEF Fresh
  <2> QED
    BY <1>1, <2>1, <2>2
<1>2. CASE pc' # "fill"
  BY <1>2 DEF Fresh
<1>3. CASE UNCHANGED <<pc, signal, aborted>>
  BY <1>3 DEF Fresh
<1>4. CASE Abort \/ Reclassify
  BY <1>2, <1>4 DEF Abort, Reclassify, OthersRun
<1>5. CASE UNCHANGED vars
  BY <1>3, <1>5 DEF vars
<1>6. CASE Dispatched
  BY <1>3, <1>6 DEF Dispatched, InvokeBody, BodySettles, DispatchSettles, DispatchRejects, callFrame
<1>7. CASE Finalize \/ Commit
  BY <1>2, <1>7 DEF Finalize, Commit, Throw
<1>8. CASE Scheduler /\ ~(FormGroup \/ Refill \/ Finalize \/ Commit)
  <2>1. pc' # "fill"
    BY <1>8 DEF Scheduler, Return, StartCall, StopFilling, Prepare, TakePrepared, Dispatch, TakeSettled,
                EndGroup, Skip, AnswerSkipped, EndSkipping, Drain, Throw
  <2> QED
    BY <1>2, <2>1
<1> QED
  BY <1>1, <1>4, <1>5, <1>6, <1>7, <1>8 DEF Next

\* After an abort no call is started and no body is invoked, wherever the abort
\* arrived.
THEOREM AbortStopsStarts == Spec => NothingStartsAfterAbort
<1>1. Init => Fresh
  BY DEF Init, Fresh
<1>2. Fresh /\ [Next]_vars => [signal => started' = started /\ ran' = ran]_vars
  <2> SUFFICES ASSUME Fresh, Next, signal PROVE started' = started /\ ran' = ran
    OBVIOUS
  <2> USE DEF frame, bodyVars, logVars
  <2>1. CASE Abort \/ Reclassify
    BY <2>1 DEF Abort, Reclassify
  <2>2. CASE StartCall
    BY <2>2 DEF StartCall, MayStart, Fresh
  <2>3. CASE Scheduler /\ ~StartCall
    BY <2>3 DEF Scheduler, FormGroup, Return, StopFilling, Prepare, TakePrepared, Dispatch, Finalize,
                Commit, Refill, TakeSettled, EndGroup, Skip, AnswerSkipped, EndSkipping, Drain
  <2>4. CASE Dispatched
    BY <2>4 DEF Dispatched, InvokeBody, BodySettles, DispatchSettles, DispatchRejects, callFrame
  <2> QED
    BY <2>1, <2>2, <2>3, <2>4 DEF Next
<1>3. Spec => []Fresh
  BY <1>1, FreshKept, PTL DEF Spec
<1> QED
  BY <1>2, <1>3, PTL DEF Spec, NothingStartsAfterAbort

-------------------------------------------------------------------------------
(* What results say of cancelled calls *)

\* What is remembered of one call: the body of a call that was not dispatched has
\* not run, and what says "aborted", a next() or a result, says it of a body that
\* was invoked.
ToldCall(c) ==
    /\ stage[c] = "none" => c \notin ran
    /\ stage[c] = "body" => c \in ran
    /\ attempt[c] = "aborted" => c \in ran
    /\ slot[c].outcome = "aborted" => c \in ran

\* A call that is being prepared has no frame yet.
Unstarted == pc \in {"prepare", "dispatch"} => stage[started] = "none"

Told == Unstarted /\ \A c \in Calls : ToldCall(c)

\* What a step may make a result say of a call.
Tells(c) ==
    slot'[c] # slot[c] =>
        /\ slot'[c].outcome = "aborted" => c \in ran
        /\ slot'[c].outcome = "beforeDispatch" /\ c \in ran =>
              "beforeDispatch" \in {slot[c].outcome, attempt[c]}

TellingStep == Told' /\ \A c \in Calls : Tells(c)

LEMMA SlotOutcome ==
    /\ NoSlot.outcome = "none"
    /\ \A outcome, post : Slot(outcome, post).outcome = outcome
BY DEF NoSlot, Slot

LEMMA ToldInit == Init => Told
BY SlotOutcome DEF Init, Told, Unstarted, ToldCall

\* A step that changes nothing of a call keeps what is said of it.
LEMMA SameCall ==
    ASSUME NEW c \in Calls, ToldCall(c),
           slot'[c] = slot[c], stage'[c] = stage[c], attempt'[c] = attempt[c],
           c \in ran' <=> c \in ran
    PROVE  ToldCall(c)' /\ Tells(c)
BY DEF ToldCall, Tells

\* The scheduler's steps that touch no call.
LEMMA ToldQuiet ==
    ASSUME Told, UNCHANGED bodyVars,
           UNCHANGED <<pc, started>> \/ pc' \notin {"prepare", "dispatch"}
    PROVE  TellingStep
<1>1. \A c \in Calls : ToldCall(c)' /\ Tells(c)
  BY SameCall DEF Told, bodyVars
<1>2. Unstarted'
  BY DEF Told, Unstarted, bodyVars
<1> QED
  BY <1>1, <1>2 DEF Told, TellingStep

LEMMA ToldScheduler == IInv /\ Told /\ Scheduler => TellingStep
<1> SUFFICES ASSUME IInv, Told, Scheduler PROVE TellingStep
  OBVIOUS
<1> USE DEF frame, groupVars, bodyVars, logVars
<1>0. /\ started \in 0 .. N /\ committed \in 0 .. N /\ end \in 0 .. N
      /\ slot \in [Calls -> Slots] /\ stage \in [Calls -> {"none", "wrapper", "body", "settled", "rejected"}]
  BY DEF IInv, TypeOK, TypeScheduler, TypeDispatched
<1>1. CASE FormGroup \/ Return \/ StopFilling \/ TakePrepared \/ Commit \/ Refill \/ TakeSettled
           \/ EndGroup \/ Skip \/ AnswerSkipped \/ EndSkipping \/ Drain
  <2>1. UNCHANGED bodyVars
    BY <1>1 DEF FormGroup, Return, StopFilling, TakePrepared, Commit, Refill, TakeSettled, EndGroup,
                Skip, AnswerSkipped, EndSkipping, Drain
  <2>2. UNCHANGED <<pc, started>> \/ pc' \notin {"prepare", "dispatch"}
    BY <1>1 DEF FormGroup, Return, StopFilling, TakePrepared, Commit, Refill, TakeSettled, EndGroup,
                Skip, AnswerSkipped, EndSkipping, Drain, Throw
  <2> QED
    BY <2>1, <2>2, ToldQuiet
<1>2. CASE StartCall
  <2>1. UNCHANGED bodyVars
    BY <1>2 DEF StartCall
  <2>2. CASE pc' = "prepare"
    <3>1. started' = started + 1 /\ started + 1 \in Calls
      BY <1>0, <1>2, <2>2 DEF StartCall, MayStart, Throw
    <3>2. stage[started + 1] = "none"
      BY <1>0, <3>1 DEF IInv, Counted
    <3>3. Unstarted'
      BY <2>1, <3>1, <3>2 DEF Unstarted
    <3>4. \A c \in Calls : ToldCall(c)' /\ Tells(c)
      BY <2>1, SameCall DEF Told
    <3> QED
      BY <3>3, <3>4 DEF Told, TellingStep
  <2>3. CASE pc' # "prepare"
    BY <1>2, <2>1, <2>3, ToldQuiet DEF StartCall, Throw
  <2> QED
    BY <2>2, <2>3
<1>3. CASE Prepare
  <2>1. /\ pc = "prepare" /\ started' = started /\ UNCHANGED <<stage, attempt, ran>>
        /\ stage[started] = "none"
    BY <1>3 DEF Prepare, Told, Unstarted
  <2>2. CASE UNCHANGED slot
    <3>1. Unstarted'
      BY <2>1 DEF Unstarted
    <3>2. \A c \in Calls : ToldCall(c)' /\ Tells(c)
      BY <2>1, <2>2, SameCall DEF Told
    <3> QED
      BY <3>1, <3>2 DEF Told, TellingStep
  <2>3. ASSUME NEW outcome \in {"error", "beforeDispatch"}, NEW post \in BOOLEAN,
               slot' = [slot EXCEPT ![started] = Slot(outcome, post)], pc' = "prepared"
        PROVE  TellingStep
    <3>1. Unstarted'
      BY <2>3 DEF Unstarted
    <3>2. ASSUME NEW c \in Calls PROVE ToldCall(c)' /\ Tells(c)
      <4>1. CASE c = started
        <5>1. c \notin ran /\ ToldCall(c)
          BY <2>1, <4>1 DEF Told, ToldCall
        <5>2. slot'[c].outcome = outcome
          BY <1>0, <2>3, <4>1, SlotOutcome
        <5> QED
          BY <2>1, <2>3, <5>1, <5>2 DEF ToldCall, Tells
      <4>2. CASE c # started
        BY <1>0, <2>1, <2>3, <4>2, SameCall DEF Told
      <4> QED
        BY <4>1, <4>2
    <3> QED
      BY <3>1, <3>2 DEF Told, TellingStep
  <2> QED
    BY <1>3, <2>2, <2>3 DEF Prepare
<1>4. CASE Dispatch
  <2>1. CASE failure
    BY <1>4, <2>1, ToldQuiet DEF Dispatch, Throw
  <2>2. CASE ~failure
    <3>1. /\ pc' = "commit" /\ stage' = [stage EXCEPT ![started] = "wrapper"]
          /\ UNCHANGED <<slot, attempt, ran>>
      BY <1>4, <2>2 DEF Dispatch
    <3>2. ASSUME NEW c \in Calls PROVE ToldCall(c)' /\ Tells(c)
      <4>1. stage'[c] \in {stage[c], "wrapper"}
        BY <1>0, <3>1
      <4> QED
        BY <3>1, <4>1 DEF Told, ToldCall, Tells
    <3> QED
      BY <3>1, <3>2 DEF Told, Unstarted, TellingStep
  <2> QED
    BY <2>1, <2>2
<1>5. CASE Finalize
  <2> DEFINE k == committed + 1
  <2>1. /\ pc = "commit" /\ pc' = "commit" /\ UNCHANGED <<stage, attempt, ran>>
        /\ k \in Calls
    BY <1>0, <1>5 DEF Finalize, Ready
  <2>2. PICK outcome \in {slot[k].outcome, "error"} :
              slot' = [slot EXCEPT ![k] = Slot(Superseded(k, outcome), FALSE)]
    BY <1>5 DEF Finalize
  <2> HIDE DEF k
  <2>3. ASSUME NEW c \in Calls PROVE ToldCall(c)' /\ Tells(c)
    <3>1. CASE c = k
      <4>1. slot'[c].outcome = Superseded(c, outcome)
        BY <1>0, <2>2, <3>1, SlotOutcome
      <4>2. ToldCall(c)
        BY DEF Told
      <4>3. outcome = slot[c].outcome \/ outcome = "error"
        BY <2>2, <3>1
      <4>4. /\ slot'[c].outcome = "aborted" => c \in ran
            /\ slot'[c].outcome = "beforeDispatch" /\ c \in ran => slot[c].outcome = "beforeDispatch"
        BY <4>1, <4>2, <4>3 DEF Superseded, ToldCall
      <4> QED
        BY <2>1, <4>2, <4>4 DEF ToldCall, Tells
    <3>2. CASE c # k
      <4>1. slot'[c] = slot[c]
        BY <1>0, <2>2, <3>2
      <4> QED
        BY <2>1, <4>1, SameCall DEF Told
    <3> QED
      BY <3>1, <3>2
  <2> QED
    BY <2>1, <2>3 DEF Told, Unstarted, TellingStep
<1> QED
  BY <1>1, <1>2, <1>3, <1>4, <1>5 DEF Scheduler

\* What the calls' own coroutines do.
LEMMA ToldDispatched ==
    ASSUME IInv, Told, NEW c \in Calls,
           InvokeBody(c) \/ BodySettles(c) \/ DispatchSettles(c) \/ DispatchRejects(c)
    PROVE  TellingStep
<1>0. /\ slot \in [Calls -> Slots] /\ stage \in [Calls -> {"none", "wrapper", "body", "settled", "rejected"}]
      /\ attempt \in [Calls -> Outcomes \cup {"none"}]
  BY DEF IInv, TypeOK, TypeDispatched
<1>1. stage[c] \in {"wrapper", "body"} /\ UNCHANGED <<pc, started>> /\ ToldCall(c)
  BY DEF InvokeBody, BodySettles, DispatchSettles, DispatchRejects, callFrame, Told
<1>2. ASSUME NEW d \in Calls, d # c PROVE ToldCall(d)' /\ Tells(d)
  <2>1. /\ slot'[d] = slot[d] /\ stage'[d] = stage[d] /\ attempt'[d] = attempt[d]
        /\ (d \in ran' <=> d \in ran)
    BY <1>0, <1>2 DEF InvokeBody, BodySettles, DispatchSettles, DispatchRejects, Returned
  <2> QED
    BY <2>1, SameCall DEF Told
<1>3. Unstarted'
  <2>1. pc \in {"prepare", "dispatch"} => started \in Calls \ {c}
    BY <1>1 DEF Told, Unstarted, IInv, TypeOK, TypeScheduler, Counted
  <2>2. \A d \in Calls \ {c} : stage'[d] = stage[d]
    BY <1>0 DEF InvokeBody, BodySettles, DispatchSettles, DispatchRejects
  <2> QED
    BY <1>1, <2>1, <2>2 DEF Told, Unstarted
<1>4. ToldCall(c)' /\ Tells(c)
  <2>1. CASE InvokeBody(c)
    <3>1. slot' = slot /\ attempt'[c] \in {attempt[c], "beforeDispatch", "error"}
      BY <1>0, <2>1 DEF InvokeBody
    <3>2. \/ stage'[c] = "wrapper" /\ ran' = ran
          \/ stage'[c] = "body" /\ c \in ran'
      BY <1>0, <2>1 DEF InvokeBody
    <3> QED
      BY <1>1, <3>1, <3>2 DEF ToldCall, Tells
  <2>2. CASE BodySettles(c)
    <3>1. stage[c] = "body" /\ stage'[c] = "wrapper" /\ slot' = slot /\ ran' = ran
      BY <1>0, <2>2 DEF BodySettles
    <3> QED
      BY <1>1, <3>1 DEF ToldCall, Tells
  <2>3. CASE DispatchSettles(c)
    <3>1. PICK outcome \in {attempt[c], "ok", "error"}, post \in BOOLEAN :
                slot' = [slot EXCEPT ![c] = Slot(Superseded(c, outcome), post)]
      BY <2>3 DEF DispatchSettles
    <3>2. stage'[c] = "settled" /\ attempt'[c] = "none" /\ ran' = ran
      BY <1>0, <2>3 DEF DispatchSettles, Returned
    <3>3. slot'[c].outcome = Superseded(c, outcome)
      BY <1>0, <3>1, SlotOutcome
    <3> QED
      BY <1>1, <3>1, <3>2, <3>3 DEF Superseded, ToldCall, Tells
  <2>4. CASE DispatchRejects(c)
    <3>1. stage'[c] = "rejected" /\ slot' = slot /\ attempt'[c] = "none" /\ ran' = ran
      BY <1>0, <2>4 DEF DispatchRejects, Returned
    <3> QED
      BY <1>1, <3>1 DEF ToldCall, Tells
  <2> QED
    BY <2>1, <2>2, <2>3, <2>4
<1> QED
  BY <1>2, <1>3, <1>4 DEF Told, TellingStep

\* A result says "aborted" only of a call whose body was invoked, and "aborted
\* before dispatch" of such a call only where a wrapper called next() once more
\* and handed on the cancelled answer, for every number of calls and of next()s,
\* wherever the abort arrives and whatever the wrappers and the post-execute stage
\* make of the outcome (tools/src/index.ts:1348-1352, 1526-1542, 1557-1560).
THEOREM CancellationsTold == Spec => CancellationTold
<1>1. IInv /\ Told /\ [Next]_vars => TellingStep
  <2> SUFFICES ASSUME IInv, Told, [Next]_vars PROVE TellingStep
    OBVIOUS
  <2>1. CASE Abort \/ Reclassify \/ UNCHANGED vars
    BY <2>1, ToldQuiet DEF Abort, Reclassify, vars
  <2>2. CASE Dispatched
    BY <2>2, ToldDispatched DEF Dispatched
  <2> QED
    BY <2>1, <2>2, ToldScheduler DEF Next
<1>2. IInv /\ Told /\ [Next]_vars => Told'
  BY <1>1 DEF TellingStep
<1>3. Spec => []Told
  BY <1>2, ToldInit, Inductive, PTL DEF Spec
<1>4. IInv /\ Told /\ [Next]_vars =>
        \A c \in Calls : slot'[c] # slot[c] =>
            /\ slot'[c].outcome = "aborted" => c \in ran
            /\ slot'[c].outcome = "beforeDispatch" /\ c \in ran =>
                  "beforeDispatch" \in {slot[c].outcome, attempt[c]}
  BY <1>1 DEF TellingStep, Tells
<1> QED
  BY <1>3, <1>4, Inductive, PTL DEF Spec, CancellationTold
==============================================================================
