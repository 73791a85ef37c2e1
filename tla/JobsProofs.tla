------------------------------ MODULE JobsProofs ------------------------------
(***************************************************************************)
(* Theorems about Jobs, for any number of agents, jobs and calls.          *)
(***************************************************************************)
EXTENDS Jobs, TLAPS

USE NoneAssumption, BoundAssumption, EndingAssumption

IInv == TypeOK /\ Sound /\ ReportedOnce

-------------------------------------------------------------------------------
(* Types                                                                   *)

\* A field of a record may take any value of its own.
LEMMA JobUpdates ==
    ASSUME NEW r \in JobRecord
    PROVE  /\ \A v \in {"absent", "running", "stopping"} \cup Outcomes : [r EXCEPT !.st = v] \in JobRecord
           /\ \A v \in Owners \cup {none} : [r EXCEPT !.owner = v] \in JobRecord
           /\ \A v \in {"producer", "kill", "teardown"} : [r EXCEPT !.cause = v] \in JobRecord
           /\ \A v \in {"pending", "taken"} \cup Outcomes : [r EXCEPT !.done = v] \in JobRecord
           /\ \A v \in BOOLEAN : [r EXCEPT !.stored = v] \in JobRecord
           /\ \A v \in BOOLEAN : [r EXCEPT !.byModel = v] \in JobRecord
           /\ \A v \in Nat : [r EXCEPT !.notices = v] \in JobRecord
<1>1. \A v \in {"absent", "running", "stopping"} \cup Outcomes : [r EXCEPT !.st = v] \in JobRecord
  BY ZenonT(60) DEF JobRecord
<1>2. \A v \in Owners \cup {none} : [r EXCEPT !.owner = v] \in JobRecord
  BY ZenonT(60) DEF JobRecord
<1>3. \A v \in {"producer", "kill", "teardown"} : [r EXCEPT !.cause = v] \in JobRecord
  BY ZenonT(60) DEF JobRecord
<1>4. \A v \in {"pending", "taken"} \cup Outcomes : [r EXCEPT !.done = v] \in JobRecord
  BY ZenonT(60) DEF JobRecord
<1>5. \A v \in BOOLEAN : [r EXCEPT !.stored = v] \in JobRecord
  BY ZenonT(60) DEF JobRecord
<1>6. \A v \in BOOLEAN : [r EXCEPT !.byModel = v] \in JobRecord
  BY ZenonT(60) DEF JobRecord
<1>7. \A v \in Nat : [r EXCEPT !.notices = v] \in JobRecord
  BY ZenonT(60) DEF JobRecord
<1> QED
  BY <1>1, <1>2, <1>3, <1>4, <1>5, <1>6, <1>7, Zenon

LEMMA OwnerUpdates ==
    ASSUME NEW r \in OwnerRecord
    PROVE  /\ \A v \in {"live", "closing", "unwinding", "draining", "unwound", "gone"} :
                 [r EXCEPT !.life = v] \in OwnerRecord
           /\ \A v \in {"idle", "running", "aborting"} : [r EXCEPT !.turn = v] \in OwnerRecord
           /\ \A v \in 0 .. WakeBudget : [r EXCEPT !.spent = v] \in OwnerRecord
           /\ \A v \in SUBSET Jobs : [r EXCEPT !.inbox = v] \in OwnerRecord
           /\ \A v \in SUBSET Jobs : [r EXCEPT !.leaving = v] \in OwnerRecord
           /\ \A v \in BOOLEAN : [r EXCEPT !.hooked = v] \in OwnerRecord
<1>1. \A v \in {"live", "closing", "unwinding", "draining", "unwound", "gone"} :
         [r EXCEPT !.life = v] \in OwnerRecord
  BY ZenonT(60) DEF OwnerRecord
<1>2. \A v \in {"idle", "running", "aborting"} : [r EXCEPT !.turn = v] \in OwnerRecord
  BY ZenonT(60) DEF OwnerRecord
<1>3. \A v \in 0 .. WakeBudget : [r EXCEPT !.spent = v] \in OwnerRecord
  BY ZenonT(60) DEF OwnerRecord
<1>4. \A v \in SUBSET Jobs : [r EXCEPT !.inbox = v] \in OwnerRecord
  BY ZenonT(60) DEF OwnerRecord
<1>5. \A v \in SUBSET Jobs : [r EXCEPT !.leaving = v] \in OwnerRecord
  BY ZenonT(60) DEF OwnerRecord
<1>6. \A v \in BOOLEAN : [r EXCEPT !.hooked = v] \in OwnerRecord
  BY ZenonT(60) DEF OwnerRecord
<1> QED
  BY <1>1, <1>2, <1>3, <1>4, <1>5, <1>6, Zenon

LEMMA CallUpdates ==
    ASSUME NEW r \in CallRecord,
           NEW v \in {"idle", "waiting", "released", "left", "told", "lost"}
    PROVE  [r EXCEPT !.st = v] \in CallRecord
BY ZenonT(60) DEF CallRecord

\* The initial records.
LEMMA InitType == Init => TypeOK
<1> SUFFICES ASSUME Init PROVE TypeOK
  OBVIOUS
<1>1. jobs \in [Jobs -> JobRecord]
  <2>1. Absent \in JobRecord
    BY DEF Absent, JobRecord
  <2> QED
    BY <2>1, Zenon DEF Init
<1>2. owners \in [Owners -> OwnerRecord]
  <2>1. [life |-> "live", turn |-> "idle", spent |-> 0, inbox |-> {}, hooked |-> FALSE, leaving |-> {}]
           \in OwnerRecord
    BY DEF OwnerRecord
  <2> QED
    BY <2>1, Zenon DEF Init
<1>3. calls \in [Calls -> CallRecord]
  <2>1. [st |-> "idle", by |-> none, job |-> none] \in CallRecord
    BY DEF CallRecord
  <2> QED
    BY <2>1, Zenon DEF Init
<1> QED
  BY <1>1, <1>2, <1>3 DEF Init, TypeOK

\* The waits a settlement or an abort takes out of their set stay typed.
LEMMA ReleaseType ==
    ASSUME TypeOK, NEW S, ReleaseWaiters(S)
    PROVE  calls' \in [Calls -> CallRecord]
<1>1. \A c \in Calls : [calls[c] EXCEPT !.st = "released"] \in CallRecord /\ calls[c] \in CallRecord
  BY CallUpdates, Zenon DEF TypeOK
<1> QED
  BY <1>1, ZenonT(60) DEF ReleaseWaiters

LEMMA RejectType ==
    ASSUME TypeOK, NEW a
    PROVE  Rejected(a) \in [Calls -> CallRecord]
<1>1. \A c \in Calls : [calls[c] EXCEPT !.st = "left"] \in CallRecord /\ calls[c] \in CallRecord
  BY CallUpdates, Zenon DEF TypeOK
<1> QED
  BY <1>1, ZenonT(60) DEF Rejected

LEMMA CancelType ==
    ASSUME TypeOK, NEW S, NEW broken, CancelForTeardown(S, broken)
    PROVE  /\ jobs' \in [Jobs -> JobRecord]
           /\ calls' \in [Calls -> CallRecord]
           /\ killedByModel' \in SUBSET Jobs
<1>1. \A j \in Jobs : [jobs[j] EXCEPT !.cause = "teardown",
                                      !.st = IF j \in broken THEN "failed" ELSE "stopping"] \in JobRecord
  BY JobUpdates DEF TypeOK, Outcomes
<1>2. jobs' \in [Jobs -> JobRecord]
  BY <1>1, ZenonT(60) DEF CancelForTeardown, TypeOK
<1> QED
  BY <1>2, ReleaseType, Zenon DEF CancelForTeardown, TypeOK

LEMMA DropType ==
    ASSUME TypeOK, NEW S, Dropped(S)
    PROVE  /\ jobs' \in [Jobs -> JobRecord]
           /\ killedByModel' \in SUBSET Jobs
<1>1. \A j \in Jobs : [jobs[j] EXCEPT !.stored = FALSE] \in JobRecord
  BY JobUpdates, Zenon DEF TypeOK
<1> QED
  BY <1>1, ZenonT(60) DEF Dropped, TypeOK

LEMMA TypeStep == TypeOK /\ [Next]_vars => TypeOK'
<1> SUFFICES ASSUME TypeOK, [Next]_vars PROVE TypeOK'
  OBVIOUS
<1>0. /\ jobs \in [Jobs -> JobRecord] /\ owners \in [Owners -> OwnerRecord]
      /\ calls \in [Calls -> CallRecord] /\ killedByModel \in SUBSET Jobs
      /\ service \in [at : {"up", "draining", "closed"}, leaving : SUBSET Jobs]
  BY Zenon DEF TypeOK
<1>1. ASSUME NEW j \in Jobs, NEW o \in Owners \cup {none}, Registration(j, o)
      PROVE  /\ jobs' \in [Jobs -> JobRecord] /\ calls' \in [Calls -> CallRecord]
             /\ killedByModel' \in SUBSET Jobs
             /\ service' \in [at : {"up", "draining", "closed"}, leaving : SUBSET Jobs]
  <2>1. jobs' \in [Jobs -> JobRecord]
    <3>1. [[[jobs[j] EXCEPT !.st = "running"] EXCEPT !.owner = o] EXCEPT !.stored = TRUE] \in JobRecord
      BY <1>0, <1>1, JobUpdates, Zenon
    <3>2. jobs' = [jobs EXCEPT ![j] = [[[jobs[j] EXCEPT !.st = "running"] EXCEPT !.owner = o]
                                         EXCEPT !.stored = TRUE]]
      BY <1>0, <1>1, Zenon DEF Registration
    <3> QED
      BY <1>0, <3>1, <3>2, Zenon
  <2> QED
    BY <1>0, <1>1, <2>1, Zenon DEF Registration
<1>2. ASSUME NEW j \in Jobs, NEW a \in Owners, Start(j, a) PROVE TypeOK'
  <2>1. owners' \in [Owners -> OwnerRecord]
    <3>1. [owners[a] EXCEPT !.hooked = TRUE] \in OwnerRecord
      BY <1>0, OwnerUpdates, Zenon
    <3>2. owners' = [owners EXCEPT ![a] = [owners[a] EXCEPT !.hooked = TRUE]]
      BY <1>0, <1>2, Zenon DEF Start
    <3> QED
      BY <1>0, <3>1, <3>2, Zenon
  <2> QED
    BY <1>1, <1>2, <2>1, Zenon DEF Start, TypeOK
<1>3. ASSUME NEW j \in Jobs, StartUnowned(j) PROVE TypeOK'
  BY <1>0, <1>1, <1>3, Zenon DEF StartUnowned, TypeOK
<1>4. ASSUME NEW j \in Jobs, NEW byModel \in BOOLEAN, Killed(j, byModel) PROVE TypeOK'
  <2>1. jobs' \in [Jobs -> JobRecord]
    <3>1. (jobs[j].byModel \/ byModel) \in BOOLEAN
      BY <1>0, Zenon DEF JobRecord
    <3> QED
      <4>1. [[[jobs[j] EXCEPT !.st = "stopping"] EXCEPT !.cause = "kill"]
                EXCEPT !.byModel = jobs[j].byModel \/ byModel] \in JobRecord
        BY <1>0, <1>1, <3>1, JobUpdates, Zenon
      <4>2. jobs' = [jobs EXCEPT ![j] = [[[jobs[j] EXCEPT !.st = "stopping"] EXCEPT !.cause = "kill"]
                                           EXCEPT !.byModel = jobs[j].byModel \/ byModel]]
        BY <1>0, <1>4, Zenon DEF Killed
      <4> QED
        BY <1>0, <4>1, <4>2, Zenon
  <2>2. killedByModel' \in SUBSET Jobs
    BY <1>0, <1>4, Zenon DEF Killed
  <2> QED
    BY <1>0, <1>4, <2>1, <2>2, Zenon DEF Killed, TypeOK
<1>5. ASSUME NEW j \in Jobs, Remove(j) PROVE TypeOK'
  <2>1. jobs' \in [Jobs -> JobRecord]
    <3>1. [jobs[j] EXCEPT !.stored = FALSE] \in JobRecord
      BY <1>0, JobUpdates, Zenon
    <3>2. jobs' = [jobs EXCEPT ![j] = [jobs[j] EXCEPT !.stored = FALSE]]
      BY <1>0, <1>5, Zenon DEF Remove
    <3> QED
      BY <1>0, <3>1, <3>2, Zenon
  <2> QED
    BY <1>0, <1>5, <2>1, Zenon DEF Remove, TypeOK
<1>6. ASSUME NEW j \in Jobs, NEW outcome \in Endings, Produce(j, outcome) PROVE TypeOK'
  <2>1. jobs' \in [Jobs -> JobRecord]
    BY <1>0, <1>6, SMTT(60) DEF Produce, JobRecord
  <2> QED
    BY <1>0, <1>6, <2>1, Zenon DEF Produce, TypeOK
<1>7. ASSUME NEW j \in Jobs, Settle(j) PROVE TypeOK'
  <2>1. jobs' \in [Jobs -> JobRecord]
    <3>1. Settled(j) \in JobRecord
      <4>1. jobs[j] \in JobRecord /\ jobs[j].done \in Outcomes
        BY <1>0, <1>7, Zenon DEF Settle
      <4>2. (IF Due(j) THEN jobs[j].notices + 1 ELSE jobs[j].notices) \in Nat
        BY <4>1, SMTT(30) DEF JobRecord
      <4>3. [jobs[j] EXCEPT !.done = "taken"] \in JobRecord
        BY <4>1, JobUpdates, Zenon
      <4>4. [jobs[j] EXCEPT !.done = "taken", !.st = jobs[j].done,
                            !.notices = IF Due(j) THEN @ + 1 ELSE @] \in JobRecord
        BY <4>1, <4>2, ZenonT(60) DEF JobRecord
      <4> QED
        BY <4>3, <4>4, Zenon DEF Settled
    <3> QED
      BY <1>0, <1>7, <3>1, ZenonT(60) DEF Settle
  <2>2. owners' \in [Owners -> OwnerRecord]
    <3>1. CASE ~Due(j) \/ Terminal(j)
      BY <1>0, <1>7, <3>1, Zenon DEF Settle, Notify
    <3>2. CASE Due(j) /\ ~Terminal(j)
      <4> DEFINE o == jobs[j].owner
                 wakes == owners[o].turn = "idle" /\ owners[o].spent < WakeBudget
                 n == IF wakes THEN owners[o].spent + 1 ELSE owners[o].spent
                 t == IF wakes THEN "running" ELSE owners[o].turn
                 i == owners[o].inbox \cup {j}
                 q == [[[owners[o] EXCEPT !.inbox = i] EXCEPT !.turn = t] EXCEPT !.spent = n]
      <4>1. o \in Owners
        BY <1>0, <3>2, SMTT(60) DEF Due, JobRecord
      <4>2. owners' = [owners EXCEPT ![o] = q]
        <5>1. owners' = [owners EXCEPT ![o].inbox = @ \cup {j},
                                       ![o].turn = IF wakes THEN "running" ELSE @,
                                       ![o].spent = IF wakes THEN @ + 1 ELSE @]
          BY <1>7, <3>2, Zenon DEF Settle, Notify
        <5>2. owners' = [owners EXCEPT ![o].inbox = i, ![o].turn = t, ![o].spent = n]
          BY <5>1, ZenonT(60)
        <5> HIDE DEF i, t, n
        <5> QED
          BY <1>0, <4>1, <5>2, Zenon
      <4>3. n \in 0 .. WakeBudget /\ t \in {"idle", "running", "aborting"} /\ i \in SUBSET Jobs
        BY <1>0, <4>1, SMTT(60) DEF OwnerRecord
      <4> HIDE DEF i, t, n
      <4>4. q \in OwnerRecord
        BY <1>0, <4>1, <4>3, OwnerUpdates, Zenon
      <4> QED
        BY <1>0, <4>1, <4>2, <4>4, Zenon
    <3> QED
      BY <3>1, <3>2, Zenon
  <2>3. calls' \in [Calls -> CallRecord]
    BY <1>0, <1>7, ReleaseType, Zenon DEF Settle
  <2> QED
    BY <1>0, <1>7, <2>1, <2>2, <2>3, Zenon DEF Settle, TypeOK
<1>8. ASSUME NEW j \in Jobs, NEW a \in Owners, NEW c \in Calls, Wait(c, j, a) PROVE TypeOK'
  <2>1. calls' \in [Calls -> CallRecord]
    BY <1>0, <1>8, SMTT(60) DEF Wait, CallRecord
  <2> QED
    BY <1>0, <1>8, <2>1, Zenon DEF Wait, TypeOK
<1>9. ASSUME NEW c \in Calls, Timeout(c) \/ Answer(c) PROVE TypeOK'
  <2>1. calls' \in [Calls -> CallRecord]
    <3>1. CASE Timeout(c)
      BY <1>0, <3>1, ZenonT(60) DEF Timeout, CallRecord
    <3>2. CASE Answer(c)
      <4> DEFINE v == IF owners[calls[c].by].turn = "running" /\ jobs[calls[c].job].stored
                      THEN "told" ELSE "lost"
      <4>1. v \in {"idle", "waiting", "released", "left", "told", "lost"}
        BY Zenon
      <4>2. calls' = [calls EXCEPT ![c].st = v]
        BY <3>2, Zenon DEF Answer
      <4> HIDE DEF v
      <4> QED
        BY <1>0, <4>1, <4>2, ZenonT(60) DEF CallRecord
    <3> QED
      BY <1>9, <3>1, <3>2, Zenon
  <2> QED
    BY <1>0, <1>9, <2>1, Zenon DEF Timeout, Answer, TypeOK
<1>10. ASSUME NEW a \in Owners, Prompt(a) \/ Claim(a) \/ EndTurn(a) \/ Unwind(a) \/ Leave(a) PROVE TypeOK'
  <2>1. owners' \in [Owners -> OwnerRecord]
    BY <1>0, <1>10, SMTT(60) DEF Prompt, Claim, EndTurn, Unwind, Leave, OwnerRecord
  <2> QED
    BY <1>0, <1>10, <2>1, Zenon DEF Prompt, Claim, EndTurn, Unwind, Leave, TypeOK
<1>11. ASSUME NEW a \in Owners, NEW keepInbox \in BOOLEAN, Abort(a, keepInbox) \/ Dispose(a) PROVE TypeOK'
  <2>1. owners' \in [Owners -> OwnerRecord]
    BY <1>0, <1>11, SMTT(60) DEF Abort, Dispose, OwnerRecord
  <2>2. calls' \in [Calls -> CallRecord]
    BY <1>11, RejectType, Zenon DEF Abort, Dispose
  <2> QED
    BY <1>0, <1>11, <2>1, <2>2, Zenon DEF Abort, Dispose, TypeOK
<1>12. ASSUME NEW a \in Owners, Cleanup(a) PROVE TypeOK'
  <2>1. owners' \in [Owners -> OwnerRecord]
    <3>1. Owned(a) \in SUBSET Jobs
      BY Zenon DEF Owned
    <3> QED
      BY <1>0, <1>12, <3>1, SMTT(60) DEF Cleanup, OwnerRecord
  <2> QED
    BY <1>0, <1>12, <2>1, CancelType, Zenon DEF Cleanup, TypeOK
<1>13. ASSUME NEW a \in Owners, DropOwned(a) PROVE TypeOK'
  <2>1. owners' \in [Owners -> OwnerRecord]
    <3>1. {} \in SUBSET Jobs
      BY Zenon
    <3> QED
      <4>1. [[owners[a] EXCEPT !.life = "unwound"] EXCEPT !.leaving = {}] \in OwnerRecord
        BY <1>0, <3>1, OwnerUpdates, Zenon
      <4>2. owners' = [owners EXCEPT ![a] = [[owners[a] EXCEPT !.life = "unwound"] EXCEPT !.leaving = {}]]
        BY <1>0, <1>13, Zenon DEF DropOwned
      <4> QED
        BY <1>0, <4>1, <4>2, Zenon
  <2> QED
    BY <1>0, <1>13, <2>1, DropType, Zenon DEF DropOwned, TypeOK
<1>14. CASE DisposeService
  <2>1. Stored \in SUBSET Jobs
    BY Zenon DEF Stored
  <2>2. service' \in [at : {"up", "draining", "closed"}, leaving : SUBSET Jobs]
    BY <1>14, <2>1, SMTT(60) DEF DisposeService
  <2> QED
    BY <1>0, <1>14, <2>2, CancelType, Zenon DEF DisposeService, TypeOK
<1>15. CASE DropAll
  <2>1. service' \in [at : {"up", "draining", "closed"}, leaving : SUBSET Jobs]
    BY <1>15, SMTT(60) DEF DropAll
  <2>2. owners' \in [Owners -> OwnerRecord]
    <3>1. \A a \in Owners : [owners[a] EXCEPT !.hooked = FALSE] \in OwnerRecord
      BY <1>0, OwnerUpdates, Zenon
    <3> QED
      BY <1>15, <3>1, ZenonT(60) DEF DropAll
  <2> QED
    BY <1>0, <1>15, <2>1, <2>2, DropType, Zenon DEF DropAll, TypeOK
<1>17. ASSUME NEW a \in Owners, StartFails(a) PROVE TypeOK'
  <2>1. owners' \in [Owners -> OwnerRecord]
    <3>1. [owners[a] EXCEPT !.hooked = TRUE] \in OwnerRecord
      BY <1>0, OwnerUpdates, Zenon
    <3>2. owners' = [owners EXCEPT ![a] = [owners[a] EXCEPT !.hooked = TRUE]]
      BY <1>17, Zenon DEF StartFails
    <3> QED
      BY <1>0, <3>1, <3>2, Zenon
  <2> QED
    BY <1>0, <1>17, <2>1, Zenon DEF StartFails, TypeOK
<1>16. CASE UNCHANGED vars
  BY <1>16, Zenon DEF vars, TypeOK
<1> QED
  BY <1>17, <1>2, <1>3, <1>4, <1>5, <1>6, <1>7, <1>8, <1>9, <1>10, <1>11, <1>12, <1>13, <1>14, <1>15, <1>16,
     ZenonT(60) DEF Next, UserKill, ModelKill

-------------------------------------------------------------------------------
(* What a step does to the jobs, the calls and the owners, field by field  *)

SameBut(j) == \A x \in Jobs \ {j} : jobs'[x] = jobs[x]

LEMMA RegistrationView ==
    ASSUME TypeOK, NEW j \in Jobs, NEW o \in Owners \cup {none}, Registration(j, o)
    PROVE  /\ SameBut(j)
           /\ jobs'[j].st = "running" /\ jobs'[j].owner = o /\ jobs'[j].stored
           /\ jobs'[j].notices = jobs[j].notices /\ jobs'[j].byModel = jobs[j].byModel
BY SMTT(30) DEF Registration, TypeOK, JobRecord, SameBut

LEMMA KilledView ==
    ASSUME TypeOK, NEW j \in Jobs, NEW byModel \in BOOLEAN, Killed(j, byModel)
    PROVE  /\ SameBut(j)
           /\ jobs'[j].st = "stopping" /\ jobs'[j].owner = jobs[j].owner
           /\ jobs'[j].stored = jobs[j].stored /\ jobs'[j].notices = jobs[j].notices
           /\ jobs'[j].byModel = (jobs[j].byModel \/ byModel)
<1> DEFINE v == jobs[j].byModel \/ byModel
<1>1. jobs' = [jobs EXCEPT ![j].st = "stopping", ![j].cause = "kill", ![j].byModel = v]
  BY Zenon DEF Killed
<1>2. jobs'[j].byModel = v
  <2> HIDE DEF v
  <2> QED
    BY <1>1, SMTT(30) DEF TypeOK, JobRecord
<1>3. SameBut(j)
  BY <1>1, Zenon DEF TypeOK, SameBut
<1>4. /\ jobs'[j].st = "stopping" /\ jobs'[j].owner = jobs[j].owner
      /\ jobs'[j].stored = jobs[j].stored /\ jobs'[j].notices = jobs[j].notices
  <2> HIDE DEF v
  <2> QED
    BY <1>1, SMTT(30) DEF TypeOK, JobRecord
<1> QED
  BY <1>2, <1>3, <1>4, Zenon

LEMMA RemoveView ==
    ASSUME TypeOK, NEW j \in Jobs, Remove(j)
    PROVE  /\ SameBut(j)
           /\ jobs'[j].st = jobs[j].st /\ jobs'[j].owner = jobs[j].owner
           /\ ~jobs'[j].stored /\ jobs'[j].cause = jobs[j].cause
           /\ jobs'[j].notices = jobs[j].notices /\ jobs'[j].byModel = jobs[j].byModel
<1>1. jobs \in [Jobs -> JobRecord] /\ jobs' = [jobs EXCEPT ![j].stored = FALSE]
  BY Zenon DEF Remove, TypeOK
<1>2. SameBut(j)
  BY <1>1, Zenon DEF SameBut
<1> QED
  BY <1>1, <1>2 DEF JobRecord

LEMMA ProduceView ==
    ASSUME TypeOK, NEW j \in Jobs, NEW outcome \in Endings, Produce(j, outcome)
    PROVE  /\ SameBut(j)
           /\ jobs'[j].st = jobs[j].st /\ jobs'[j].owner = jobs[j].owner
           /\ jobs'[j].stored = jobs[j].stored /\ jobs'[j].cause = jobs[j].cause
           /\ jobs'[j].notices = jobs[j].notices /\ jobs'[j].byModel = jobs[j].byModel
BY ZenonT(60) DEF Produce, TypeOK, JobRecord, SameBut

LEMMA SettleView ==
    ASSUME TypeOK, NEW j \in Jobs, Settle(j)
    PROVE  /\ SameBut(j)
           /\ jobs'[j].owner = jobs[j].owner /\ jobs'[j].stored = jobs[j].stored
           /\ jobs'[j].cause = jobs[j].cause /\ jobs'[j].byModel = jobs[j].byModel
           /\ jobs'[j].st = IF Terminal(j) THEN jobs[j].st ELSE jobs[j].done
           /\ jobs'[j].notices = IF ~Terminal(j) /\ Due(j) THEN jobs[j].notices + 1
                                                           ELSE jobs[j].notices
<1>1. jobs[j] \in JobRecord /\ SameBut(j) /\ jobs'[j] = Settled(j)
  BY ZenonT(60) DEF Settle, TypeOK, SameBut
<1>2. CASE Terminal(j)
  <2>1. jobs'[j] = [jobs[j] EXCEPT !.done = "taken"]
    BY <1>1, <1>2, Zenon DEF Settled
  <2> QED
    BY <1>1, <1>2, <2>1, ZenonT(60) DEF JobRecord
<1>3. CASE ~Terminal(j)
  <2> DEFINE n == IF Due(j) THEN jobs[j].notices + 1 ELSE jobs[j].notices
  <2>1. jobs'[j] = [jobs[j] EXCEPT !.done = "taken", !.st = jobs[j].done, !.notices = n]
    BY <1>1, <1>3, ZenonT(60) DEF Settled
  <2>2. jobs'[j].notices = IF ~Terminal(j) /\ Due(j) THEN jobs[j].notices + 1 ELSE jobs[j].notices
    <3>1. jobs'[j].notices = n
      <4> HIDE DEF n
      <4> QED
        BY <1>1, <2>1, ZenonT(60) DEF JobRecord
    <3> QED
      BY <1>3, <3>1, Zenon
  <2> QED
    BY <1>1, <1>3, <2>1, <2>2, ZenonT(60) DEF JobRecord
<1> QED
  BY <1>2, <1>3, Zenon

LEMMA CancelView ==
    ASSUME TypeOK, NEW S \in SUBSET Jobs, NEW broken \in SUBSET S, CancelForTeardown(S, broken)
    PROVE  \A j \in Jobs :
              /\ j \notin S \/ Terminal(j) => jobs'[j] = jobs[j]
              /\ j \in S /\ ~Terminal(j) =>
                    /\ jobs'[j].st = IF j \in broken THEN "failed" ELSE "stopping"
                    /\ jobs'[j].cause = "teardown"
              /\ jobs'[j].owner = jobs[j].owner /\ jobs'[j].stored = jobs[j].stored
              /\ jobs'[j].notices = jobs[j].notices /\ jobs'[j].byModel = jobs[j].byModel
<1> SUFFICES ASSUME NEW j \in Jobs
             PROVE  /\ j \notin S \/ Terminal(j) => jobs'[j] = jobs[j]
                    /\ j \in S /\ ~Terminal(j) =>
                          /\ jobs'[j].st = IF j \in broken THEN "failed" ELSE "stopping"
                          /\ jobs'[j].cause = "teardown"
                    /\ jobs'[j].owner = jobs[j].owner /\ jobs'[j].stored = jobs[j].stored
                    /\ jobs'[j].notices = jobs[j].notices /\ jobs'[j].byModel = jobs[j].byModel
  BY Zenon
<1>1. jobs[j] \in JobRecord
  BY Zenon DEF TypeOK
<1>2. CASE j \notin S \/ Terminal(j)
  BY <1>2, Zenon DEF CancelForTeardown
<1>3. CASE j \in S /\ ~Terminal(j)
  <2> DEFINE v == IF j \in broken THEN "failed" ELSE "stopping"
  <2>1. jobs'[j] = [jobs[j] EXCEPT !.cause = "teardown", !.st = v]
    BY <1>3, Zenon DEF CancelForTeardown
  <2>2. jobs'[j].st = v
    <3> HIDE DEF v
    <3> QED
      BY <1>1, <2>1, ZenonT(60) DEF JobRecord
  <2> QED
    BY <1>1, <1>3, <2>1, <2>2, ZenonT(60) DEF JobRecord
<1> QED
  BY <1>2, <1>3, Zenon

LEMMA DropView ==
    ASSUME TypeOK, NEW S \in SUBSET Jobs, Dropped(S)
    PROVE  \A j \in Jobs :
              /\ jobs'[j].st = jobs[j].st /\ jobs'[j].owner = jobs[j].owner
              /\ jobs'[j].stored = (jobs[j].stored /\ j \notin S)
              /\ jobs'[j].cause = jobs[j].cause /\ jobs'[j].done = jobs[j].done
              /\ jobs'[j].notices = jobs[j].notices /\ jobs'[j].byModel = jobs[j].byModel
<1> SUFFICES ASSUME NEW j \in Jobs
             PROVE  /\ jobs'[j].st = jobs[j].st /\ jobs'[j].owner = jobs[j].owner
                    /\ jobs'[j].stored = (jobs[j].stored /\ j \notin S)
                    /\ jobs'[j].cause = jobs[j].cause /\ jobs'[j].done = jobs[j].done
                    /\ jobs'[j].notices = jobs[j].notices /\ jobs'[j].byModel = jobs[j].byModel
  BY Zenon
<1>1. jobs[j] \in JobRecord
  BY Zenon DEF TypeOK
<1>2. CASE j \in S
  <2>1. jobs'[j] = [jobs[j] EXCEPT !.stored = FALSE]
    BY <1>2, Zenon DEF Dropped
  <2> QED
    BY <1>1, <1>2, <2>1, ZenonT(60) DEF JobRecord
<1>3. CASE j \notin S
  BY <1>1, <1>3, ZenonT(60) DEF Dropped, JobRecord
<1> QED
  BY <1>2, <1>3, Zenon

\* The fields the cleanups depend on.
OwnersKept == \A a \in Owners : /\ owners'[a].life = owners[a].life
                                /\ owners'[a].hooked = owners[a].hooked
                                /\ owners'[a].leaving = owners[a].leaving

LEMMA NotifyView == ASSUME TypeOK, NEW j \in Jobs, Notify(j) PROVE OwnersKept
<1>1. CASE ~Due(j)
  BY <1>1, Zenon DEF Notify, OwnersKept
<1>2. CASE Due(j)
  <2> DEFINE o == jobs[j].owner
             wakes == owners[o].turn = "idle" /\ owners[o].spent < WakeBudget
             t == IF wakes THEN "running" ELSE owners[o].turn
             n == IF wakes THEN owners[o].spent + 1 ELSE owners[o].spent
  <2>1. owners' = [owners EXCEPT ![o].inbox = @ \cup {j}, ![o].turn = t, ![o].spent = n]
    BY <1>2, ZenonT(60) DEF Notify
  <2>2. o \in Owners
    BY <1>2, SMTT(30) DEF Due, TypeOK, JobRecord
  <2>3. owners \in [Owners -> OwnerRecord]
    BY Zenon DEF TypeOK
  <2> DEFINE r == [owners[o] EXCEPT !.inbox = @ \cup {j}, !.turn = t, !.spent = n]
  <2>4. owners' = [owners EXCEPT ![o] = r]
    BY <2>1, <2>2, <2>3 DEF OwnerRecord
  <2> HIDE DEF o, t, n
  <2>5. r.life = owners[o].life /\ r.hooked = owners[o].hooked /\ r.leaving = owners[o].leaving
    BY <2>2, <2>3 DEF OwnerRecord
  <2> HIDE DEF r
  <2> QED
    BY <2>2, <2>3, <2>4, <2>5, Zenon DEF OwnersKept
<1> QED
  BY <1>1, <1>2, Zenon

LEMMA TurnView ==
    ASSUME TypeOK, NEW a \in Owners,
           Prompt(a) \/ Claim(a) \/ EndTurn(a) \/ \E keepInbox \in BOOLEAN : Abort(a, keepInbox)
    PROVE  OwnersKept
<1>1. CASE Prompt(a)
  <2> DEFINE r == [owners[a] EXCEPT !.turn = "running", !.spent = 0, !.inbox = {}]
  <2>1. owners' = [owners EXCEPT ![a] = r]
    BY <1>1 DEF Prompt, TypeOK, OwnerRecord
  <2>2. owners \in [Owners -> OwnerRecord]
    BY Zenon DEF TypeOK
  <2>3. r.life = owners[a].life /\ r.hooked = owners[a].hooked /\ r.leaving = owners[a].leaving
    BY <2>2 DEF OwnerRecord
  <2> HIDE DEF r
  <2> QED
    BY <2>1, <2>2, <2>3, Zenon DEF OwnersKept
<1>4. CASE Claim(a)
  <2> DEFINE r == [owners[a] EXCEPT !.inbox = {}]
  <2>1. owners' = [owners EXCEPT ![a] = r]
    BY <1>4 DEF Claim, TypeOK, OwnerRecord
  <2>2. owners \in [Owners -> OwnerRecord]
    BY Zenon DEF TypeOK
  <2>3. r.life = owners[a].life /\ r.hooked = owners[a].hooked /\ r.leaving = owners[a].leaving
    BY <2>2 DEF OwnerRecord
  <2> HIDE DEF r
  <2> QED
    BY <2>1, <2>2, <2>3, Zenon DEF OwnersKept
<1>2. CASE EndTurn(a)
  <2> DEFINE r == [owners[a] EXCEPT !.turn = "idle"]
  <2>1. owners' = [owners EXCEPT ![a] = r]
    BY <1>2 DEF EndTurn, TypeOK, OwnerRecord
  <2>2. owners \in [Owners -> OwnerRecord]
    BY Zenon DEF TypeOK
  <2>3. r.life = owners[a].life /\ r.hooked = owners[a].hooked /\ r.leaving = owners[a].leaving
    BY <2>2 DEF OwnerRecord
  <2> HIDE DEF r
  <2> QED
    BY <2>1, <2>2, <2>3, Zenon DEF OwnersKept
<1>3. ASSUME NEW keepInbox \in BOOLEAN, Abort(a, keepInbox) PROVE OwnersKept
  <2> DEFINE v == IF keepInbox THEN owners[a].inbox ELSE {}
             r == [owners[a] EXCEPT !.turn = "aborting", !.inbox = v]
  <2>1. owners' = [owners EXCEPT ![a] = r]
    BY <1>3 DEF Abort, TypeOK, OwnerRecord
  <2>2. owners \in [Owners -> OwnerRecord]
    BY Zenon DEF TypeOK
  <2> HIDE DEF v
  <2>3. r.life = owners[a].life /\ r.hooked = owners[a].hooked /\ r.leaving = owners[a].leaving
    BY <2>2 DEF OwnerRecord
  <2> HIDE DEF r
  <2> QED
    BY <2>1, <2>2, <2>3, Zenon DEF OwnersKept
<1> QED
  BY <1>1, <1>2, <1>3, <1>4, Zenon

\* How the calls move: only a parked wait is released or leaves.
CallsReleased(S) == \A c \in Calls :
    /\ calls'[c].job = calls[c].job
    /\ calls'[c].st = IF calls[c].st = "waiting" /\ calls[c].job \in S THEN "released" ELSE calls[c].st

LEMMA ReleaseView ==
    ASSUME TypeOK, NEW S \in SUBSET Jobs, ReleaseWaiters(S)
    PROVE  CallsReleased(S)
<1> SUFFICES ASSUME NEW c \in Calls
             PROVE  /\ calls'[c].job = calls[c].job
                    /\ calls'[c].st = IF calls[c].st = "waiting" /\ calls[c].job \in S
                                      THEN "released" ELSE calls[c].st
  BY Zenon DEF CallsReleased
<1>1. calls[c] \in CallRecord
  BY Zenon DEF TypeOK
<1>2. (\E j \in S : c \in Waiters(j)) <=> calls[c].st = "waiting" /\ calls[c].job \in S
  BY Zenon DEF Waiters
<1>3. CASE calls[c].st = "waiting" /\ calls[c].job \in S
  <2>1. calls'[c] = [calls[c] EXCEPT !.st = "released"]
    BY <1>2, <1>3, Zenon DEF ReleaseWaiters
  <2> QED
    BY <1>1, <1>3, <2>1, ZenonT(60) DEF CallRecord
<1>4. CASE ~(calls[c].st = "waiting" /\ calls[c].job \in S)
  BY <1>2, <1>4, Zenon DEF ReleaseWaiters
<1> QED
  BY <1>3, <1>4, Zenon

LEMMA RejectView ==
    ASSUME TypeOK, NEW a, calls' = Rejected(a)
    PROVE  \A c \in Calls : /\ calls'[c].job = calls[c].job
                            /\ \/ calls'[c].st = calls[c].st
                               \/ calls[c].st = "waiting" /\ calls'[c].st = "left"
<1> SUFFICES ASSUME NEW c \in Calls
             PROVE  /\ calls'[c].job = calls[c].job
                    /\ \/ calls'[c].st = calls[c].st
                       \/ calls[c].st = "waiting" /\ calls'[c].st = "left"
  BY Zenon
<1>1. calls[c] \in CallRecord
  BY Zenon DEF TypeOK
<1>2. CASE calls[c].by = a /\ calls[c].st = "waiting"
  <2>1. calls'[c] = [calls[c] EXCEPT !.st = "left"]
    BY <1>2, Zenon DEF Rejected
  <2> QED
    BY <1>1, <1>2, <2>1, ZenonT(60) DEF CallRecord
<1>3. CASE ~(calls[c].by = a /\ calls[c].st = "waiting")
  BY <1>3, Zenon DEF Rejected
<1> QED
  BY <1>2, <1>3, Zenon

-------------------------------------------------------------------------------
(* The invariant *)

LEMMA InitSound == Init => Sound /\ ReportedOnce
<1> SUFFICES ASSUME Init PROVE Sound /\ ReportedOnce
  OBVIOUS
<1>1. \A j \in Jobs : jobs[j] = Absent
  BY Zenon DEF Init
<1>2. \A j \in Jobs : JobSound(j)
  BY <1>1, SMTT(30) DEF Init, JobSound, Live, Absent
<1>3. \A c \in Calls : calls[c].st = "idle"
  BY SMTT(30) DEF Init
<1>4. \A c \in Calls : CallSound(c)
  BY <1>3, SMTT(30) DEF CallSound
<1>5. \A a \in Owners : OwnerSound(a)
  BY <1>1, SMTT(30) DEF Init, OwnerSound, Owned, Absent
<1>6. ServiceSound
  BY SMTT(30) DEF Init, ServiceSound
<1>7. ReportedOnce
  BY <1>1, SMTT(30) DEF ReportedOnce, Terminal, Absent, Outcomes
<1> QED
  BY <1>2, <1>4, <1>5, <1>6, <1>7, Zenon DEF Sound

\* A step that leaves the jobs alone and moves no call into or out of an answer.
LEMMA QuietStep ==
    ASSUME IInv, jobs' = jobs, killedByModel' = killedByModel,
           \A c \in Calls :
              /\ calls'[c].st # "idle" => calls'[c].job \in Jobs
              /\ calls'[c].st = "waiting" => Live(calls'[c].job)
              /\ calls'[c].st \in {"released", "told", "lost"} =>
                    calls[c].st \in {"released", "told", "lost"} /\ calls'[c].job = calls[c].job
              /\ calls[c].st \in {"released", "told", "lost"} =>
                    calls'[c].st \in {"released", "told", "lost"} /\ calls'[c].job = calls[c].job
    PROVE  /\ \A j \in Jobs : JobSound(j)'
           /\ \A c \in Calls : CallSound(c)'
           /\ ReportedOnce'
<1>1. \A j \in Jobs : JobSound(j)'
  BY Zenon DEF IInv, Sound, JobSound, Live
<1>2. \A c \in Calls : CallSound(c)'
  BY SMTT(30) DEF IInv, Sound, CallSound, Live, Terminal
<1>3. \A j \in Jobs : Awaited(j)' <=> Awaited(j)
  BY SMTT(30) DEF Awaited
<1>4. ReportedOnce'
  BY <1>3, Zenon DEF IInv, ReportedOnce, Terminal
<1> QED
  BY <1>1, <1>2, <1>4, Zenon

LEMMA StartStep ==
    ASSUME IInv, NEW j \in Jobs, NEW o \in Owners \cup {none}, Registration(j, o),
           IF o = none THEN owners' = owners
           ELSE Cleaned(o) /\ owners' = [owners EXCEPT ![o].hooked = TRUE]
    PROVE  Sound' /\ ReportedOnce'
<1>1. /\ SameBut(j)
      /\ jobs'[j].st = "running" /\ jobs'[j].owner = o /\ jobs'[j].stored
      /\ jobs'[j].notices = jobs[j].notices /\ jobs'[j].byModel = jobs[j].byModel
      /\ jobs[j].st = "absent" /\ service.at = "up"
      /\ calls' = calls /\ killedByModel' = killedByModel /\ service' = service
  BY RegistrationView, Zenon DEF IInv, Registration
<1>2. \A x \in Jobs : JobSound(x)'
  BY <1>1, SMTT(30) DEF IInv, Sound, JobSound, Live, SameBut
<1>3. \A c \in Calls : CallSound(c)'
  BY <1>1, SMTT(30) DEF IInv, Sound, CallSound, Live, Terminal, Outcomes, SameBut
<1>4. \A a \in Owners : OwnerSound(a)'
  <2>1. \A a \in Owners : /\ owners'[a].life = owners[a].life
                          /\ owners'[a].leaving = owners[a].leaving
                          /\ a # o => owners'[a] = owners[a]
                          /\ a = o => owners'[a].hooked
    <3>1. CASE o = none
      BY <3>1, Zenon
    <3>2. CASE o # none
      <4>1. owners' = [owners EXCEPT ![o].hooked = TRUE]
        BY <3>2, Zenon
      <4>2. o \in Owners /\ owners \in [Owners -> OwnerRecord]
        BY <3>2, Zenon DEF IInv, TypeOK
      <4>3. \A a \in Owners : a # o => owners'[a] = owners[a]
        BY <4>1, <4>2, Zenon
      <4>4. owners'[o] = [owners[o] EXCEPT !.hooked = TRUE]
        BY <4>1, <4>2, Zenon
      <4>5. owners[o] \in OwnerRecord
        BY <4>2, Zenon
      <4>6. /\ owners'[o].life = owners[o].life /\ owners'[o].leaving = owners[o].leaving
            /\ owners'[o].hooked
        BY <4>4, <4>5, ZenonT(60) DEF OwnerRecord
      <4> QED
        BY <4>3, <4>6, Zenon
    <3> QED
      BY <3>1, <3>2, Zenon
  <2>2. o \in Owners => owners[o].life \in {"live", "closing", "unwinding"}
    BY SMTT(30) DEF Cleaned, ScopeActive, IInv, Sound, OwnerSound
  <2>3. \A a \in Owners : \A x \in Owned(a)' : x \in Owned(a) \/ a = o
    BY <1>1, Zenon DEF Owned, SameBut
  <2>4. ASSUME NEW a \in Owners PROVE OwnerSound(a)'
    <3>1. CASE a = o
      BY <2>1, <2>2, <3>1, Zenon DEF OwnerSound
    <3>2. CASE a # o
      BY <2>1, <2>3, <3>2, Zenon DEF IInv, Sound, OwnerSound
    <3> QED
      BY <3>1, <3>2, Zenon
  <2> QED
    BY <2>4, Zenon
<1>5. ServiceSound'
  BY <1>1, SMTT(30) DEF ServiceSound
<1>6. ReportedOnce'
  BY <1>1, SMTT(30) DEF IInv, ReportedOnce, Awaited, Terminal, Outcomes, SameBut
<1> QED
  BY <1>2, <1>3, <1>4, <1>5, <1>6, Zenon DEF Sound

\* A step that leaves the owners' cleanups and every job's place in the store.
LEMMA OwnersKeptStep ==
    ASSUME IInv, OwnersKept, service' = service,
           \A j \in Jobs : jobs'[j].stored => jobs[j].stored /\ jobs'[j].owner = jobs[j].owner
    PROVE  (\A a \in Owners : OwnerSound(a)') /\ ServiceSound'
<1>1. \A a \in Owners : \A j \in Owned(a)' : j \in Owned(a)
  BY Zenon DEF Owned
<1>2. \A a \in Owners : OwnerSound(a)'
  BY <1>1, Zenon DEF IInv, Sound, OwnerSound, OwnersKept
<1>3. \A j \in Stored' : j \in Stored
  BY Zenon DEF Stored
<1>4. ServiceSound'
  BY <1>3, SMTT(30) DEF IInv, Sound, ServiceSound
<1> QED
  BY <1>2, <1>4, Zenon

LEMMA KilledStep ==
    ASSUME IInv, NEW j \in Jobs, NEW byModel \in BOOLEAN, Killed(j, byModel)
    PROVE  Sound' /\ ReportedOnce'
<1>1. /\ SameBut(j)
      /\ jobs'[j].st = "stopping" /\ jobs'[j].owner = jobs[j].owner
      /\ jobs'[j].stored = jobs[j].stored /\ jobs'[j].notices = jobs[j].notices
      /\ jobs'[j].byModel <=> (jobs[j].byModel \/ byModel)
      /\ Live(j) /\ owners' = owners /\ calls' = calls /\ service' = service
  BY KilledView, Zenon DEF IInv, Killed
<1>2. killedByModel' = IF byModel THEN killedByModel \cup {j} ELSE killedByModel
  BY Zenon DEF Killed
<1>3. \A x \in Jobs : JobSound(x)'
  <2>1. JobSound(j)'
    BY <1>1, <1>2, SMTT(30) DEF IInv, Sound, JobSound, Live
  <2>2. ASSUME NEW x \in Jobs \ {j} PROVE JobSound(x)'
    BY <1>1, <1>2, <2>2, SMTT(30) DEF IInv, Sound, JobSound, Live, SameBut
  <2> QED
    BY <2>1, <2>2, Zenon
<1>4. \A c \in Calls : CallSound(c)'
  BY <1>1, SMTT(30) DEF IInv, Sound, CallSound, Live, Terminal, Outcomes, SameBut
<1>5. (\A a \in Owners : OwnerSound(a)') /\ ServiceSound'
  <2>1. \A x \in Jobs : jobs'[x].stored => jobs[x].stored /\ jobs'[x].owner = jobs[x].owner
    BY <1>1, Zenon DEF SameBut
  <2> QED
    BY <1>1, <2>1, OwnersKeptStep, Zenon DEF OwnersKept
<1>6. ReportedOnce'
  BY <1>1, SMTT(30) DEF IInv, ReportedOnce, Awaited, Terminal, Live, Outcomes, SameBut
<1> QED
  BY <1>3, <1>4, <1>5, <1>6, Zenon DEF Sound

LEMMA RemoveStep ==
    ASSUME IInv, NEW j \in Jobs, Remove(j)
    PROVE  Sound' /\ ReportedOnce'
<1>1. /\ SameBut(j)
      /\ jobs'[j].st = jobs[j].st /\ jobs'[j].owner = jobs[j].owner
      /\ ~jobs'[j].stored /\ jobs'[j].cause = jobs[j].cause
      /\ jobs'[j].notices = jobs[j].notices /\ jobs'[j].byModel = jobs[j].byModel
      /\ Terminal(j) /\ owners' = owners /\ calls' = calls /\ service' = service
      /\ killedByModel' = killedByModel \ {j}
  BY RemoveView, Zenon DEF IInv, Remove
<1>2. \A x \in Jobs : JobSound(x)'
  BY <1>1, SMTT(30) DEF IInv, Sound, JobSound, Live, Terminal, Outcomes, SameBut
<1>3. \A c \in Calls : CallSound(c)'
  BY <1>1, SMTT(30) DEF IInv, Sound, CallSound, Live, Terminal, Outcomes, SameBut
<1>4. (\A a \in Owners : OwnerSound(a)') /\ ServiceSound'
  <2>1. \A x \in Jobs : jobs'[x].stored => jobs[x].stored /\ jobs'[x].owner = jobs[x].owner
    BY <1>1, Zenon DEF SameBut
  <2> QED
    BY <1>1, <2>1, OwnersKeptStep, Zenon DEF OwnersKept
<1>5. ReportedOnce'
  BY <1>1, SMTT(30) DEF IInv, ReportedOnce, Awaited, Terminal, Outcomes, SameBut
<1> QED
  BY <1>2, <1>3, <1>4, <1>5, Zenon DEF Sound

LEMMA ProduceStep ==
    ASSUME IInv, NEW j \in Jobs, NEW outcome \in Endings, Produce(j, outcome)
    PROVE  Sound' /\ ReportedOnce'
<1>1. /\ SameBut(j)
      /\ jobs'[j].st = jobs[j].st /\ jobs'[j].owner = jobs[j].owner
      /\ jobs'[j].stored = jobs[j].stored /\ jobs'[j].cause = jobs[j].cause
      /\ jobs'[j].notices = jobs[j].notices /\ jobs'[j].byModel = jobs[j].byModel
      /\ jobs[j].st # "absent" /\ owners' = owners /\ calls' = calls /\ service' = service
      /\ killedByModel' = killedByModel
  BY ProduceView, Zenon DEF IInv, Produce
<1>2. \A x \in Jobs : JobSound(x)'
  BY <1>1, SMTT(30) DEF IInv, Sound, JobSound, Live, SameBut
<1>3. \A c \in Calls : CallSound(c)'
  BY <1>1, SMTT(30) DEF IInv, Sound, CallSound, Live, Terminal, SameBut
<1>4. (\A a \in Owners : OwnerSound(a)') /\ ServiceSound'
  <2>1. \A x \in Jobs : jobs'[x].stored => jobs[x].stored /\ jobs'[x].owner = jobs[x].owner
    BY <1>1, Zenon DEF SameBut
  <2> QED
    BY <1>1, <2>1, OwnersKeptStep, Zenon DEF OwnersKept
<1>5. ReportedOnce'
  BY <1>1, SMTT(30) DEF IInv, ReportedOnce, Awaited, Terminal, SameBut
<1> QED
  BY <1>2, <1>3, <1>4, <1>5, Zenon DEF Sound

\* The jobs a teardown finds are stored, so they are live or have settled.
LEMMA OwnerIsThere ==
    ASSUME IInv, NEW j \in Jobs, Live(j), jobs[j].owner # none
    PROVE  Registered(jobs[j].owner)
<1>1. jobs[j].owner \in Owners /\ jobs[j].stored
  BY Zenon DEF IInv, TypeOK, JobRecord, Sound, JobSound
<1>2. OwnerSound(jobs[j].owner) /\ j \in Owned(jobs[j].owner)
  BY <1>1, Zenon DEF IInv, Sound, Owned
<1> QED
  BY <1>2, SMTT(30) DEF OwnerSound, Registered

\* What a settlement of the jobs of S means for the calls.
LEMMA ReleaseStep ==
    ASSUME IInv, NEW S \in SUBSET Jobs, CallsReleased(S),
           \A j \in Jobs \ S : (Live(j) => Live(j)') /\ (Terminal(j) => Terminal(j)'),
           \A j \in S : Terminal(j)'
    PROVE  /\ \A c \in Calls : CallSound(c)'
           /\ \A j \in Jobs : Awaited(j)' <=> Awaited(j) \/ (j \in S /\ Waiters(j) # {})
<1>1. \A c \in Calls : CallSound(c)'
  BY SMTT(30) DEF IInv, Sound, CallSound, CallsReleased
<1>2. ASSUME NEW j \in Jobs PROVE Awaited(j)' <=> Awaited(j) \/ (j \in S /\ Waiters(j) # {})
  BY SMTT(30) DEF Awaited, Waiters, CallsReleased
<1> QED
  BY <1>1, <1>2, Zenon

LEMMA SettleStep ==
    ASSUME IInv, NEW j \in Jobs, Settle(j)
    PROVE  Sound' /\ ReportedOnce'
<1>1. /\ SameBut(j)
      /\ jobs'[j].owner = jobs[j].owner /\ jobs'[j].stored = jobs[j].stored
      /\ jobs'[j].cause = jobs[j].cause /\ jobs'[j].byModel = jobs[j].byModel
      /\ jobs'[j].st = IF Terminal(j) THEN jobs[j].st ELSE jobs[j].done
      /\ jobs'[j].notices = IF ~Terminal(j) /\ Due(j) THEN jobs[j].notices + 1 ELSE jobs[j].notices
      /\ jobs[j].done \in Outcomes /\ service' = service
  BY SettleView, Zenon DEF IInv, Settle
<1>2. (\A a \in Owners : OwnerSound(a)') /\ ServiceSound'
  <2>1. \A x \in Jobs : jobs'[x].stored => jobs[x].stored /\ jobs'[x].owner = jobs[x].owner
    BY <1>1, Zenon DEF SameBut
  <2>2. OwnersKept
    <3>1. CASE Terminal(j)
      BY <3>1, Zenon DEF Settle, OwnersKept
    <3>2. CASE ~Terminal(j)
      BY <3>2, NotifyView, Zenon DEF IInv, Settle
    <3> QED
      BY <3>1, <3>2, Zenon
  <2> QED
    BY <1>1, <2>1, <2>2, OwnersKeptStep, Zenon
<1>3. CASE Terminal(j)
  <2>1. owners' = owners /\ calls' = calls /\ killedByModel' = killedByModel
    BY <1>3, Zenon DEF Settle
  <2>2. \A x \in Jobs : JobSound(x)'
    BY <1>1, <1>3, <2>1, SMTT(30) DEF IInv, Sound, JobSound, Live, Terminal, Outcomes, SameBut
  <2>3. \A c \in Calls : CallSound(c)'
    BY <1>1, <1>3, <2>1, SMTT(30) DEF IInv, Sound, CallSound, Live, Terminal, SameBut
  <2>4. ReportedOnce'
    BY <1>1, <1>3, <2>1, SMTT(30) DEF IInv, ReportedOnce, Awaited, Terminal, SameBut
  <2> QED
    BY <1>2, <2>2, <2>3, <2>4, Zenon DEF Sound
<1>4. CASE ~Terminal(j)
  <2>1. killedByModel' = killedByModel \ {j} /\ CallsReleased({j})
    BY <1>4, ReleaseView, Zenon DEF Settle, IInv
  <2>2. Live(j)
    BY <1>1, <1>4, SMTT(30) DEF IInv, TypeOK, JobRecord, Sound, JobSound, Terminal, Live, Outcomes
  <2>3. jobs'[j].st \in Outcomes
    BY <1>1, <1>4, Zenon
  <2>4. \A x \in Jobs : JobSound(x)'
    BY <1>1, <2>1, <2>3, SMTT(30) DEF IInv, Sound, JobSound, Live, Outcomes, SameBut
  <2>5. /\ \A c \in Calls : CallSound(c)'
        /\ \A x \in Jobs : Awaited(x)' <=> Awaited(x) \/ (x \in {j} /\ Waiters(x) # {})
    <3>1. \A x \in Jobs \ {j} : (Live(x) => Live(x)') /\ (Terminal(x) => Terminal(x)')
      BY <1>1, Zenon DEF SameBut, Live, Terminal
    <3>2. \A x \in {j} : Terminal(x)'
      BY <2>3, Zenon DEF Terminal
    <3> QED
      BY <2>1, <3>1, <3>2, ReleaseStep, Zenon
  <2>6. ~Awaited(j)
    BY <1>4, SMTT(30) DEF IInv, Sound, CallSound, Awaited
  <2>7. jobs[j].notices = 0
    BY <1>4, Zenon DEF IInv, ReportedOnce
  <2>8. Due(j) <=> /\ jobs[j].owner # none /\ jobs[j].cause # "teardown"
                   /\ ~jobs[j].byModel /\ Waiters(j) = {}
    <3>1. j \in killedByModel <=> jobs[j].byModel
      BY <2>2, Zenon DEF IInv, Sound, JobSound
    <3>2. jobs[j].owner # none => Registered(jobs[j].owner)
      BY <2>2, OwnerIsThere, Zenon
    <3> QED
      BY <3>1, <3>2, Zenon DEF Due
  <2>9. ReportedOnce'
    <3>1. ASSUME NEW x \in Jobs \ {j}
          PROVE  jobs'[x].notices = IF Terminal(x)' /\ jobs'[x].owner # none /\ jobs'[x].cause # "teardown"
                                       /\ ~jobs'[x].byModel /\ ~Awaited(x)'
                                    THEN 1 ELSE 0
      BY <1>1, <2>5, <3>1, Zenon DEF IInv, ReportedOnce, Terminal, SameBut
    <3>2. jobs'[j].notices = IF Terminal(j)' /\ jobs'[j].owner # none /\ jobs'[j].cause # "teardown"
                                /\ ~jobs'[j].byModel /\ ~Awaited(j)'
                             THEN 1 ELSE 0
      BY <1>1, <1>4, <2>3, <2>5, <2>6, <2>7, <2>8, SMTT(30) DEF Terminal
    <3> QED
      BY <3>1, <3>2, Zenon DEF ReportedOnce
  <2> QED
    BY <1>2, <2>4, <2>5, <2>9, Zenon DEF Sound
<1> QED
  BY <1>3, <1>4, Zenon

\* Both teardowns cancel jobs of the store; what broke settles on the spot.
LEMMA CancelStep ==
    ASSUME IInv, NEW S \in SUBSET Stored, NEW broken \in SUBSET S, CancelForTeardown(S, broken)
    PROVE  /\ \A j \in Jobs : JobSound(j)'
           /\ \A c \in Calls : CallSound(c)'
           /\ ReportedOnce'
           /\ \A j \in Jobs : jobs'[j].stored = jobs[j].stored /\ jobs'[j].owner = jobs[j].owner
<1> DEFINE hit == {j \in S : ~Terminal(j)}
           gone == hit \cap broken
<1>1. S \in SUBSET Jobs /\ gone \in SUBSET Jobs
  BY Zenon DEF Stored
<1>2. /\ \A j \in Jobs \ hit : jobs'[j] = jobs[j]
      /\ \A j \in hit : jobs'[j].st = (IF j \in gone THEN "failed" ELSE "stopping")
                        /\ jobs'[j].cause = "teardown"
      /\ \A j \in Jobs : /\ jobs'[j].owner = jobs[j].owner /\ jobs'[j].stored = jobs[j].stored
                         /\ jobs'[j].notices = jobs[j].notices /\ jobs'[j].byModel = jobs[j].byModel
  <2>1. \A j \in Jobs :
           /\ j \notin S \/ Terminal(j) => jobs'[j] = jobs[j]
           /\ j \in S /\ ~Terminal(j) =>
                 /\ jobs'[j].st = IF j \in broken THEN "failed" ELSE "stopping"
                 /\ jobs'[j].cause = "teardown"
           /\ jobs'[j].owner = jobs[j].owner /\ jobs'[j].stored = jobs[j].stored
           /\ jobs'[j].notices = jobs[j].notices /\ jobs'[j].byModel = jobs[j].byModel
    BY <1>1, CancelView, Zenon DEF IInv
  <2>2. \A j \in Jobs \ hit : jobs'[j] = jobs[j]
    BY <2>1, Zenon
  <2>3. \A j \in hit : jobs'[j].cause = "teardown"
    BY <1>1, <2>1, Zenon
  <2>4. ASSUME NEW j \in hit PROVE jobs'[j].st = IF j \in gone THEN "failed" ELSE "stopping"
    <3>1. j \in gone <=> j \in broken
      BY <2>4, Zenon
    <3>2. j \in Jobs /\ j \in S /\ ~Terminal(j)
      BY <1>1, <2>4, Zenon
    <3> HIDE DEF hit, gone
    <3> QED
      BY <2>1, <3>1, <3>2, Zenon
  <2> HIDE DEF hit, gone
  <2> QED
    BY <2>1, <2>2, <2>3, <2>4, Zenon
<1>3. killedByModel' = killedByModel \ gone /\ CallsReleased(gone)
  BY <1>1, ReleaseView, Zenon DEF CancelForTeardown, IInv
<1>4. \A j \in hit : Live(j) /\ jobs[j].stored
  BY <1>1, SMTT(30) DEF IInv, TypeOK, JobRecord, Sound, JobSound, Terminal, Live, Outcomes, Stored
<1>5. /\ hit \in SUBSET Jobs /\ gone \in SUBSET hit
  BY <1>1, Zenon
<1> HIDE DEF hit, gone
<1>6. \A j \in Jobs : JobSound(j)'
  <2>1. ASSUME NEW j \in hit PROVE JobSound(j)'
    <3>1. jobs'[j].byModel = jobs[j].byModel /\ jobs'[j].stored /\ Live(j)
          /\ jobs'[j].st = (IF j \in gone THEN "failed" ELSE "stopping")
          /\ (j \in killedByModel' <=> j \in killedByModel /\ j \notin gone)
      BY <1>2, <1>3, <1>4, <1>5, <2>1, Zenon
    <3>2. JobSound(j)
      BY <1>5, <2>1, Zenon DEF IInv, Sound
    <3> QED
      BY <3>1, <3>2, SMTT(30) DEF JobSound, Live
  <2>2. ASSUME NEW j \in Jobs \ hit PROVE JobSound(j)'
    <3>1. jobs'[j] = jobs[j] /\ (j \in killedByModel' <=> j \in killedByModel)
      BY <1>2, <1>3, <1>5, <2>2, Zenon
    <3> QED
      BY <3>1, Zenon DEF IInv, Sound, JobSound, Live
  <2> QED
    BY <2>1, <2>2, Zenon
<1>7. /\ \A c \in Calls : CallSound(c)'
      /\ \A j \in Jobs : Awaited(j)' <=> Awaited(j) \/ (j \in gone /\ Waiters(j) # {})
  <2>1. \A j \in Jobs \ gone : (Live(j) => Live(j)') /\ (Terminal(j) => Terminal(j)')
    BY <1>2, <1>4, <1>5, SMTT(30) DEF Live, Terminal, Outcomes
  <2>2. \A j \in gone : Terminal(j)'
    BY <1>2, <1>5, SMTT(30) DEF Terminal, Outcomes
  <2> QED
    BY <1>1, <1>3, <2>1, <2>2, ReleaseStep, Zenon
<1>8. ReportedOnce'
  <2>1. ASSUME NEW j \in hit
        PROVE  jobs'[j].notices = 0 /\ jobs'[j].cause = "teardown"
    <3>1. ~Terminal(j)
      BY <1>4, <2>1, SMTT(30) DEF Live, Terminal, Outcomes
    <3> QED
      BY <1>2, <1>5, <2>1, <3>1, Zenon DEF IInv, ReportedOnce
  <2>2. ASSUME NEW j \in Jobs \ hit
        PROVE  jobs'[j].notices = IF Terminal(j)' /\ jobs'[j].owner # none /\ jobs'[j].cause # "teardown"
                                     /\ ~jobs'[j].byModel /\ ~Awaited(j)'
                                  THEN 1 ELSE 0
    BY <1>2, <1>5, <1>7, <2>2, Zenon DEF IInv, ReportedOnce, Terminal
  <2> QED
    BY <1>5, <2>1, <2>2, Zenon DEF ReportedOnce
<1> QED
  BY <1>2, <1>6, <1>7, <1>8, Zenon

LEMMA DropStep ==
    ASSUME IInv, NEW S \in SUBSET Jobs, Dropped(S), \A j \in S : Terminal(j), calls' = calls
    PROVE  /\ \A j \in Jobs : JobSound(j)'
           /\ \A c \in Calls : CallSound(c)'
           /\ ReportedOnce'
<1>1. \A j \in Jobs :
         /\ jobs'[j].st = jobs[j].st /\ jobs'[j].owner = jobs[j].owner
         /\ jobs'[j].stored = (jobs[j].stored /\ j \notin S)
         /\ jobs'[j].cause = jobs[j].cause /\ jobs'[j].done = jobs[j].done
         /\ jobs'[j].notices = jobs[j].notices /\ jobs'[j].byModel = jobs[j].byModel
  BY DropView, Zenon DEF IInv
<1>2. killedByModel' = killedByModel \ S
  BY Zenon DEF Dropped
<1>3. \A j \in Jobs : JobSound(j)'
  <2> SUFFICES ASSUME NEW j \in Jobs PROVE JobSound(j)'
    BY Zenon
  <2>1. Live(j) => j \notin S
    BY SMTT(30) DEF Live, Terminal, Outcomes
  <2>2. /\ jobs'[j].st = jobs[j].st /\ jobs'[j].byModel = jobs[j].byModel
        /\ jobs'[j].done = jobs[j].done /\ (jobs'[j].stored <=> jobs[j].stored /\ j \notin S)
        /\ (j \in killedByModel' <=> j \in killedByModel /\ j \notin S)
    BY <1>1, <1>2, Zenon
  <2> QED
    BY <2>1, <2>2, Zenon DEF IInv, Sound, JobSound, Live
<1>4. \A c \in Calls : CallSound(c)'
  BY <1>1, SMTT(30) DEF IInv, Sound, CallSound, Live, Terminal
<1>5. ReportedOnce'
  <2>1. \A j \in Jobs : Awaited(j)' <=> Awaited(j)
    BY Zenon DEF Awaited
  <2> QED
    BY <1>1, <2>1, Zenon DEF IInv, ReportedOnce, Terminal
<1> QED
  BY <1>3, <1>4, <1>5, Zenon

LEMMA CleanupStep ==
    ASSUME IInv, NEW a \in Owners, Cleanup(a)
    PROVE  Sound' /\ ReportedOnce'
<1>1. PICK broken \in SUBSET Owned(a) : CancelForTeardown(Owned(a), broken)
  BY Zenon DEF Cleanup
<1>2. Owned(a) \in SUBSET Stored
  BY Zenon DEF Owned, Stored
<1>3. /\ (\A j \in Jobs : JobSound(j)') /\ (\A c \in Calls : CallSound(c)') /\ ReportedOnce'
      /\ \A j \in Jobs : jobs'[j].stored = jobs[j].stored /\ jobs'[j].owner = jobs[j].owner
  BY <1>1, <1>2, CancelStep, Zenon
<1>4. \A b \in Owners : Owned(b)' = Owned(b)
  BY <1>3, Zenon DEF Owned
<1>5. \A b \in Owners : OwnerSound(b)'
  <2>1. /\ owners'[a].life = "draining" /\ ~owners'[a].hooked /\ owners'[a].leaving = Owned(a)
        /\ \A b \in Owners \ {a} : owners'[b] = owners[b]
    <3>1. owners' = [owners EXCEPT ![a].life = "draining", ![a].hooked = FALSE, ![a].leaving = Owned(a)]
      BY Zenon DEF Cleanup
    <3>2. owners \in [Owners -> OwnerRecord]
      BY Zenon DEF IInv, TypeOK
    <3> DEFINE v == Owned(a)
    <3> HIDE DEF v
    <3>3. owners' = [owners EXCEPT ![a].life = "draining", ![a].hooked = FALSE, ![a].leaving = v]
      BY <3>1 DEF v
    <3>4. /\ owners'[a].life = "draining" /\ ~owners'[a].hooked /\ owners'[a].leaving = v
      BY <3>2, <3>3, ZenonT(60) DEF OwnerRecord
    <3>5. \A b \in Owners \ {a} : owners'[b] = owners[b]
      BY <3>2, <3>3, Zenon
    <3> QED
      BY <3>4, <3>5, Zenon DEF v
  <2>2. OwnerSound(a)'
    BY <1>4, <2>1, Zenon DEF OwnerSound
  <2>3. ASSUME NEW b \in Owners \ {a} PROVE OwnerSound(b)'
    BY <1>4, <2>1, <2>3, Zenon DEF IInv, Sound, OwnerSound
  <2> QED
    BY <2>2, <2>3, Zenon
<1>6. ServiceSound'
  <2>1. Stored' = Stored /\ service' = service
    BY <1>3, Zenon DEF Stored, Cleanup
  <2> QED
    BY <2>1, Zenon DEF IInv, Sound, ServiceSound
<1> QED
  BY <1>3, <1>5, <1>6, Zenon DEF Sound

LEMMA DisposeServiceStep ==
    ASSUME IInv, DisposeService
    PROVE  Sound' /\ ReportedOnce'
<1>1. PICK broken \in SUBSET Stored : CancelForTeardown(Stored, broken)
  BY Zenon DEF DisposeService
<1>2. /\ (\A j \in Jobs : JobSound(j)') /\ (\A c \in Calls : CallSound(c)') /\ ReportedOnce'
      /\ \A j \in Jobs : jobs'[j].stored = jobs[j].stored /\ jobs'[j].owner = jobs[j].owner
  BY <1>1, CancelStep, Zenon
<1>3. \A b \in Owners : Owned(b)' = Owned(b)
  BY <1>2, Zenon DEF Owned
<1>4. \A b \in Owners : OwnerSound(b)'
  BY <1>3, Zenon DEF IInv, Sound, OwnerSound, DisposeService
<1>5. ServiceSound'
  <2>1. Stored' = Stored /\ service'.at = "draining" /\ service'.leaving = Stored
    <3>1. Stored' = Stored
      BY <1>2, Zenon DEF Stored
    <3>2. service' = [at |-> "draining", leaving |-> Stored]
      BY Zenon DEF DisposeService
    <3> QED
      BY <3>1, <3>2, Zenon
  <2> QED
    BY <2>1, Zenon DEF ServiceSound
<1> QED
  BY <1>2, <1>4, <1>5, Zenon DEF Sound

LEMMA DropOwnedStep ==
    ASSUME IInv, NEW a \in Owners, DropOwned(a)
    PROVE  Sound' /\ ReportedOnce'
<1>1. /\ owners[a].leaving \in SUBSET Jobs /\ Dropped(owners[a].leaving)
      /\ \A j \in owners[a].leaving : Terminal(j)
      /\ owners[a].life = "draining" /\ calls' = calls /\ service' = service
  BY Zenon DEF DropOwned, OwnedSettled, IInv, TypeOK, OwnerRecord
<1>2. (\A j \in Jobs : JobSound(j)') /\ (\A c \in Calls : CallSound(c)') /\ ReportedOnce'
  BY <1>1, DropStep, Zenon
<1>3. \A j \in Jobs : /\ jobs'[j].owner = jobs[j].owner
                      /\ jobs'[j].stored <=> jobs[j].stored /\ j \notin owners[a].leaving
  BY <1>1, DropView, Zenon DEF IInv
<1>4. \A b \in Owners : OwnerSound(b)'
  <2>1. /\ owners'[a].life = "unwound" /\ owners'[a].hooked = owners[a].hooked
        /\ \A b \in Owners \ {a} : owners'[b] = owners[b]
    <3>1. owners' = [owners EXCEPT ![a].life = "unwound", ![a].leaving = {}]
      BY Zenon DEF DropOwned
    <3>2. owners \in [Owners -> OwnerRecord]
      BY Zenon DEF IInv, TypeOK
    <3>3. owners'[a].life = "unwound" /\ owners'[a].hooked = owners[a].hooked
      BY <3>1, <3>2, ZenonT(60) DEF OwnerRecord
    <3>4. \A b \in Owners \ {a} : owners'[b] = owners[b]
      BY <3>1, <3>2, Zenon
    <3> QED
      BY <3>3, <3>4, Zenon
  <2>2. ~owners[a].hooked /\ \A j \in Owned(a) : j \in owners[a].leaving
    BY <1>1, SMTT(30) DEF IInv, Sound, OwnerSound
  <2>3. OwnerSound(a)'
    <3>1. \A j \in Owned(a)' : FALSE
      BY <1>3, <2>2, Zenon DEF Owned
    <3> QED
      BY <2>1, <2>2, <3>1, Zenon DEF OwnerSound
  <2>4. ASSUME NEW b \in Owners \ {a} PROVE OwnerSound(b)'
    <3>1. \A j \in Owned(b)' : j \in Owned(b)
      BY <1>3, Zenon DEF Owned
    <3> QED
      BY <2>1, <2>4, <3>1, Zenon DEF IInv, Sound, OwnerSound
  <2> QED
    BY <2>3, <2>4, Zenon
<1>5. ServiceSound'
  <2>1. \A j \in Stored' : j \in Stored
    BY <1>3, Zenon DEF Stored
  <2> QED
    BY <1>1, <2>1, SMTT(30) DEF IInv, Sound, ServiceSound
<1> QED
  BY <1>2, <1>4, <1>5, Zenon DEF Sound

LEMMA DropAllStep ==
    ASSUME IInv, DropAll
    PROVE  Sound' /\ ReportedOnce'
<1>1. /\ service.leaving \in SUBSET Jobs /\ Dropped(service.leaving)
      /\ \A j \in service.leaving : Terminal(j)
      /\ service.at = "draining" /\ calls' = calls
      /\ service' = [at |-> "closed", leaving |-> {}]
  BY Zenon DEF DropAll, IInv, TypeOK
<1>2. (\A j \in Jobs : JobSound(j)') /\ (\A c \in Calls : CallSound(c)') /\ ReportedOnce'
  BY <1>1, DropStep, Zenon
<1>3. \A j \in Jobs : ~jobs'[j].stored
  <2>1. \A j \in Jobs : jobs[j].stored => j \in service.leaving
    BY <1>1, Zenon DEF IInv, Sound, ServiceSound, Stored
  <2> QED
    BY <1>1, <2>1, DropView, Zenon DEF IInv
<1>4. \A b \in Owners : OwnerSound(b)'
  <2>1. \A b \in Owners : ~owners'[b].hooked
    BY SMTT(30) DEF DropAll, IInv, TypeOK, OwnerRecord
  <2>2. \A b \in Owners : \A j \in Owned(b)' : FALSE
    BY <1>3, Zenon DEF Owned
  <2> QED
    BY <2>1, <2>2, Zenon DEF OwnerSound
<1>5. ServiceSound'
  <2>1. Stored' = {}
    BY <1>3, Zenon DEF Stored
  <2>2. service'.at = "closed"
    BY <1>1, Zenon
  <2> QED
    BY <2>1, <2>2, SMTT(30) DEF ServiceSound
<1> QED
  BY <1>2, <1>4, <1>5, Zenon DEF Sound

LEMMA CallStep ==
    ASSUME IInv, NEW c \in Calls,
           (\E j \in Jobs, a \in Owners : Wait(c, j, a)) \/ Timeout(c) \/ Answer(c)
    PROVE  Sound' /\ ReportedOnce'
<1>1. /\ jobs' = jobs /\ owners' = owners /\ killedByModel' = killedByModel /\ service' = service
  BY Zenon DEF Wait, Timeout, Answer
<1>2. calls \in [Calls -> CallRecord] /\ calls[c] \in CallRecord
  BY Zenon DEF IInv, TypeOK
<1>3. \A d \in Calls \ {c} : calls'[d] = calls[d]
  BY <1>2, Zenon DEF Wait, Timeout, Answer
<1>4. \/ calls[c].st = "idle" /\ calls'[c].st = "left" /\ calls'[c].job \in Jobs
      \/ calls[c].st = "idle" /\ calls'[c].st = "waiting" /\ calls'[c].job \in Jobs /\ Live(calls'[c].job)
      \/ calls[c].st = "waiting" /\ calls'[c].st = "left" /\ calls'[c].job = calls[c].job
      \/ calls[c].st = "released" /\ calls'[c].st \in {"told", "lost"} /\ calls'[c].job = calls[c].job
  <2>1. ASSUME NEW j \in Jobs, NEW a \in Owners, Wait(c, j, a)
        PROVE  /\ calls[c].st = "idle" /\ calls'[c].job = j
               /\ calls'[c].st = IF Terminal(j) THEN "left" ELSE "waiting"
               /\ ~Terminal(j) => Live(j)
    <3> DEFINE v == IF Terminal(j) THEN "left" ELSE "waiting"
    <3>1. calls[c].st = "idle" /\ calls'[c].job = j /\ calls'[c].st = v
      <4>1. calls'[c] = [st |-> v, by |-> a, job |-> j] /\ calls[c].st = "idle"
        BY <1>2, <2>1, Zenon DEF Wait
      <4> HIDE DEF v
      <4> QED
        BY <4>1, SMTT(30)
    <3>2. ~Terminal(j) => Live(j)
      BY <2>1, SMTT(30) DEF Wait, Visible, IInv, TypeOK, JobRecord, Sound, JobSound, Terminal, Live, Outcomes
    <3> QED
      BY <3>1, <3>2, Zenon
  <2>2. CASE Timeout(c)
    <3>1. calls'[c] = [calls[c] EXCEPT !.st = "left"] /\ calls[c].st = "waiting"
      BY <1>2, <2>2, Zenon DEF Timeout
    <3> QED
      BY <1>2, <3>1, ZenonT(60) DEF CallRecord
  <2>3. CASE Answer(c)
    <3> DEFINE v == IF owners[calls[c].by].turn = "running" /\ jobs[calls[c].job].stored
                    THEN "told" ELSE "lost"
    <3>1. v \in {"told", "lost"}
      BY Zenon
    <3>2. calls'[c] = [calls[c] EXCEPT !.st = v] /\ calls[c].st = "released"
      BY <1>2, <2>3, Zenon DEF Answer
    <3> HIDE DEF v
    <3> QED
      BY <1>2, <3>1, <3>2, ZenonT(60) DEF CallRecord
  <2> QED
    BY <2>1, <2>2, <2>3, Zenon
<1>5. (\A j \in Jobs : JobSound(j)') /\ (\A d \in Calls : CallSound(d)') /\ ReportedOnce'
  <2> DEFINE quiet(d) ==
        /\ calls'[d].st # "idle" => calls'[d].job \in Jobs
        /\ calls'[d].st = "waiting" => Live(calls'[d].job)
        /\ calls'[d].st \in {"released", "told", "lost"} =>
              calls[d].st \in {"released", "told", "lost"} /\ calls'[d].job = calls[d].job
        /\ calls[d].st \in {"released", "told", "lost"} =>
              calls'[d].st \in {"released", "told", "lost"} /\ calls'[d].job = calls[d].job
  <2>1. quiet(c)
    BY <1>4, SMTT(30) DEF IInv, Sound, CallSound
  <2>2. \A d \in Calls \ {c} : quiet(d)
    BY <1>3, Zenon DEF IInv, Sound, CallSound
  <2> QED
    BY <1>1, <2>1, <2>2, QuietStep, Zenon
<1>6. (\A a \in Owners : OwnerSound(a)') /\ ServiceSound'
  BY <1>1, OwnersKeptStep, Zenon DEF OwnersKept
<1> QED
  BY <1>5, <1>6, Zenon DEF Sound

\* A turn or a disposal touches the calls at most by taking its own waits back.
LEMMA OwnerQuiet ==
    ASSUME IInv, NEW a \in Owners, calls' = calls \/ calls' = Rejected(a),
           jobs' = jobs, killedByModel' = killedByModel
    PROVE  (\A j \in Jobs : JobSound(j)') /\ (\A c \in Calls : CallSound(c)') /\ ReportedOnce'
<1>1. \A c \in Calls : /\ calls'[c].job = calls[c].job
                       /\ \/ calls'[c].st = calls[c].st
                          \/ calls[c].st = "waiting" /\ calls'[c].st = "left"
  BY RejectView, Zenon DEF IInv
<1>2. \A c \in Calls :
         /\ calls'[c].st # "idle" => calls'[c].job \in Jobs
         /\ calls'[c].st = "waiting" => Live(calls'[c].job)
         /\ calls'[c].st \in {"released", "told", "lost"} =>
               calls[c].st \in {"released", "told", "lost"} /\ calls'[c].job = calls[c].job
         /\ calls[c].st \in {"released", "told", "lost"} =>
               calls'[c].st \in {"released", "told", "lost"} /\ calls'[c].job = calls[c].job
  BY <1>1, SMTT(30) DEF IInv, Sound, CallSound
<1> QED
  BY <1>2, QuietStep, Zenon

LEMMA TurnStep ==
    ASSUME IInv, NEW a \in Owners,
           Prompt(a) \/ Claim(a) \/ EndTurn(a) \/ \E keepInbox \in BOOLEAN : Abort(a, keepInbox)
    PROVE  Sound' /\ ReportedOnce'
<1>1. /\ jobs' = jobs /\ killedByModel' = killedByModel /\ service' = service
      /\ calls' = calls \/ calls' = Rejected(a)
  BY Zenon DEF Prompt, Claim, EndTurn, Abort
<1>2. (\A b \in Owners : OwnerSound(b)') /\ ServiceSound'
  BY <1>1, TurnView, OwnersKeptStep, Zenon DEF IInv
<1> QED
  BY <1>1, <1>2, OwnerQuiet, Zenon DEF Sound

\* A step of an owner's disposal that leaves its cleanup where it is.
LEMMA DisposalStep ==
    ASSUME IInv, NEW a \in Owners, Dispose(a) \/ Unwind(a) \/ Leave(a)
    PROVE  Sound' /\ ReportedOnce'
<1>1. /\ jobs' = jobs /\ killedByModel' = killedByModel /\ service' = service
      /\ calls' = calls \/ calls' = Rejected(a)
  BY Zenon DEF Dispose, Unwind, Leave
<1>2. owners \in [Owners -> OwnerRecord] /\ owners[a] \in OwnerRecord
  BY Zenon DEF IInv, TypeOK
<1>3. \A b \in Owners \ {a} : owners'[b] = owners[b]
  BY <1>2, ZenonT(60) DEF Dispose, Unwind, Leave
<1>4. owners'[a].hooked = owners[a].hooked /\ owners'[a].leaving = owners[a].leaving
  <2>1. CASE Dispose(a)
    <3> DEFINE v == IF owners[a].turn = "running" THEN "aborting" ELSE owners[a].turn
    <3>1. owners' = [owners EXCEPT ![a].life = "closing", ![a].inbox = {}, ![a].turn = v]
      BY <1>2, <2>1, ZenonT(60) DEF Dispose
    <3> HIDE DEF v
    <3> QED
      BY <1>2, <3>1, ZenonT(60) DEF OwnerRecord
  <2>2. CASE Unwind(a)
    BY <1>2, <2>2, ZenonT(60) DEF Unwind, OwnerRecord
  <2>3. CASE Leave(a)
    <3>1. owners' = [owners EXCEPT ![a].life = "gone", ![a].inbox = {}]
      BY <2>3, Zenon DEF Leave
    <3> QED
      BY <1>2, <3>1, ZenonT(60) DEF OwnerRecord
  <2> QED
    BY <2>1, <2>2, <2>3
<1>5. /\ owners[a].life # "draining"
      /\ owners'[a].life \in {"closing", "unwinding"} \/ ~owners[a].hooked
  <2>1. CASE Dispose(a)
    BY <1>2, <2>1, SMTT(60) DEF Dispose, OwnerRecord
  <2>2. CASE Unwind(a)
    BY <1>2, <2>2, SMTT(60) DEF Unwind, OwnerRecord
  <2>3. CASE Leave(a)
    BY <1>2, <2>3, SMTT(60) DEF Leave, OwnerRecord, IInv, Sound, OwnerSound
  <2> QED
    BY <2>1, <2>2, <2>3
<1>6. \A b \in Owners : OwnerSound(b)'
  <2>1. \A b \in Owners : Owned(b)' = Owned(b)
    BY <1>1, Zenon DEF Owned
  <2>2. OwnerSound(a)'
    <3>1. OwnerSound(a)
      BY Zenon DEF IInv, Sound
    <3> QED
      BY <1>4, <1>5, <2>1, <3>1, SMTT(60) DEF OwnerSound
  <2>3. \A b \in Owners \ {a} : OwnerSound(b)'
    BY <1>3, <2>1, Zenon DEF IInv, Sound, OwnerSound
  <2> QED
    BY <2>2, <2>3, Zenon
<1>7. ServiceSound'
  BY <1>1, Zenon DEF IInv, Sound, ServiceSound, Stored
<1> QED
  BY <1>1, <1>6, <1>7, OwnerQuiet, Zenon DEF Sound

\* A start that fails attaches the cleanup where a disposal will still find it.
LEMMA StartFailsStep ==
    ASSUME IInv, NEW a \in Owners, StartFails(a)
    PROVE  Sound' /\ ReportedOnce'
<1>1. /\ jobs' = jobs /\ killedByModel' = killedByModel /\ service' = service /\ calls' = calls
      /\ owners' = [owners EXCEPT ![a].hooked = TRUE]
  BY Zenon DEF StartFails
<1>2. owners \in [Owners -> OwnerRecord] /\ owners[a] \in OwnerRecord
  BY Zenon DEF IInv, TypeOK
<1>3. \A b \in Owners \ {a} : owners'[b] = owners[b]
  BY <1>1, <1>2, ZenonT(60)
<1>4. /\ owners'[a].hooked /\ owners'[a].life = owners[a].life
  BY <1>1, <1>2, ZenonT(60) DEF OwnerRecord
<1>5. owners[a].life \in {"live", "closing", "unwinding"}
  BY SMTT(30) DEF StartFails, Cleaned, ScopeActive, IInv, Sound, OwnerSound
<1>6. \A b \in Owners : OwnerSound(b)'
  <2>1. \A b \in Owners : Owned(b)' = Owned(b)
    BY <1>1, Zenon DEF Owned
  <2>2. OwnerSound(a)'
    BY <1>4, <1>5, Zenon DEF OwnerSound
  <2>3. \A b \in Owners \ {a} : OwnerSound(b)'
    BY <1>3, <2>1, Zenon DEF IInv, Sound, OwnerSound
  <2> QED
    BY <2>2, <2>3, Zenon
<1>7. ServiceSound'
  BY <1>1, Zenon DEF IInv, Sound, ServiceSound, Stored
<1> QED
  BY <1>1, <1>6, <1>7, OwnerQuiet, Zenon DEF Sound

LEMMA StutterStep == ASSUME IInv, UNCHANGED vars PROVE Sound' /\ ReportedOnce'
<1>1. jobs' = jobs /\ owners' = owners /\ calls' = calls /\ killedByModel' = killedByModel
      /\ service' = service
  BY Zenon DEF vars
<1>2. \A a \in Owners : Owned(a)' = Owned(a)
  BY <1>1, Zenon DEF Owned
<1>3. (\A j \in Jobs : JobSound(j)') /\ (\A c \in Calls : CallSound(c)')
  BY <1>1, Zenon DEF IInv, Sound, JobSound, CallSound, Live, Terminal
<1>4. (\A a \in Owners : OwnerSound(a)') /\ ServiceSound'
  BY <1>1, <1>2, Zenon DEF IInv, Sound, OwnerSound, ServiceSound, Stored
<1>5. ReportedOnce'
  BY <1>1, Zenon DEF IInv, ReportedOnce, Awaited, Terminal
<1> QED
  BY <1>3, <1>4, <1>5, Zenon DEF Sound

LEMMA SoundStep == IInv /\ [Next]_vars => Sound' /\ ReportedOnce'
<1> SUFFICES ASSUME IInv, [Next]_vars PROVE Sound' /\ ReportedOnce'
  OBVIOUS
<1>1. ASSUME NEW j \in Jobs, StartUnowned(j) PROVE Sound' /\ ReportedOnce'
  BY <1>1, StartStep, Zenon DEF StartUnowned
<1>2. ASSUME NEW j \in Jobs, NEW a \in Owners, Start(j, a) PROVE Sound' /\ ReportedOnce'
  <2>1. a # none
    OBVIOUS
  <2> QED
    BY <1>2, <2>1, StartStep, Zenon DEF Start
<1>3. ASSUME NEW j \in Jobs, UserKill(j) \/ \E a \in Owners : ModelKill(j, a)
      PROVE  Sound' /\ ReportedOnce'
  BY <1>3, KilledStep, Zenon DEF UserKill, ModelKill
<1> QED
  BY <1>1, <1>2, <1>3, RemoveStep, ProduceStep, SettleStep, CallStep, TurnStep, DisposalStep, StartFailsStep, CleanupStep,
     DropOwnedStep, DisposeServiceStep, DropAllStep, StutterStep, ZenonT(60) DEF Next

\* The invariant is inductive.
THEOREM Inductive == Spec => []IInv
<1>1. Init => IInv
  BY InitType, InitSound DEF IInv
<1>2. IInv /\ [Next]_vars => IInv'
  BY TypeStep, SoundStep DEF IInv
<1> QED
  BY <1>1, <1>2, PTL DEF Spec

-------------------------------------------------------------------------------
(* The properties *)

\* Every variable stays in its type, and the wakes an owner is given by
\* completions stay within maxConsecutiveWakes.
THEOREM TypeCorrect == Spec => []TypeOK
<1>1. IInv => TypeOK
  BY DEF IInv
<1> QED
  BY <1>1, Inductive, PTL

\* Every completion is reported by exactly one of the three ways, for any
\* number of jobs, waits, aborted turns and teardowns.
THEOREM ReportedExactlyOnce == Spec => []ReportedOnce
<1>1. IInv => ReportedOnce
  BY DEF IInv
<1> QED
  BY <1>1, Inductive, PTL

\* No settlement, forced or not, leaves a parked wait behind.
THEOREM WaitersHeard == Spec => []NoLostWaiter
<1>1. IInv => NoLostWaiter
  BY Zenon DEF IInv, Sound, CallSound, NoLostWaiter
<1> QED
  BY <1>1, Inductive, PTL

\* Nothing an owner started is listed or runs once it has left the registry of
\* agents, and nothing at all once the service's disposal is over.
THEOREM NothingOutlives == Spec => []NoOrphan
<1>1. IInv => NoOrphan
  <2> SUFFICES ASSUME IInv PROVE NoOrphan
    OBVIOUS
  <2>1. \A j \in Jobs : Live(j) => jobs[j].stored
    BY Zenon DEF IInv, Sound, JobSound
  <2>2. ASSUME NEW a \in Owners, ~Registered(a), NEW j \in Jobs, jobs[j].owner = a
        PROVE  ~jobs[j].stored
    <3>1. \A x \in Owned(a) : FALSE
      BY <2>2, SMTT(30) DEF IInv, Sound, OwnerSound, Registered
    <3> QED
      BY <2>2, <3>1, Zenon DEF Owned
  <2>3. service.at = "closed" => \A j \in Jobs : ~jobs[j].stored
    BY Zenon DEF IInv, Sound, ServiceSound, Stored
  <2> QED
    BY <2>1, <2>2, <2>3, Zenon DEF NoOrphan
<1> QED
  BY <1>1, Inductive, PTL

-------------------------------------------------------------------------------
(* The registry implements the contract *)

phaseOf(j) == IF jobs[j].st = "absent" \/ jobs[j].stored THEN jobs[j].st ELSE "dropped"

\* What one step can do to one job.
Advances(j) ==
    \/ jobs'[j].st = jobs[j].st /\ (jobs'[j].stored <=> jobs[j].stored)
    \/ jobs[j].st = "absent" /\ jobs'[j].st = "running" /\ jobs'[j].stored
    \/ Live(j) /\ jobs'[j].st \in {"stopping"} \cup Outcomes /\ (jobs'[j].stored <=> jobs[j].stored)
    \/ Terminal(j) /\ jobs'[j].st = jobs[j].st /\ ~jobs'[j].stored

LEMMA JobsAdvance ==
    ASSUME IInv, [Next]_vars, NEW x \in Jobs
    PROVE  Advances(x)
<1>1. ASSUME NEW j \in Jobs, NEW o \in Owners \cup {none}, Registration(j, o) PROVE Advances(x)
  BY <1>1, RegistrationView, Zenon DEF IInv, SameBut, Advances, Registration
<1>2. ASSUME NEW j \in Jobs, NEW byModel \in BOOLEAN, Killed(j, byModel) PROVE Advances(x)
  BY <1>2, KilledView, Zenon DEF IInv, SameBut, Advances, Killed
<1>3. ASSUME NEW j \in Jobs, Remove(j) PROVE Advances(x)
  BY <1>3, RemoveView, Zenon DEF IInv, SameBut, Advances, Remove
<1>4. ASSUME NEW j \in Jobs, NEW outcome \in Endings, Produce(j, outcome) PROVE Advances(x)
  BY <1>4, ProduceView, Zenon DEF IInv, SameBut, Advances
<1>5. ASSUME NEW j \in Jobs, Settle(j) PROVE Advances(x)
  <2>1. /\ SameBut(j) /\ jobs'[j].stored = jobs[j].stored
        /\ jobs'[j].st = IF Terminal(j) THEN jobs[j].st ELSE jobs[j].done
    BY <1>5, SettleView, Zenon DEF IInv
  <2>2. jobs[j].done \in Outcomes
    BY <1>5, Zenon DEF Settle
  <2>3. ~Terminal(j) => Live(j)
    BY <2>2, SMTT(30) DEF IInv, TypeOK, JobRecord, Sound, JobSound, Terminal, Live, Outcomes
  <2> QED
    BY <2>1, <2>2, <2>3, Zenon DEF SameBut, Advances
<1>6. ASSUME NEW S \in SUBSET Stored, NEW broken \in SUBSET S, CancelForTeardown(S, broken)
      PROVE  Advances(x)
  <2>1. /\ x \notin S \/ Terminal(x) => jobs'[x] = jobs[x]
        /\ x \in S /\ ~Terminal(x) => jobs'[x].st = IF x \in broken THEN "failed" ELSE "stopping"
        /\ jobs'[x].stored = jobs[x].stored
    <3>1. S \in SUBSET Jobs
      BY Zenon DEF Stored
    <3>2. \A j \in Jobs :
             /\ j \notin S \/ Terminal(j) => jobs'[j] = jobs[j]
             /\ j \in S /\ ~Terminal(j) =>
                   /\ jobs'[j].st = IF j \in broken THEN "failed" ELSE "stopping"
                   /\ jobs'[j].cause = "teardown"
             /\ jobs'[j].owner = jobs[j].owner /\ jobs'[j].stored = jobs[j].stored
             /\ jobs'[j].notices = jobs[j].notices /\ jobs'[j].byModel = jobs[j].byModel
      BY <1>6, <3>1, CancelView, Zenon DEF IInv
    <3> QED
      BY <3>2, Zenon
  <2>2. x \in S /\ ~Terminal(x) => Live(x)
    BY SMTT(30) DEF IInv, TypeOK, JobRecord, Sound, JobSound, Terminal, Live, Outcomes, Stored
  <2> QED
    BY <2>1, <2>2, SMTT(30) DEF Advances, Outcomes
<1>7. ASSUME NEW S \in SUBSET Jobs, Dropped(S), \A j \in S : Terminal(j) PROVE Advances(x)
  <2>1. jobs'[x].st = jobs[x].st /\ (jobs'[x].stored <=> jobs[x].stored /\ x \notin S)
    BY <1>7, DropView, Zenon DEF IInv
  <2> QED
    BY <1>7, <2>1, Zenon DEF Advances
<1>8. ASSUME jobs' = jobs PROVE Advances(x)
  BY <1>8, Zenon DEF Advances
<1>9. ASSUME NEW a \in Owners, Cleanup(a) PROVE Advances(x)
  <2>1. Owned(a) \in SUBSET Stored
    BY Zenon DEF Owned, Stored
  <2> QED
    BY <1>6, <1>9, <2>1, Zenon DEF Cleanup
<1>10. ASSUME NEW a \in Owners, DropOwned(a) PROVE Advances(x)
  <2>1. owners[a].leaving \in SUBSET Jobs
    BY Zenon DEF IInv, TypeOK, OwnerRecord
  <2> QED
    BY <1>7, <1>10, <2>1, Zenon DEF DropOwned, OwnedSettled
<1>11. CASE DisposeService
  BY <1>6, <1>11, Zenon DEF DisposeService
<1>12. CASE DropAll
  <2>1. service.leaving \in SUBSET Jobs
    BY Zenon DEF IInv, TypeOK
  <2> QED
    BY <1>7, <1>12, <2>1, Zenon DEF DropAll
<1>13. ASSUME NEW c \in Calls, NEW j \in Jobs, NEW a \in Owners, Wait(c, j, a) PROVE Advances(x)
  BY <1>8, <1>13, Zenon DEF Wait
<1>14. ASSUME NEW c \in Calls, Timeout(c) \/ Answer(c) PROVE Advances(x)
  BY <1>8, <1>14, Zenon DEF Timeout, Answer
<1>15. ASSUME NEW a \in Owners,
              \/ Prompt(a) \/ Claim(a) \/ EndTurn(a) \/ \E keepInbox \in BOOLEAN : Abort(a, keepInbox)
              \/ Dispose(a) \/ Unwind(a) \/ Leave(a) \/ StartFails(a)
       PROVE  Advances(x)
  BY <1>8, <1>15, Zenon DEF Prompt, Claim, EndTurn, Abort, Dispose, Unwind, Leave, StartFails
<1>16. CASE UNCHANGED vars
  BY <1>8, <1>16, Zenon DEF vars
<1> QED
  BY <1>1, <1>2, <1>3, <1>4, <1>5, <1>9, <1>10, <1>11, <1>12, <1>13, <1>14, <1>15, <1>16,
     ZenonT(60) DEF Next, StartUnowned, Start, UserKill, ModelKill

\* Every step of the registry, whichever jobs it touches, moves each of them
\* along its contract: settlement is final and nothing running is dropped.
THEOREM ContractRefined == Spec => ContractKept
<1>1. Init => Contract!Init
  <2>1. ASSUME Init, NEW j \in Jobs PROVE phaseOf(j) = "absent"
    BY <2>1, SMTT(30) DEF Init, Absent, phaseOf
  <2> QED
    BY <2>1, Zenon DEF Contract!Init, phaseOf
<1>2. IInv /\ IInv' /\ [Next]_vars => [Contract!Next]_([j \in Jobs |-> phaseOf(j)])
  <2> SUFFICES ASSUME IInv, [Next]_vars PROVE Contract!Next
    BY Zenon
  <2>1. ASSUME NEW j \in Jobs PROVE phaseOf(j)' = phaseOf(j) \/ Contract!Moves(phaseOf(j), phaseOf(j)')
    <3>1. Advances(j) /\ JobSound(j)
      BY JobsAdvance, Zenon DEF IInv, Sound
    <3> QED
      BY <3>1, SMTT(60) DEF Advances, JobSound, Live, Terminal, phaseOf, Contract!Moves, Contract!Outcomes, Outcomes
  <2> QED
    BY <2>1, Zenon DEF Contract!Next, phaseOf
<1> QED
  BY <1>1, <1>2, Inductive, PTL DEF Spec, ContractKept, Contract!Spec, phaseOf
===============================================================================
