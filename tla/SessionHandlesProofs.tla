------------------------- MODULE SessionHandlesProofs -------------------------
(***************************************************************************)
(* Theorems about SessionHandles, for any processes, handles and events.   *)
(***************************************************************************)
EXTENDS SessionHandles, SequenceTheorems, TLAPS

USE BoundAssumption, NoneAssumption
USE DEF Exists, Proc

IInv == TypeOK /\ Ordered

\* The parts of the type invariant, as the steps disturb them.
TypeFile == file \in [made : BOOLEAN, full : Seq(Events), torn : BOOLEAN, tail : Seq(Events)]
TypeShared ==
    /\ lock \in Handles \cup {none}
    /\ writers \in [Procs -> Handles \cup {none}]
    /\ pending \in [Procs -> BOOLEAN]
    /\ acked \in Nat
    /\ stray \in BOOLEAN
TypeAt == at \in [Handles -> [proc : Procs \cup {none},
                              st : {"unused", "creating", "claimed", "locked", "read", "failing", "open", "closed", "gone"},
                              lease : {"none", "held", "released"}]]
TypeState == state \in [Handles -> [cursor : Nat, made : BOOLEAN, torn : BOOLEAN, recovered : Seq(Events)]]
TypeBuf == buf \in [Handles -> [events : Seq(Events), timer : BOOLEAN, paused : BOOLEAN,
                                drain : {"none", "queued", "ended", "failed"}]]
TypeWork == work \in [Handles -> [chain : Seq(Ops), stage : Stages, batch : Seq(Events)]]
TypeOwner == owner \in [Handles -> [live : BOOLEAN, last : Nat,
                                    append : {"none", "queued", "failed"}, suffix : Seq(Events)]]
TypeFlush == flush \in [Handles -> [st : {"none", "drain", "drained", "queued", "done", "failed"},
                                    kind : {"session", "all"}, upTo : Int, seen : Int]]
TypeClose == close \in [Handles -> [st : {"no", "drain", "look", "tail", "release", "done"},
                                    wait : Nat, failed : BOOLEAN, upTo : Int]]
Types == TypeFile /\ TypeShared /\ TypeAt /\ TypeState /\ TypeBuf /\ TypeWork /\ TypeOwner
         /\ TypeFlush /\ TypeClose

LEMMA TypesAre == TypeOK <=> Types /\ \A h \in Handles : LeaseFits(h)
BY DEF TypeOK, Types, TypeFile, TypeShared, TypeAt, TypeState, TypeBuf, TypeWork, TypeOwner, TypeFlush, TypeClose

LEMMA TypesAreNext == TypeOK' <=> Types' /\ \A h \in Handles : LeaseFits(h)'
BY DEF TypeOK, Types, TypeFile, TypeShared, TypeAt, TypeState, TypeBuf, TypeWork, TypeOwner, TypeFlush, TypeClose

\* A span within the session's events is a sequence of them.
LEMMA SpanType ==
    ASSUME NEW a \in Nat, NEW b \in Nat, a >= 1, b <= MaxEvents
    PROVE  Span(a, b) \in Seq(Events)
<1> DEFINE n == IF b >= a THEN b - a + 1 ELSE 0
<1>1. n \in Nat /\ 1 .. (b - a + 1) = 1 .. n
  OBVIOUS
<1>2. Span(a, b) \in [1 .. n -> Events]
  BY <1>1 DEF Span, Events
<1> QED
  BY <1>1, <1>2 DEF Events

-------------------------------------------------------------------------------
(* The chain *)

Safe(h) == Working(h) /\ Leased(h) /\ OneDrain(h) /\ Waited(h)

\* A step of another handle leaves h as it is.
LEMMA Frame ==
    ASSUME NEW h \in Handles, Safe(h), TypeShared, stray' \in BOOLEAN,
           at'[h] = at[h], work'[h] = work[h], buf'[h] = buf[h], close'[h] = close[h],
           lock = h => lock' = h, stray => stray'
    PROVE  Safe(h)'
<1>1. Working(h)'
  BY DEF Safe, Working, NoWork, NoBuffer, NotClosing
<1>2. Leased(h)'
  BY DEF Safe, Leased, LeaseFits, Releasing
<1>3. OneDrain(h)'
  BY DEF Safe, OneDrain
<1>4. Waited(h)'
  BY DEF Safe, Waited, PastLastLook, TypeShared
<1> QED
  BY <1>1, <1>2, <1>3, <1>4 DEF Safe

\* The chain of a settled operation, and of a drain that goes on.
LEMMA ChainType ==
    ASSUME NEW s \in Seq(Ops), s # <<>>
    PROVE  /\ Head(s) \in Ops /\ Tail(s) \in Seq(Ops)
           /\ Len(Tail(s)) = Len(s) - 1 /\ Len(s) \in Nat \ {0}
           /\ \A i \in 1 .. Len(Tail(s)) : Tail(s)[i] = s[i + 1]
           /\ s[1] = Head(s)
OBVIOUS

LEMMA SettleTypes ==
    ASSUME NEW h \in Handles, NEW ok \in BOOLEAN, Types, work[h].chain # <<>>, Settle(h, ok)
    PROVE  TypeBuf' /\ TypeWork' /\ TypeOwner' /\ TypeFlush' /\ TypeClose'
<1> DEFINE op == Head(work[h].chain)
           rest == Tail(work[h].chain)
           again == op = "drain" /\ ok /\ buf[h].events # <<>>
<1>1. work[h].chain \in Seq(Ops) /\ work[h].batch \in Seq(Events) /\ buf[h].events \in Seq(Events)
  BY DEF Types, TypeWork, TypeBuf
<1>2. op \in Ops /\ rest \in Seq(Ops) /\ Append(rest, "drain") \in Seq(Ops)
  BY <1>1, ChainType DEF Ops
<1>3. work[h].batch \o buf[h].events \in Seq(Events)
  BY <1>1
<1>4. TypeWork'
  <2>1. ASSUME NEW chain \in Seq(Ops)
        PROVE  [NoWork EXCEPT !.chain = chain] \in [chain : Seq(Ops), stage : Stages, batch : Seq(Events)]
    <3>1. <<>> \in Seq(Events) /\ "idle" \in Stages
      BY DEF Stages, Writes
    <3>2. [NoWork EXCEPT !.chain = chain] = [chain |-> chain, stage |-> "idle", batch |-> <<>>]
      BY DEF NoWork
    <3> QED
      BY <3>1, <3>2
  <2> QED
    BY <2>1, <1>2 DEF Settle, Types, TypeWork
<1>5. TypeBuf'
  BY ZenonT(120), <1>3 DEF Settle, Types, TypeBuf
<1>6. TypeOwner'
  <2>1. <<>> \in Seq(Events)
    OBVIOUS
  <2> QED
    BY ZenonT(120), <2>1 DEF Settle, Types, TypeOwner
<1>7. TypeFlush'
  BY DEF Settle, Refused, Types, TypeFlush
<1>8. TypeClose'
  <2>1. close[h].wait \in Nat
    BY DEF Types, TypeClose
  <2>2. (IF close[h].wait = 0 THEN 0 ELSE close[h].wait - 1) \in Nat
    BY <2>1
  <2> QED
    BY <2>2 DEF Settle, Types, TypeClose
<1> QED
  BY <1>4, <1>5, <1>6, <1>7, <1>8

LEMMA SettleSafe ==
    ASSUME NEW h \in Handles, NEW ok \in BOOLEAN, Types, Safe(h), Exists(h), work[h].chain # <<>>,
           Settle(h, ok), at'[h] = at[h], lock = h => lock' = h, stray' = stray,
           work[h].stage = "idle" => ~AwaitedChain(h) /\ Head(work[h].chain) # "drain"
    PROVE  Safe(h)'
<1> DEFINE op == Head(work[h].chain)
           rest == Tail(work[h].chain)
           again == op = "drain" /\ ok /\ buf[h].events # <<>>
<1>1. work[h].chain \in Seq(Ops) /\ close[h].wait \in Nat
  BY DEF Types, TypeWork, TypeClose
<1>2. /\ op \in Ops /\ rest \in Seq(Ops) /\ Len(rest) = Len(work[h].chain) - 1
      /\ Len(work[h].chain) \in Nat \ {0} /\ work[h].chain[1] = op
  BY <1>1, ChainType
<1>3. \A i \in 1 .. Len(rest) : rest[i] = work[h].chain[i + 1]
  BY <1>1, ChainType
<1>4. /\ work'[h].chain = IF again THEN Append(rest, "drain") ELSE rest
      /\ work'[h].stage = "idle"
  BY DEF Settle, NoWork, Types, TypeWork
<1>5. /\ op # "drain" => buf'[h] = buf[h]
      /\ again => buf'[h].drain = "queued" /\ buf'[h].events = buf[h].events
  BY DEF Settle, Types, TypeBuf
<1>6. /\ close'[h].wait = (IF close[h].wait = 0 THEN 0 ELSE close[h].wait - 1)
      /\ close'[h].st = close[h].st
  BY DEF Settle, Types, TypeClose
<1>7. op = "drain" => \A i \in 1 .. Len(rest) : rest[i] # "drain"
  BY <1>1, <1>2, <1>3 DEF Safe, OneDrain
<1>8. op = "drain" => buf[h].drain = "queued"
  BY <1>1, <1>2 DEF Safe, OneDrain
<1>9. Working(h)'
  BY <1>4 DEF Working
<1>10. Leased(h)'
  BY <1>4, <1>6 DEF Leased, LeaseFits, Releasing, Safe, Writes
<1>11. OneDrain(h)'
  <2>1. CASE again
    <3>1. \A i \in 1 .. Len(work'[h].chain) : work'[h].chain[i] = "drain" => i = Len(rest) + 1
      BY <2>1, <1>2, <1>4, <1>7
    <3> QED
      BY <2>1, <3>1, <1>2, <1>4, <1>5 DEF OneDrain
  <2>2. CASE ~again /\ op = "drain"
    BY <2>2, <1>4, <1>7 DEF OneDrain
  <2>3. CASE op # "drain"
    <3>1. \A i \in 1 .. Len(rest) : i + 1 \in 1 .. Len(work[h].chain)
      BY <1>2
    <3>2. work'[h].chain = rest /\ buf'[h].drain = buf[h].drain
      BY <2>3, <1>4, <1>5
    <3> QED
      BY <2>3, <3>1, <3>2, <1>2, <1>3 DEF OneDrain, Safe
  <2> QED
    BY <2>1, <2>2, <2>3
<1>12. Waited(h)'
  <2>1. (close'[h].st = "done") <=> (at'[h].st = "closed")
    BY <1>6 DEF Safe, Waited
  <2>2. ASSUME ~stray', close'[h].st = "look", buf[h].drain # "queued"
        PROVE  buf'[h].drain # "queued" /\ Len(work'[h].chain) = close'[h].wait
    <3>1. op # "drain"
      BY <2>2, <1>8
    <3> QED
      BY <2>2, <3>1, <1>2, <1>4, <1>5, <1>6, <1>1 DEF Safe, Waited
  <2>3. ASSUME ~stray', close'[h].st = "look", buf[h].drain = "queued"
        PROVE  /\ buf'[h].drain = "queued" /\ Len(work'[h].chain) = close'[h].wait + 1
               /\ work'[h].chain[Len(work'[h].chain)] = "drain"
               /\ buf'[h].events # <<>>
    <3>1. /\ Len(work[h].chain) = close[h].wait + 1
          /\ work[h].chain[Len(work[h].chain)] = "drain"
          /\ buf[h].events # <<>>
          /\ close[h].wait = 0 => work[h].stage = "idle"
      BY <2>3, <1>6 DEF Safe, Waited
    <3>2. close[h].wait # 0
      BY <2>3, <3>1, <1>6 DEF AwaitedChain
    <3>3. op # "drain"
      <4> DEFINE n == Len(work[h].chain)
      <4>1. n \in Nat /\ n > 1
        BY <3>1, <3>2, <1>1
      <4>2. 1 # n /\ 1 \in 1 .. n /\ n \in 1 .. n
        <5> HIDE DEF n
        <5> QED
          BY <4>1
      <4> QED
        BY <4>2, <3>1, <1>2 DEF Safe, OneDrain
    <3>4. Len(rest) \in Nat /\ Len(rest) > 0 /\ Len(rest) + 1 = Len(work[h].chain)
      BY <3>1, <3>2, <1>1, <1>2
    <3>5. work'[h].chain = rest /\ buf'[h] = buf[h]
      BY <3>3, <1>4, <1>5
    <3>6. rest[Len(rest)] = "drain"
      BY <3>1, <3>4, <1>3
    <3>7. Len(rest) = close'[h].wait + 1
      <4>1. close'[h].wait = close[h].wait - 1
        BY <3>2, <1>6
      <4>2. Len(rest) = close[h].wait
        BY <3>1, <1>1, <1>2
      <4> HIDE DEF rest
      <4> QED
        BY <4>1, <4>2, <1>1
    <3> QED
      BY <3>1, <3>5, <3>6, <3>7, <2>3
  <2>4. ASSUME ~stray', PastLastLook(h)'
        PROVE  buf'[h].drain # "queued" /\ Len(work'[h].chain) = close'[h].wait
    <3>1. PastLastLook(h)
      BY <2>4, <1>6 DEF PastLastLook
    <3>2. buf[h].drain # "queued" /\ Len(work[h].chain) = close[h].wait
      BY <2>4, <3>1 DEF Safe, Waited
    <3>3. op # "drain"
      BY <3>2, <1>8
    <3> QED
      BY <3>2, <3>3, <1>1, <1>2, <1>4, <1>5, <1>6
  <2>5. close'[h].st \in {"release", "done"} => close'[h].wait = 0
    BY <1>6 DEF Safe, Waited
  <2> QED
    BY <2>1, <2>2, <2>3, <2>4, <2>5, <1>4 DEF Waited
<1> QED
  BY <1>9, <1>10, <1>11, <1>12 DEF Safe

-------------------------------------------------------------------------------
(* One step *)

\* A step of h is safe if h is: the others keep their state and their lock.
LEMMA StepKeeps ==
    ASSUME NEW h \in Handles, IInv, Types', Safe(h)',
           \A g \in Handles \ {h} : /\ at'[g] = at[g] /\ work'[g] = work[g]
                                    /\ buf'[g] = buf[g] /\ close'[g] = close[g],
           lock' = lock \/ lock = none \/ lock = h,
           stray => stray'
    PROVE  IInv'
<1>1. Types
  BY TypesAre DEF IInv
<1>2. ASSUME NEW g \in Handles PROVE Safe(g)'
  <2>1. CASE g = h
    BY <2>1
  <2>2. CASE g # h
    <3>1. Safe(g)
      BY DEF IInv, Ordered, Safe
    <3>2. lock = g => lock' = g
      BY <2>2
    <3>3. TypeShared /\ stray' \in BOOLEAN
      BY <1>1 DEF Types, TypeShared
    <3> QED
      BY <2>2, <3>1, <3>2, <3>3, Frame
  <2> QED
    BY <2>1, <2>2
<1> QED
  BY <1>2, TypesAreNext DEF IInv, Ordered, Safe, Leased

\* create() and open().
Opening(h) == \/ CreateRegister(h) \/ OpenLock(h) \/ OpenRead(h) \/ OpenAdopt(h) \/ OpenFails(h)
              \/ OpenReleases(h)
              \/ \E p \in Procs : CreateLookup(h, p) \/ OpenClaim(h, p)

LEMMA TypesStay ==
    ASSUME Types
    PROVE  /\ UNCHANGED file => TypeFile'
           /\ UNCHANGED <<lock, writers, pending, acked, stray>> => TypeShared'
           /\ UNCHANGED at => TypeAt'
           /\ UNCHANGED state => TypeState'
           /\ UNCHANGED buf => TypeBuf'
           /\ UNCHANGED work => TypeWork'
           /\ UNCHANGED owner => TypeOwner'
           /\ UNCHANGED flush => TypeFlush'
           /\ UNCHANGED close => TypeClose'
BY ZenonT(60) DEF Types, TypeFile, TypeShared, TypeAt, TypeState, TypeBuf, TypeWork, TypeOwner, TypeFlush, TypeClose

LEMMA OpeningTypes ==
    ASSUME NEW h \in Handles, Types, Opening(h)
    PROVE  Types'
<1> USE DEF handleVars, tracker
<1>1. CASE CreateRegister(h)
  <2>1. TypeShared'
    BY <1>1 DEF CreateRegister, Types, TypeShared
  <2>2. TypeAt'
    BY <1>1 DEF CreateRegister, Types, TypeAt
  <2> QED
    BY <1>1, <2>1, <2>2, TypesStay DEF CreateRegister, Types
<1>2. CASE OpenLock(h)
  <2>1. TypeShared'
    BY <1>2 DEF OpenLock, Types, TypeShared
  <2>2. TypeAt'
    BY ZenonT(60), <1>2 DEF OpenLock, Types, TypeAt
  <2> QED
    BY <1>2, <2>1, <2>2, TypesStay DEF OpenLock, Types
<1>3. CASE OpenRead(h)
  <2>1. TypeState'
    <3>1. Len(Stored) \in Nat /\ file.tail \in Seq(Events) /\ file.torn \in BOOLEAN
      BY DEF Types, TypeFile, Stored
    <3> QED
      BY <3>1, <1>3 DEF OpenRead, Types, TypeState
  <2>2. TypeAt'
    BY <1>3 DEF OpenRead, Types, TypeAt
  <2> QED
    BY <1>3, <2>1, <2>2, TypesStay DEF OpenRead, Types
<1>4. CASE OpenAdopt(h)
  <2>1. TypeAt'
    BY <1>4 DEF OpenAdopt, Types, TypeAt
  <2>2. TypeOwner'
    BY <1>4 DEF OpenAdopt, Types, TypeOwner, TypeState
  <2> QED
    BY <1>4, <2>1, <2>2, TypesStay DEF OpenAdopt, Types
<1>5. CASE OpenFails(h)
  <2>1. TypeAt'
    BY ZenonT(60), <1>5 DEF OpenFails, Types, TypeAt
  <2> QED
    BY <1>5, <2>1, TypesStay DEF OpenFails, Types
<1>8. CASE OpenReleases(h)
  <2>1. TypeShared'
    BY <1>8 DEF OpenReleases, Types, TypeShared
  <2>2. TypeAt'
    BY ZenonT(60), <1>8 DEF OpenReleases, Types, TypeAt
  <2> QED
    BY <1>8, <2>1, <2>2, TypesStay DEF OpenReleases, Types
<1>6. ASSUME NEW p \in Procs, CreateLookup(h, p) PROVE Types'
  <2>1. TypeAt'
    BY ZenonT(60), <1>6 DEF CreateLookup, Types, TypeAt
  <2> QED
    BY <1>6, <2>1, TypesStay DEF CreateLookup, Types
<1>7. ASSUME NEW p \in Procs, OpenClaim(h, p) PROVE Types'
  <2>1. TypeShared'
    BY <1>7 DEF OpenClaim, Types, TypeShared
  <2>2. TypeAt'
    BY ZenonT(120), <1>7 DEF OpenClaim, Types, TypeAt
  <2> QED
    BY <1>7, <2>1, <2>2, TypesStay DEF OpenClaim, Types
<1> QED
  BY <1>1, <1>2, <1>3, <1>4, <1>5, <1>6, <1>7, <1>8 DEF Opening

LEMMA OpeningKeeps ==
    ASSUME NEW h \in Handles, IInv, Opening(h)
    PROVE  IInv'
<1> USE DEF handleVars, tracker
<1>1. Types /\ Safe(h)
  BY TypesAre DEF IInv, Ordered, Safe
<1>2. Types'
  BY <1>1, OpeningTypes
<1>3. /\ UNCHANGED <<buf, work, close, stray>>
      /\ ~Exists(h) /\ at \in [Handles -> [proc : Procs \cup {none},
               st : {"unused", "creating", "claimed", "locked", "read", "failing", "open", "closed", "gone"},
               lease : {"none", "held", "released"}]]
      /\ at'[h].st # "closed"
      /\ \A g \in Handles \ {h} : at'[g] = at[g]
      /\ lock' = lock \/ lock = none \/ lock = h
  BY <1>1 DEF Opening, CreateRegister, OpenLock, OpenRead, OpenAdopt, OpenFails, OpenReleases, CreateLookup, OpenClaim, Types, TypeAt
<1>4. work[h] = NoWork /\ buf[h] = NoBuffer /\ close[h] = NotClosing
  BY <1>1, <1>3 DEF Safe, Working
<1>5. work[h].chain = <<>> /\ work[h].stage = "idle" /\ close[h].st = "no" /\ buf[h].drain = "none"
  BY <1>4 DEF NoWork, NoBuffer, NotClosing
<1>6. Working(h)'
  BY <1>3, <1>4, <1>5 DEF Working, NoWork, NoBuffer, NotClosing
<1>7. Leased(h)'
  <2>1. /\ at'[h].lease = "held" => lock' = h
        /\ at'[h].lease = "released" => at'[h].st \in {"failing", "gone"}
        /\ ~stray /\ at'[h].lease = "held" => at'[h].st \in {"locked", "read", "failing", "open"}
    BY <1>1, <1>3 DEF Opening, CreateRegister, OpenLock, OpenRead, OpenAdopt, OpenFails, OpenReleases, CreateLookup, OpenClaim,
          Types, TypeAt, Safe, Leased, LeaseFits, Releasing
  <2> QED
    BY <2>1, <1>3, <1>5 DEF Leased, LeaseFits, Releasing, Writes
<1>8. OneDrain(h)'
  BY <1>3, <1>5 DEF OneDrain
<1>9. Waited(h)'
  BY <1>3, <1>5 DEF Waited, PastLastLook
<1>10. Safe(h)'
  BY <1>6, <1>7, <1>8, <1>9 DEF Safe
<1> QED
  BY <1>2, <1>3, <1>10, StepKeeps

\* The lease of a failed open() or of close() is released: only the claim and the
\* state of close() still hold the handle.
LEMMA ReleaseLeaseKeeps ==
    ASSUME NEW h \in Handles, IInv, ReleaseLease(h)
    PROVE  IInv'
<1> USE DEF tracker
<1>1. Types /\ Safe(h)
  BY TypesAre DEF IInv, Ordered, Safe
<1>2. Releasing(h) /\ at[h].lease = "held" /\ UNCHANGED <<buf, work, stray>>
  BY DEF ReleaseLease
<1>3. TypeAt' /\ at'[h].lease = "released" /\ at'[h].st = at[h].st /\ \A g \in Handles \ {h} : at'[g] = at[g]
  BY <1>1 DEF ReleaseLease, Types, TypeAt
<1>4. /\ TypeClose' /\ close'[h].st = close[h].st /\ close'[h].wait = close[h].wait
      /\ ~Exists(h) => close'[h] = close[h]
      /\ \A g \in Handles \ {h} : close'[g] = close[g]
  <2>1. PICK failed \in BOOLEAN : close' = close \/ close' = [close EXCEPT ![h].failed = failed]
    BY <1>1, Zenon DEF ReleaseLease, Types, TypeClose
  <2>2. ~Exists(h) => close'[h] = close[h]
    BY <1>1 DEF ReleaseLease, Types, TypeClose
  <2> QED
    BY <1>1, <2>1, <2>2 DEF Types, TypeClose
<1>5. TypeShared' /\ (lock' = lock \/ lock = h)
  BY <1>1, <1>2 DEF ReleaseLease, Types, TypeShared, Safe, Leased
<1>6. Types'
  BY <1>1, <1>3, <1>4, <1>5, TypesStay DEF ReleaseLease, Types
<1>7. Working(h)' /\ Leased(h)' /\ OneDrain(h)'
  BY <1>1, <1>2, <1>3, <1>4 DEF Safe, Working, Leased, LeaseFits, Releasing, OneDrain
<1>8. Waited(h)'
  BY <1>1, <1>2, <1>3, <1>4 DEF Safe, Waited, PastLastLook
<1> QED
  BY <1>2, <1>3, <1>4, <1>5, <1>6, <1>7, <1>8, StepKeeps DEF Safe

-------------------------------------------------------------------------------
(* Drains that start, and operations that join the chain *)

\* A drain that starts has its operation on the chain, any other none.
LEMMA DrainValue ==
    ASSUME NEW b \in [events : Seq(Events), timer : BOOLEAN, paused : BOOLEAN,
                      drain : {"none", "queued", "ended", "failed"}],
           NEW chain \in Seq(Ops)
    PROVE  /\ Drain(b) \in [events : Seq(Events), timer : BOOLEAN, paused : BOOLEAN,
                            drain : {"none", "queued", "ended", "failed"}]
           /\ Drain(b).events = b.events
           /\ WithDrain(b, chain) \in Seq(Ops)
           /\ b.drain = "none" /\ b.events # <<>> =>
                Drain(b).drain = "queued" /\ WithDrain(b, chain) = Append(chain, "drain")
           /\ ~(b.drain = "none" /\ b.events # <<>>) =>
                (Drain(b).drain = "queued" <=> b.drain = "queued") /\ WithDrain(b, chain) = chain
<1>1. "drain" \in Ops
  BY DEF Ops
<1>2. WithDrain(b, chain) \in Seq(Ops)
  BY <1>1 DEF WithDrain
<1>3. /\ Drain(b) \in [events : Seq(Events), timer : BOOLEAN, paused : BOOLEAN,
                       drain : {"none", "queued", "ended", "failed"}]
      /\ Drain(b).events = b.events
  BY DEF Drain
<1>4. CASE b.drain = "none" /\ b.events # <<>>
  BY <1>2, <1>3, <1>4 DEF Drain, WithDrain
<1>5. CASE ~(b.drain = "none" /\ b.events # <<>>)
  <2>1. WithDrain(b, chain) = chain
    BY <1>5 DEF WithDrain
  <2>2. Drain(b).drain = "queued" <=> b.drain = "queued"
    BY <1>5 DEF Drain
  <2> QED
    BY <1>2, <1>3, <1>5, <2>1, <2>2
<1> QED
  BY <1>4, <1>5

\* What starting a drain does to h.
Draining(h) ==
    /\ buf'[h].events = buf[h].events
    /\ work'[h].stage = work[h].stage
    /\ IF buf[h].drain = "none" /\ buf[h].events # <<>>
         THEN buf'[h].drain = "queued" /\ work'[h].chain = Append(work[h].chain, "drain")
         ELSE (buf'[h].drain = "queued" <=> buf[h].drain = "queued") /\ work'[h].chain = work[h].chain

LEMMA DrainLiveKeeps ==
    ASSUME NEW h \in Handles, Types, DrainLive(h)
    PROVE  /\ TypeBuf' /\ TypeWork' /\ Draining(h)
           /\ \A g \in Handles \ {h} : buf'[g] = buf[g] /\ work'[g] = work[g]
<1>1. /\ buf[h] \in [events : Seq(Events), timer : BOOLEAN, paused : BOOLEAN,
                     drain : {"none", "queued", "ended", "failed"}]
      /\ work[h].chain \in Seq(Ops)
  BY DEF Types, TypeBuf, TypeWork
<1>2. TypeBuf' /\ buf'[h] = Drain(buf[h])
  BY <1>1, DrainValue DEF DrainLive, Types, TypeBuf
<1>3. TypeWork' /\ work'[h].chain = WithDrain(buf[h], work[h].chain) /\ work'[h].stage = work[h].stage
  <2>1. WithDrain(buf[h], work[h].chain) \in Seq(Ops)
    BY <1>1, DrainValue
  <2> QED
    BY <2>1 DEF DrainLive, Types, TypeWork
<1>4. Draining(h)
  BY <1>1, <1>2, <1>3, DrainValue DEF Draining
<1> QED
  BY <1>2, <1>3, <1>4 DEF DrainLive, Types, TypeBuf, TypeWork

LEMMA DrainingSafe ==
    ASSUME NEW h \in Handles, Types, Safe(h), Exists(h), Draining(h),
           at'[h] = at[h], UNCHANGED lock, stray => stray',
           close[h].st = "release" => close'[h].st = "release"
    PROVE  Working(h)' /\ Leased(h)' /\ OneDrain(h)'
<1>1. work[h].chain \in Seq(Ops)
  BY DEF Types, TypeWork
<1>2. Working(h)'
  BY <1>1 DEF Working, Safe, Draining
<1>3. Leased(h)'
  BY DEF Leased, LeaseFits, Releasing, Safe, Draining
<1>4. OneDrain(h)'
  <2>1. CASE buf[h].drain = "none" /\ buf[h].events # <<>>
    <3>1. \A i \in 1 .. Len(work[h].chain) : work[h].chain[i] # "drain"
      BY <2>1 DEF Safe, OneDrain
    <3>2. \A i \in 1 .. Len(work'[h].chain) : work'[h].chain[i] = "drain" => i = Len(work[h].chain) + 1
      BY SMTT(60), <2>1, <3>1, <1>1 DEF Draining
    <3> QED
      BY <2>1, <3>2 DEF OneDrain, Draining
  <2>2. CASE ~(buf[h].drain = "none" /\ buf[h].events # <<>>)
    BY <2>2 DEF Safe, OneDrain, Draining
  <2> QED
    BY <2>1, <2>2
<1> QED
  BY <1>2, <1>3, <1>4

\* close() finds the drain that begins while it waits, or the drain is stray.
LEMMA DrainingWaited ==
    ASSUME NEW h \in Handles, Types, Safe(h), Exists(h), Draining(h),
           at'[h] = at[h], close'[h] = close[h],
           stray' = (stray \/ (PastLastLook(h) /\ buf[h].drain = "none" /\ buf[h].events # <<>>))
    PROVE  Waited(h)'
<1>1. work[h].chain \in Seq(Ops) /\ stray \in BOOLEAN
  BY DEF Types, TypeWork, TypeShared
<1>2. CASE buf[h].drain = "none" /\ buf[h].events # <<>>
  <2>1. work'[h].chain = Append(work[h].chain, "drain") /\ buf'[h].drain = "queued"
        /\ buf'[h].events # <<>> /\ work'[h].stage = work[h].stage
    BY <1>2 DEF Draining
  <2>2. ASSUME ~stray', close'[h].st = "look"
        PROVE  /\ Len(work'[h].chain) = close'[h].wait + 1
               /\ work'[h].chain[Len(work'[h].chain)] = "drain"
               /\ close'[h].wait = 0 => work'[h].stage = "idle"
    <3>1. Len(work[h].chain) = close[h].wait
      BY <2>2, <1>1, <1>2 DEF Safe, Waited
    <3>2. Len(work[h].chain) = 0 => work[h].stage = "idle"
      BY <1>1 DEF Safe, Working
    <3> QED
      BY <3>1, <3>2, <2>1, <1>1
  <2>3. stray' \/ ~PastLastLook(h)'
    BY <1>2 DEF PastLastLook
  <2>4. /\ (close'[h].st = "done") <=> (at'[h].st = "closed")
        /\ close'[h].st \in {"release", "done"} => close'[h].wait = 0
    BY DEF Safe, Waited
  <2> QED
    BY <2>1, <2>2, <2>3, <2>4 DEF Waited
<1>3. CASE ~(buf[h].drain = "none" /\ buf[h].events # <<>>)
  <2>1. /\ buf'[h].drain = "queued" <=> buf[h].drain = "queued"
        /\ work'[h].chain = work[h].chain /\ buf'[h].events = buf[h].events
        /\ work'[h].stage = work[h].stage
    BY <1>3 DEF Draining
  <2>2. stray' = stray
    BY <1>3, <1>1
  <2> QED
    BY <2>1, <2>2 DEF Safe, Waited, PastLastLook
<1> QED
  BY <1>2, <1>3

\* append() and flush() put their operation at the end of the chain, and
\* only while nothing awaits it.
LEMMA JoinSafe ==
    ASSUME NEW h \in Handles, NEW op \in {"append", "flush"}, Types, Safe(h), Exists(h),
           close[h].st = "no", work'[h].chain = Append(work[h].chain, op), work'[h].stage = work[h].stage,
           at'[h] = at[h], buf'[h] = buf[h], close'[h] = close[h], UNCHANGED <<lock, stray>>
    PROVE  Safe(h)'
<1>1. work[h].chain \in Seq(Ops)
  BY DEF Types, TypeWork
<1>2. Working(h)'
  BY <1>1 DEF Working, Safe
<1>3. Leased(h)'
  BY DEF Leased, LeaseFits, Releasing, Safe
<1>4. OneDrain(h)'
  <2>1. \A i \in 1 .. Len(work'[h].chain) :
          work'[h].chain[i] = "drain" => i \in 1 .. Len(work[h].chain) /\ work[h].chain[i] = "drain"
    BY <1>1
  <2> QED
    BY <2>1 DEF OneDrain, Safe
<1>5. Waited(h)'
  BY DEF Waited, PastLastLook, Safe
<1> QED
  BY <1>2, <1>3, <1>4, <1>5 DEF Safe

LEMMA ExplicitAppendKeeps ==
    ASSUME NEW h \in Handles, NEW n \in Events, IInv, ExplicitAppend(h, n)
    PROVE  IInv'
<1> USE DEF tracker
<1>1. Types /\ Safe(h)
  BY TypesAre DEF IInv, Ordered, Safe
<1>2. owner[h].last \in Nat /\ work[h].chain \in Seq(Ops) /\ "append" \in Ops
  BY <1>1 DEF Types, TypeOwner, TypeWork, Ops
<1>3. Span(owner[h].last + 1, owner[h].last + n) \in Seq(Events)
  <2>1. n \in 1 .. (MaxEvents - owner[h].last)
    BY DEF ExplicitAppend
  <2>2. owner[h].last + 1 \in Nat /\ owner[h].last + n \in Nat
        /\ owner[h].last + 1 >= 1 /\ owner[h].last + n <= MaxEvents
    BY SMTT(60), <1>2, <2>1
  <2> QED
    BY <2>2, SpanType
<1>4. TypeOwner'
  <2>1. owner[h].last + n \in Nat
    BY <1>2 DEF Events
  <2> QED
    BY <1>1, <1>3, <2>1 DEF ExplicitAppend, Types, TypeOwner
<1>5. TypeWork' /\ work'[h].chain = Append(work[h].chain, "append") /\ work'[h].stage = work[h].stage
  <2>1. Append(work[h].chain, "append") \in Seq(Ops)
    BY <1>2
  <2> QED
    BY <1>1, <2>1 DEF ExplicitAppend, Types, TypeWork
<1>6. Types'
  BY <1>1, <1>4, <1>5, TypesStay DEF ExplicitAppend, Types
<1>7. Safe(h)'
  BY <1>1, <1>5, JoinSafe DEF ExplicitAppend
<1>8. \A g \in Handles \ {h} : work'[g] = work[g]
  BY <1>1 DEF ExplicitAppend, Types, TypeWork
<1> QED
  BY <1>6, <1>7, <1>8, StepKeeps DEF ExplicitAppend

LEMMA FlushHandleKeeps ==
    ASSUME NEW h \in Handles, IInv, FlushHandle(h)
    PROVE  IInv'
<1> USE DEF tracker
<1>1. Types /\ Safe(h)
  BY TypesAre DEF IInv, Ordered, Safe
<1>2. work[h].chain \in Seq(Ops) /\ "flush" \in Ops
  BY <1>1 DEF Types, TypeWork, Ops
<1>3. TypeFlush'
  BY <1>1 DEF FlushHandle, Refused, Types, TypeFlush
<1>4. CASE close[h].st # "no"
  <2>1. UNCHANGED <<at, work, buf, close, lock, stray>>
    BY <1>4 DEF FlushHandle
  <2>2. Safe(h)'
    BY <1>1, <2>1, Frame DEF Types, TypeShared
  <2>3. Types'
    BY <1>1, <1>3, <1>4, TypesStay DEF FlushHandle, Types
  <2> QED
    BY <2>1, <2>2, <2>3, StepKeeps
<1>5. CASE close[h].st = "no"
  <2>1. TypeWork' /\ work'[h].chain = Append(work[h].chain, "flush") /\ work'[h].stage = work[h].stage
        /\ \A g \in Handles \ {h} : work'[g] = work[g]
    <3>1. Append(work[h].chain, "flush") \in Seq(Ops)
      BY <1>2
    <3> QED
      BY ZenonT(60), <1>1, <1>5, <3>1 DEF FlushHandle, Types, TypeWork
  <2>2. Safe(h)'
    BY <1>1, <1>5, <2>1, JoinSafe DEF FlushHandle
  <2>3. Types'
    BY <1>1, <1>3, <2>1, TypesStay DEF FlushHandle, Types
  <2> QED
    BY <2>1, <2>2, <2>3, StepKeeps DEF FlushHandle
<1> QED
  BY <1>4, <1>5

\* The owner publishes the session, and an event is routed.
LEMMA RoutingKeeps ==
    ASSUME NEW h \in Handles, IInv, GoLive(h) \/ RouteLive(h)
    PROVE  IInv'
<1> USE DEF tracker
<1>1. Types /\ Safe(h)
  BY TypesAre DEF IInv, Ordered, Safe
<1>2. CASE GoLive(h)
  <2>1. TypeOwner'
    BY <1>1, <1>2 DEF GoLive, Types, TypeOwner
  <2>2. Types'
    BY <1>1, <1>2, <2>1, TypesStay DEF GoLive, Types
  <2>3. Safe(h)'
    BY <1>1, <1>2, Frame DEF GoLive, Types, TypeShared
  <2> QED
    BY <1>2, <2>2, <2>3, StepKeeps DEF GoLive
<1>3. CASE RouteLive(h)
  <2>1. owner[h].last + 1 \in Events /\ owner[h].last + 1 \in Nat /\ buf[h].events \in Seq(Events)
    BY <1>1, <1>3 DEF RouteLive, Types, TypeOwner, TypeBuf, Events
  <2>2. TypeOwner'
    BY ZenonT(60), <1>1, <1>3, <2>1 DEF RouteLive, Types, TypeOwner
  <2>3. Append(buf[h].events, owner[h].last + 1) \in Seq(Events) /\ Append(buf[h].events, owner[h].last + 1) # <<>>
    BY <2>1
  <2>4. \E timer \in BOOLEAN :
            buf' = [buf EXCEPT ![h].events = Append(@, owner[h].last + 1), ![h].timer = timer]
    BY <1>3, Zenon DEF RouteLive
  <2>5. TypeBuf'
    BY ZenonT(120), <1>1, <2>3, <2>4 DEF Types, TypeBuf
  <2>6. /\ buf'[h].drain = buf[h].drain /\ buf'[h].events # <<>>
        /\ \A g \in Handles \ {h} : buf'[g] = buf[g]
    BY <1>1, <1>3, <2>3 DEF RouteLive, Types, TypeBuf
  <2>7. Types'
    BY <1>1, <1>3, <2>2, <2>5, TypesStay DEF RouteLive, Types
  <2>8. Exists(h) /\ UNCHANGED <<at, work, close, lock, stray>>
    BY <1>3 DEF RouteLive
  <2>9. Working(h)' /\ Leased(h)' /\ OneDrain(h)' /\ Waited(h)'
    BY <1>1, <2>6, <2>8 DEF Safe, Working, Leased, LeaseFits, Releasing, OneDrain, Waited, PastLastLook
  <2> QED
    BY <2>6, <2>7, <2>8, <2>9, StepKeeps DEF Safe
<1> QED
  BY <1>2, <1>3

\* The last event handed over, as a number.
LEMMA HandedType ==
    ASSUME NEW h \in Handles, Types
    PROVE  Handed(h) \in Int /\ Seen(h) \in Int
<1>1. owner[h].last \in Nat /\ state[h].cursor \in Nat /\ Len(state[h].recovered) \in Nat
  BY DEF Types, TypeOwner, TypeState
<1> QED
  BY <1>1 DEF Handed, Seen

LEMMA TimerFiresKeeps ==
    ASSUME NEW h \in Handles, IInv, TimerFires(h)
    PROVE  IInv'
<1> USE DEF tracker
<1>1. Types /\ Safe(h)
  BY TypesAre DEF IInv, Ordered, Safe
<1> DEFINE quiet == [buf[h] EXCEPT !.timer = FALSE]
<1>2. /\ quiet \in [events : Seq(Events), timer : BOOLEAN, paused : BOOLEAN,
                    drain : {"none", "queued", "ended", "failed"}]
      /\ quiet.events = buf[h].events /\ quiet.drain = buf[h].drain
      /\ work[h].chain \in Seq(Ops)
  BY <1>1 DEF Types, TypeBuf, TypeWork
<1>3. WithDrain(buf[h], work[h].chain) = WithDrain(quiet, work[h].chain)
  BY <1>2 DEF WithDrain
<1>4. buf' = [buf EXCEPT ![h] = Drain(quiet)]
  BY DEF TimerFires
<1>5. Drain(quiet) \in [events : Seq(Events), timer : BOOLEAN, paused : BOOLEAN,
                        drain : {"none", "queued", "ended", "failed"}]
  BY <1>2, DrainValue
<1>6. TypeBuf' /\ buf'[h] = Drain(quiet) /\ \A g \in Handles \ {h} : buf'[g] = buf[g]
  BY <1>1, <1>4, <1>5 DEF Types, TypeBuf
<1>7. TypeWork' /\ work'[h].chain = WithDrain(quiet, work[h].chain) /\ work'[h].stage = work[h].stage
      /\ \A g \in Handles \ {h} : work'[g] = work[g]
  <2>1. WithDrain(quiet, work[h].chain) \in Seq(Ops)
    BY <1>2, DrainValue
  <2> QED
    BY <2>1, <1>1, <1>3 DEF TimerFires, Types, TypeWork
<1>8. Draining(h)
  BY <1>2, <1>6, <1>7, DrainValue DEF Draining
<1>9. TypeShared'
  BY <1>1 DEF TimerFires, PastLastLook, Types, TypeShared
<1>10. Types'
  BY <1>1, <1>6, <1>7, <1>9, TypesStay DEF TimerFires, Types
<1>11. Safe(h)'
  BY <1>1, <1>8, DrainingSafe, DrainingWaited DEF TimerFires, Safe
<1> QED
  BY <1>6, <1>7, <1>10, <1>11, StepKeeps DEF TimerFires

LEMMA FlushCallKeeps ==
    ASSUME NEW h \in Handles, NEW kind \in {"session", "all"}, IInv, FlushCall(h, kind)
    PROVE  IInv'
<1> USE DEF tracker
<1>1. Types /\ Safe(h)
  BY TypesAre DEF IInv, Ordered, Safe
<1>2. TypeBuf' /\ TypeWork' /\ Draining(h) /\ \A g \in Handles \ {h} : buf'[g] = buf[g] /\ work'[g] = work[g]
  BY <1>1, DrainLiveKeeps DEF FlushCall
<1>3. TypeFlush'
  <2>1. Handed(h) \in Int /\ Seen(h) \in Int
    BY <1>1, HandedType
  <2> QED
    BY <1>1, <2>1 DEF FlushCall, Types, TypeFlush
<1>4. TypeShared'
  BY <1>1 DEF FlushCall, PastLastLook, Types, TypeShared
<1>5. Types'
  BY <1>1, <1>2, <1>3, <1>4, TypesStay DEF FlushCall, Types
<1>6. Safe(h)'
  BY <1>1, <1>2, DrainingSafe, DrainingWaited DEF FlushCall, Safe
<1> QED
  BY <1>2, <1>5, <1>6, StepKeeps DEF FlushCall

-------------------------------------------------------------------------------
(* close() *)

LEMMA DrainSettlesKeeps ==
    ASSUME NEW h \in Handles, IInv, DrainSettles(h)
    PROVE  IInv'
<1> USE DEF tracker
<1>1. Types /\ Safe(h)
  BY TypesAre DEF IInv, Ordered, Safe
<1>2. TypeBuf' /\ buf'[h].drain = "none" /\ \A g \in Handles \ {h} : buf'[g] = buf[g]
  BY <1>1 DEF DrainSettles, Types, TypeBuf
<1>3. Len(work[h].chain) \in Nat
  BY <1>1 DEF Types, TypeWork
<1>4. TypeFlush'
  BY <1>1 DEF DrainSettles, Types, TypeFlush
<1>5. TypeClose' /\ \A g \in Handles \ {h} : close'[g] = close[g]
  <2>1. CASE close[h].st # "drain"
    BY <1>1, <2>1 DEF DrainSettles, Types, TypeClose
  <2>2. CASE close[h].st = "drain"
    <3>1. \E failed \in BOOLEAN, st \in {"look", "tail"} :
            close' = [close EXCEPT ![h].st = st, ![h].wait = Len(work[h].chain), ![h].failed = failed]
      BY <2>2, Zenon DEF DrainSettles
    <3>2. PICK failed \in BOOLEAN, st \in {"look", "tail"} :
            close' = [close EXCEPT ![h].st = st, ![h].wait = Len(work[h].chain), ![h].failed = failed]
      BY <3>1
    <3>3. TypeClose'
      BY ZenonT(120), <1>1, <1>3, <3>2 DEF Types, TypeClose
    <3> QED
      BY <1>1, <3>2, <3>3 DEF Types, TypeClose
  <2> QED
    BY <2>1, <2>2
<1>6. IF close[h].st # "drain" THEN close'[h] = close[h]
      ELSE close'[h].st \in {"look", "tail"} /\ close'[h].wait = Len(work[h].chain)
  BY <1>1 DEF DrainSettles, Types, TypeClose
<1>7. Types'
  BY <1>1, <1>2, <1>4, <1>5, TypesStay DEF DrainSettles, Types
<1>8. Exists(h) /\ buf[h].drain # "queued" /\ UNCHANGED <<at, work, lock, stray>>
  BY DEF DrainSettles
<1>9. Working(h)' /\ Leased(h)' /\ OneDrain(h)'
  BY <1>1, <1>2, <1>6, <1>8 DEF Safe, Working, Leased, LeaseFits, Releasing, OneDrain
<1>10. Waited(h)'
  <2>1. CASE close[h].st # "drain"
    BY <1>1, <1>2, <1>6, <1>8, <2>1 DEF Safe, Waited, PastLastLook
  <2>2. CASE close[h].st = "drain"
    BY <1>1, <1>2, <1>6, <1>8, <2>2 DEF Safe, Waited, PastLastLook
  <2> QED
    BY <2>1, <2>2
<1> QED
  BY <1>2, <1>5, <1>7, <1>8, <1>9, <1>10, StepKeeps DEF Safe

LEMMA CloseKeeps ==
    ASSUME NEW h \in Handles, IInv, Close(h)
    PROVE  IInv'
<1> USE DEF tracker
<1>1. Types /\ Safe(h)
  BY TypesAre DEF IInv, Ordered, Safe
<1>2. TypeBuf' /\ TypeWork' /\ Draining(h) /\ \A g \in Handles \ {h} : buf'[g] = buf[g] /\ work'[g] = work[g]
  BY <1>1, DrainLiveKeeps DEF Close
<1>3. TypeClose' /\ close'[h].st = "drain" /\ \A g \in Handles \ {h} : close'[g] = close[g]
  BY <1>1, HandedType DEF Close, Types, TypeClose
<1>4. Types'
  BY <1>1, <1>2, <1>3, TypesStay DEF Close, Types
<1>5. Working(h)' /\ Leased(h)' /\ OneDrain(h)'
  BY <1>1, <1>2, DrainingSafe DEF Close
<1>6. Waited(h)'
  BY <1>3 DEF Close, Waited, PastLastLook
<1> QED
  BY <1>2, <1>3, <1>4, <1>5, <1>6, StepKeeps DEF Close, Safe

LEMMA CloseLookKeeps ==
    ASSUME NEW h \in Handles, IInv, CloseLook(h)
    PROVE  IInv'
<1> USE DEF tracker
<1>1. Types /\ Safe(h)
  BY TypesAre DEF IInv, Ordered, Safe
<1>2. Exists(h) /\ close[h].st = "look" /\ UNCHANGED <<at, lock, stray>>
  BY DEF CloseLook, AwaitedChain
<1>3. Len(work[h].chain) \in Nat
  BY <1>1 DEF Types, TypeWork
<1>4. at[h].st # "closed"
  BY <1>1, <1>2 DEF Safe, Waited
<1>5. CASE buf[h].events = <<>>
  <2>1. TypeClose' /\ close'[h].st = "tail" /\ close'[h].wait = Len(work[h].chain)
        /\ \A g \in Handles \ {h} : close'[g] = close[g]
    BY SMTT(60), <1>1, <1>3, <1>5 DEF CloseLook, Types, TypeClose
  <2>2. UNCHANGED <<buf, work>>
    BY <1>5 DEF CloseLook
  <2>3. Types'
    BY <1>1, <2>1, <2>2, TypesStay DEF CloseLook, Types
  <2>4. Working(h)' /\ Leased(h)' /\ OneDrain(h)'
    BY <1>1, <1>2, <2>2 DEF Safe, Working, Leased, LeaseFits, Releasing, OneDrain
  <2>5. Waited(h)'
    BY <1>1, <1>2, <1>4, <1>5, <2>1, <2>2 DEF Safe, Waited, PastLastLook
  <2> QED
    BY <1>2, <2>1, <2>2, <2>3, <2>4, <2>5, StepKeeps DEF Safe
<1>6. CASE buf[h].events # <<>>
  <2>1. TypeBuf' /\ TypeWork' /\ Draining(h) /\ \A g \in Handles \ {h} : buf'[g] = buf[g] /\ work'[g] = work[g]
    BY <1>1, <1>6, DrainLiveKeeps DEF CloseLook
  <2>2. TypeClose' /\ close'[h].st = "drain" /\ \A g \in Handles \ {h} : close'[g] = close[g]
    BY <1>1, <1>6 DEF CloseLook, Types, TypeClose
  <2>3. Types'
    BY <1>1, <2>1, <2>2, TypesStay DEF CloseLook, Types
  <2>4. Working(h)' /\ Leased(h)' /\ OneDrain(h)'
    BY <1>1, <1>2, <2>1, DrainingSafe
  <2>5. Waited(h)'
    BY <1>2, <1>4, <2>2 DEF Waited, PastLastLook
  <2> QED
    BY <1>2, <2>1, <2>2, <2>3, <2>4, <2>5, StepKeeps DEF Safe
<1> QED
  BY <1>5, <1>6

LEMMA CloseTailKeeps ==
    ASSUME NEW h \in Handles, IInv, CloseTail(h)
    PROVE  IInv'
<1> USE DEF tracker
<1>1. Types /\ Safe(h)
  BY TypesAre DEF IInv, Ordered, Safe
<1>2. Exists(h) /\ close[h].st = "tail" /\ close[h].wait = 0 /\ UNCHANGED <<at, buf, work, lock, stray>>
  BY DEF CloseTail, AwaitedChain
<1>3. TypeClose' /\ close'[h].st = "release" /\ close'[h].wait = 0 /\ \A g \in Handles \ {h} : close'[g] = close[g]
  BY <1>1, <1>2 DEF CloseTail, Types, TypeClose
<1>4. Types'
  BY <1>1, <1>3, TypesStay DEF CloseTail, Types
<1>5. Working(h)' /\ Leased(h)' /\ OneDrain(h)'
  BY <1>1, <1>2 DEF Safe, Working, Leased, LeaseFits, Releasing, OneDrain
<1>6. Waited(h)'
  BY <1>1, <1>2, <1>3 DEF Safe, Waited, PastLastLook
<1> QED
  BY <1>2, <1>3, <1>4, <1>5, <1>6, StepKeeps DEF Safe

LEMMA CloseReleaseKeeps ==
    ASSUME NEW h \in Handles, IInv, CloseRelease(h)
    PROVE  IInv'
<1> USE DEF tracker
<1>1. Types /\ Safe(h)
  BY TypesAre DEF IInv, Ordered, Safe
<1>2. Exists(h) /\ close[h].st = "release" /\ UNCHANGED <<buf, work, stray>>
  BY DEF CloseRelease
<1>3. TypeClose' /\ close'[h].st = "done" /\ close'[h].wait = close[h].wait
      /\ \A g \in Handles \ {h} : close'[g] = close[g]
  BY <1>1 DEF CloseRelease, Types, TypeClose
<1>4. TypeAt' /\ at'[h].st = "closed" /\ at'[h].lease \in {"none", "released"}
      /\ at'[h].lease = at[h].lease /\ \A g \in Handles \ {h} : at'[g] = at[g]
  BY <1>1 DEF CloseRelease, Types, TypeAt
<1>5. TypeShared' /\ lock' = lock
  BY <1>1 DEF CloseRelease, Types, TypeShared
<1>6. Types'
  BY <1>1, <1>3, <1>4, <1>5, TypesStay DEF CloseRelease, Types
<1>7. Working(h)' /\ Leased(h)' /\ OneDrain(h)'
  BY <1>1, <1>2, <1>4 DEF Safe, Working, Leased, LeaseFits, Releasing, OneDrain
<1>8. Waited(h)'
  BY <1>1, <1>2, <1>3, <1>4 DEF Safe, Waited, PastLastLook
<1> QED
  BY <1>2, <1>3, <1>4, <1>5, <1>6, <1>7, <1>8, StepKeeps DEF Safe

-------------------------------------------------------------------------------
(* The running operation *)

\* It goes on to its next stage, with the lease it needs.
LEMMA StageSafe ==
    ASSUME NEW h \in Handles, Types, Safe(h), Exists(h), work[h].chain # <<>>,
           work'[h].chain = work[h].chain, at'[h].st = at[h].st, close'[h] = close[h], stray' = stray,
           buf'[h].drain = buf[h].drain,
           buf'[h].events = buf[h].events \/ Head(work[h].chain) = "drain",
           work[h].stage = "idle" => ~AwaitedChain(h),
           work'[h].stage \in Writes \cup {"check"} => at'[h].lease # "none",
           \/ at'[h].lease = at[h].lease /\ lock' = lock
           \/ at'[h].lease = "held" /\ lock' = h
    PROVE  Safe(h)'
<1>1. work[h].chain \in Seq(Ops) /\ close[h].wait \in Nat
  BY DEF Types, TypeWork, TypeClose
<1>2. Len(work[h].chain) \in Nat \ {0} /\ work[h].chain[1] = Head(work[h].chain)
  BY <1>1, ChainType
<1>3. Working(h)'
  BY DEF Working
<1>4. Leased(h)'
  <2>1. ASSUME ~stray PROVE at[h].st = "open"
    BY <1>2, <2>1 DEF Safe, Waited, PastLastLook
  <2> QED
    BY <2>1 DEF Leased, LeaseFits, Releasing, Safe
<1>5. OneDrain(h)'
  BY DEF OneDrain, Safe
<1>6. Waited(h)'
  <2>1. ASSUME ~stray, close[h].st = "look", buf[h].drain = "queued"
        PROVE  close[h].wait # 0 /\ buf'[h].events # <<>>
    <3>1. /\ Len(work[h].chain) = close[h].wait + 1
          /\ work[h].chain[Len(work[h].chain)] = "drain"
          /\ buf[h].events # <<>>
          /\ close[h].wait = 0 => work[h].stage = "idle"
      BY <2>1 DEF Safe, Waited
    <3>2. close[h].wait # 0
      BY <2>1, <3>1 DEF AwaitedChain
    <3>3. Head(work[h].chain) # "drain"
      <4> DEFINE n == Len(work[h].chain)
      <4>1. n \in Nat /\ n > 1
        BY <3>1, <3>2, <1>1
      <4>2. 1 # n /\ 1 \in 1 .. n /\ n \in 1 .. n
        <5> HIDE DEF n
        <5> QED
          BY <4>1
      <4> QED
        BY <4>2, <3>1, <1>2 DEF Safe, OneDrain
    <3> QED
      BY <3>1, <3>2, <3>3
  <2> QED
    BY <2>1 DEF Safe, Waited, PastLastLook
<1> QED
  BY <1>3, <1>4, <1>5, <1>6 DEF Safe

\* A step in which the operation of h settles keeps the invariant.
LEMMA SettleKeeps ==
    ASSUME NEW h \in Handles, NEW ok \in BOOLEAN, IInv, Exists(h), work[h].chain # <<>>, Settle(h, ok),
           UNCHANGED <<at, lock, stray>>, TypeFile', TypeShared', TypeState',
           work[h].stage = "idle" => ~AwaitedChain(h) /\ Head(work[h].chain) # "drain"
    PROVE  IInv'
<1>1. Types /\ Safe(h)
  BY TypesAre DEF IInv, Ordered, Safe
<1>2. TypeBuf' /\ TypeWork' /\ TypeOwner' /\ TypeFlush' /\ TypeClose'
  BY <1>1, SettleTypes
<1>3. Types'
  BY <1>1, <1>2, TypesStay DEF Types
<1>4. Safe(h)'
  BY <1>1, SettleSafe
<1>5. \A g \in Handles \ {h} : work'[g] = work[g] /\ buf'[g] = buf[g] /\ close'[g] = close[g]
  BY <1>1 DEF Settle, Types, TypeWork, TypeBuf, TypeClose
<1> QED
  BY <1>3, <1>4, <1>5, StepKeeps

LEMMA LeaseStage ==
    ASSUME NEW h \in Handles, NEW op \in Ops
    PROVE  /\ AfterLease(op) \in Stages /\ Lease(h, op) \in Stages
           /\ Lease(h, op) \in Writes \cup {"check"} => at[h].lease # "none"
BY DEF AfterLease, Lease, Stages, Writes

LEMMA BeginKeeps ==
    ASSUME NEW h \in Handles, IInv, Begin(h)
    PROVE  IInv'
<1> USE DEF tracker
<1>1. Types /\ Safe(h)
  BY TypesAre DEF IInv, Ordered, Safe
<1> DEFINE op == Head(work[h].chain)
<1>2. /\ Exists(h) /\ work[h].chain # <<>> /\ work[h].stage = "idle" /\ ~AwaitedChain(h)
      /\ UNCHANGED <<file, lock, writers, pending, at, state, acked, stray>>
  BY DEF Begin, Running
<1>3. op \in Ops
  BY <1>1, <1>2, ChainType DEF Types, TypeWork
<1>4. TypeFile' /\ TypeShared' /\ TypeState' /\ TypeAt'
  BY <1>1, <1>2, TypesStay
<1>5. Lease(h, op) \in Stages /\ (Lease(h, op) \in Writes \cup {"check"} => at[h].lease # "none")
  BY <1>3, LeaseStage
<1>6. CASE /\ op = "drain"
           /\ work' = [work EXCEPT ![h].batch = buf[h].events, ![h].stage = Lease(h, op)]
           /\ buf' = [buf EXCEPT ![h].events = <<>>]
           /\ UNCHANGED <<owner, flush, close>>
  <2>1. TypeWork' /\ work'[h].chain = work[h].chain /\ work'[h].stage = Lease(h, op)
        /\ \A g \in Handles \ {h} : work'[g] = work[g]
    BY <1>1, <1>5, <1>6 DEF Types, TypeWork, TypeBuf
  <2>2. <<>> \in Seq(Events)
    OBVIOUS
  <2>3. TypeBuf' /\ buf'[h].drain = buf[h].drain /\ \A g \in Handles \ {h} : buf'[g] = buf[g]
    BY <1>1, <1>6, <2>2 DEF Types, TypeBuf
  <2>4. Types'
    BY <1>1, <1>4, <1>6, <2>1, <2>3, TypesStay DEF Types
  <2>5. Safe(h)'
    BY <1>1, <1>2, <1>5, <1>6, <2>1, <2>3, StageSafe
  <2> QED
    BY <1>2, <1>6, <2>1, <2>3, <2>4, <2>5, StepKeeps
<1>7. CASE /\ op = "append" /\ close[h].st = "no"
           /\ work' = [work EXCEPT ![h].batch = owner[h].suffix, ![h].stage = Lease(h, op)]
           /\ UNCHANGED <<buf, owner, flush, close>>
  <2>1. TypeWork' /\ work'[h].chain = work[h].chain /\ work'[h].stage = Lease(h, op)
        /\ \A g \in Handles \ {h} : work'[g] = work[g]
    BY <1>1, <1>5, <1>7 DEF Types, TypeWork, TypeOwner
  <2>2. Types'
    BY <1>1, <1>4, <1>7, <2>1, TypesStay DEF Types
  <2>3. Safe(h)'
    BY <1>1, <1>2, <1>5, <1>7, <2>1, StageSafe
  <2> QED
    BY <1>2, <1>7, <2>1, <2>2, <2>3, StepKeeps
<1>8. CASE /\ op = "flush" /\ close[h].st = "no" /\ ~state[h].made
           /\ work' = [work EXCEPT ![h].stage = Lease(h, op)]
           /\ UNCHANGED <<buf, owner, flush, close>>
  <2>1. TypeWork' /\ work'[h].chain = work[h].chain /\ work'[h].stage = Lease(h, op)
        /\ \A g \in Handles \ {h} : work'[g] = work[g]
    BY <1>1, <1>5, <1>8 DEF Types, TypeWork
  <2>2. Types'
    BY <1>1, <1>4, <1>8, <2>1, TypesStay DEF Types
  <2>3. Safe(h)'
    BY <1>1, <1>2, <1>5, <1>8, <2>1, StageSafe
  <2> QED
    BY <1>2, <1>8, <2>1, <2>2, <2>3, StepKeeps
<1>9. CASE op # "drain" /\ \E ok \in BOOLEAN : Settle(h, ok)
  BY <1>2, <1>4, <1>9, SettleKeeps
<1> QED
  BY <1>6, <1>7, <1>8, <1>9 DEF Begin

LEMMA AcquireLeaseKeeps ==
    ASSUME NEW h \in Handles, IInv, AcquireLease(h)
    PROVE  IInv'
<1> USE DEF tracker
<1>1. Types /\ Safe(h)
  BY TypesAre DEF IInv, Ordered, Safe
<1>2. Exists(h) /\ work[h].chain # <<>> /\ work[h].stage = "lease" /\ lock = none /\ lock' = h
  BY DEF AcquireLease, Running
<1>3. AfterLease(Head(work[h].chain)) \in Stages
  BY DEF AfterLease, Stages, Writes
<1>4. TypeWork' /\ work'[h].chain = work[h].chain /\ \A g \in Handles \ {h} : work'[g] = work[g]
  BY <1>1, <1>3 DEF AcquireLease, Types, TypeWork
<1>5. TypeAt' /\ at'[h].lease = "held" /\ at'[h].st = at[h].st /\ \A g \in Handles \ {h} : at'[g] = at[g]
  BY <1>1 DEF AcquireLease, Types, TypeAt
<1>6. TypeShared'
  BY <1>1 DEF AcquireLease, Types, TypeShared
<1>7. Types'
  BY <1>1, <1>4, <1>5, <1>6, TypesStay DEF AcquireLease, Types
<1>8. Safe(h)'
  BY <1>1, <1>2, <1>4, <1>5, StageSafe DEF AcquireLease
<1> QED
  BY <1>2, <1>4, <1>5, <1>7, <1>8, StepKeeps DEF AcquireLease

LEMMA CheckKeeps ==
    ASSUME NEW h \in Handles, IInv, Check(h)
    PROVE  IInv'
<1> USE DEF tracker
<1>1. Types /\ Safe(h)
  BY TypesAre DEF IInv, Ordered, Safe
<1>2. Exists(h) /\ work[h].chain # <<>> /\ work[h].stage = "check"
      /\ UNCHANGED <<file, lock, writers, pending, at, state, acked, stray>>
  BY DEF Check, Running
<1>3. CASE Head(work[h].batch) = state[h].cursor + 1
  <2>1. FirstWrite(h) \in Stages
    BY DEF FirstWrite, Stages, Writes
  <2>2. at[h].lease # "none"
    BY <1>1, <1>2 DEF Safe, Leased, LeaseFits, Releasing
  <2>3. TypeWork' /\ work'[h].chain = work[h].chain /\ \A g \in Handles \ {h} : work'[g] = work[g]
    BY <1>1, <1>3, <2>1 DEF Check, Types, TypeWork
  <2>4. Types'
    BY <1>1, <1>3, <2>3, TypesStay DEF Check, Types
  <2>5. Safe(h)'
    BY <1>1, <1>2, <1>3, <2>2, <2>3, StageSafe DEF Check
  <2> QED
    BY <1>2, <1>3, <2>3, <2>4, <2>5, StepKeeps DEF Check
<1>4. CASE Head(work[h].batch) # state[h].cursor + 1
  <2>1. Settle(h, FALSE)
    BY <1>4 DEF Check
  <2>2. TypeFile' /\ TypeShared' /\ TypeState'
    BY <1>1, <1>2, TypesStay
  <2> QED
    BY <1>2, <2>1, <2>2, SettleKeeps
<1> QED
  BY <1>3, <1>4

\* The repair of a torn tail.
LEMMA RepairKeeps ==
    ASSUME NEW h \in Handles, IInv, Truncate(h) \/ Rewrite(h)
    PROVE  IInv'
<1> USE DEF tracker
<1>1. Types /\ Safe(h)
  BY TypesAre DEF IInv, Ordered, Safe
<1>2. /\ Exists(h) /\ work[h].chain # <<>> /\ work[h].stage \in {"truncate", "rewrite"}
      /\ UNCHANGED <<lock, writers, pending, at, buf, owner, flush, close, acked, stray>>
  BY DEF Truncate, Rewrite, Running
<1>3. at[h].lease # "none"
  BY <1>1, <1>2 DEF Safe, Leased, LeaseFits, Releasing, Writes
<1>4. <<>> \in Seq(Events) /\ state[h].recovered \in Seq(Events)
      /\ file.full \in Seq(Events) /\ file.full \o state[h].recovered \in Seq(Events)
  BY <1>1 DEF Types, TypeState, TypeFile
<1>5. TypeFile'
  BY <1>1, <1>4 DEF Truncate, Rewrite, Types, TypeFile
<1>6. TypeState'
  BY ZenonT(120), <1>1, <1>4 DEF Truncate, Rewrite, Types, TypeState
<1>7. TypeWork' /\ work'[h].chain = work[h].chain /\ \A g \in Handles \ {h} : work'[g] = work[g]
  <2>1. PICK stage \in {"rewrite", "write"} : work' = [work EXCEPT ![h].stage = stage]
    BY DEF Truncate, Rewrite
  <2>2. stage \in Stages
    BY DEF Stages, Writes
  <2> QED
    BY <1>1, <2>1, <2>2 DEF Types, TypeWork
<1>8. Types'
  BY <1>1, <1>2, <1>5, <1>6, <1>7, TypesStay DEF Types
<1>9. Safe(h)'
  BY <1>1, <1>2, <1>3, <1>7, StageSafe
<1> QED
  BY <1>2, <1>7, <1>8, <1>9, StepKeeps

LEMMA PublishedType ==
    ASSUME NEW batch \in Seq(Events)
    PROVE  Published(batch) \in [made : BOOLEAN, full : Seq(Events), torn : BOOLEAN, tail : Seq(Events)]
<1>1. <<>> \in Seq(Events)
  OBVIOUS
<1> QED
  BY <1>1 DEF Published

\* appendLines takes back what it wrote.
LEMMA AppendFailsKeeps ==
    ASSUME NEW h \in Handles, IInv, AppendFails(h)
    PROVE  IInv'
<1> USE DEF tracker
<1>1. Types /\ Safe(h)
  BY TypesAre DEF IInv, Ordered, Safe
<1>2. /\ Exists(h) /\ work[h].chain # <<>> /\ work[h].stage \in {"rewrite", "write"}
      /\ UNCHANGED <<file, lock, writers, pending, at, state, buf, owner, flush, close, acked, stray>>
  BY DEF AppendFails, Appending, Running
<1>3. at[h].lease # "none" /\ "rollback" \in Stages
  BY <1>1, <1>2 DEF Safe, Leased, Stages, Writes
<1>4. TypeWork' /\ work'[h].chain = work[h].chain /\ \A g \in Handles \ {h} : work'[g] = work[g]
  BY <1>1, <1>3 DEF AppendFails, Types, TypeWork
<1>5. Types'
  BY <1>1, <1>2, <1>4, TypesStay DEF Types
<1>6. Safe(h)'
  BY <1>1, <1>2, <1>3, <1>4, StageSafe
<1> QED
  BY <1>2, <1>4, <1>5, <1>6, StepKeeps

\* A write that succeeds.
LEMMA WriteKeeps ==
    ASSUME NEW h \in Handles, IInv, Write(h) \/ Header(h)
    PROVE  IInv'
<1>1. Types
  BY TypesAre DEF IInv
<1>2. /\ Exists(h) /\ work[h].chain # <<>> /\ work[h].stage # "idle"
      /\ Settle(h, TRUE) /\ UNCHANGED <<lock, writers, at, stray>>
  BY DEF Write, Header, Running
<1>3. /\ <<>> \in Seq(Events) /\ work[h].batch \in Seq(Events) /\ Len(work[h].batch) \in Nat
      /\ file.full \o work[h].batch \in Seq(Events)
      /\ state[h].cursor \in Nat /\ state[h].cursor + Len(work[h].batch) \in Nat
  BY <1>1 DEF Types, TypeWork, TypeFile, TypeState
<1>4. TypeFile'
  BY <1>1, <1>3, PublishedType DEF Write, Header, Types, TypeFile
<1>5. TypeState'
  BY ZenonT(120), <1>1, <1>3 DEF Write, Header, Types, TypeState
<1>6. TypeShared'
  <2>1. pending' \in [Procs -> BOOLEAN]
    BY <1>1 DEF Write, Header, Types, TypeShared
  <2>2. acked' \in Nat
    BY <1>1, <1>3 DEF Write, Header, Types, TypeShared
  <2> QED
    BY <1>1, <1>2, <2>1, <2>2 DEF Types, TypeShared
<1> QED
  BY <1>2, <1>4, <1>5, <1>6, SettleKeeps

LEMMA BytesType ==
    ASSUME NEW h \in Handles, Types
    PROVE  Bytes(h) \in Seq(Events) /\ file.full \o Bytes(h) \in Seq(Events)
<1>1. Bytes(h) \in Seq(Events)
  BY DEF Bytes, Types, TypeState, TypeWork
<1> QED
  BY <1>1 DEF Types, TypeFile

LEMMA OutcomeType ==
    ASSUME NEW h \in Handles, Types, NEW left \in Outcome(h)
    PROVE  left \in [made : BOOLEAN, full : Seq(Events), torn : BOOLEAN, tail : Seq(Events)]
<1>1. Bytes(h) \in Seq(Events) /\ <<>> \in Seq(Events)
  BY BytesType
<1>2. file \in [made : BOOLEAN, full : Seq(Events), torn : BOOLEAN, tail : Seq(Events)]
  BY DEF Types, TypeFile
<1>3. file.full \o Bytes(h) \in Seq(Events)
  BY BytesType
<1>4. \/ left = file
      \/ left = [file EXCEPT !.torn = FALSE, !.tail = <<>>]
      \/ left = Published(Bytes(h))
      \/ left = [file EXCEPT !.full = @ \o Bytes(h)]
  BY DEF Outcome
<1> QED
  BY <1>1, <1>2, <1>3, <1>4, PublishedType

\* A lease that is refused, a log that exists, and a write that fails, at once or
\* after its bytes were taken back.
LEMMA FailKeeps ==
    ASSUME NEW h \in Handles, IInv, LeaseRefused(h) \/ RefuseExisting(h) \/ Fail(h) \/ RollBack(h)
    PROVE  IInv'
<1> USE DEF tracker
<1>1. Types
  BY TypesAre DEF IInv
<1>2. /\ Exists(h) /\ work[h].chain # <<>> /\ work[h].stage # "idle"
      /\ Settle(h, FALSE) /\ UNCHANGED <<lock, writers, pending, at, state, acked, stray>>
  BY DEF LeaseRefused, RefuseExisting, Fail, RollBack, Running
<1>3. TypeFile'
  <2>1. CASE LeaseRefused(h) \/ RefuseExisting(h) \/ Fail(h)
    BY <1>1, <2>1, OutcomeType DEF LeaseRefused, RefuseExisting, Fail, Types, TypeFile
  <2>2. CASE RollBack(h)
    BY <1>1, <2>2, BytesType DEF RollBack, Types, TypeFile
  <2> QED
    BY <2>1, <2>2
<1> QED
  BY <1>1, <1>2, <1>3, SettleKeeps, TypesStay

-------------------------------------------------------------------------------
(* A crash *)

LEMMA InitialRecords ==
    /\ NoState \in [cursor : Nat, made : BOOLEAN, torn : BOOLEAN, recovered : Seq(Events)]
    /\ NoBuffer \in [events : Seq(Events), timer : BOOLEAN, paused : BOOLEAN,
                     drain : {"none", "queued", "ended", "failed"}]
    /\ NoWork \in [chain : Seq(Ops), stage : Stages, batch : Seq(Events)]
    /\ NoOwner \in [live : BOOLEAN, last : Nat, append : {"none", "queued", "failed"}, suffix : Seq(Events)]
    /\ NoFlush \in [st : {"none", "drain", "drained", "queued", "done", "failed"},
                    kind : {"session", "all"}, upTo : Int, seen : Int]
    /\ NotClosing \in [st : {"no", "drain", "look", "tail", "release", "done"},
                       wait : Nat, failed : BOOLEAN, upTo : Int]
<1>1. <<>> \in Seq(Events) /\ <<>> \in Seq(Ops)
  OBVIOUS
<1> QED
  BY <1>1 DEF NoState, NoBuffer, NoWork, NoOwner, NoFlush, NotClosing, Stages, Writes

LEMMA InterruptedType ==
    ASSUME NEW h \in Handles, Types, NEW left \in Interrupted(h)
    PROVE  left \in [made : BOOLEAN, full : Seq(Events), torn : BOOLEAN, tail : Seq(Events)]
<1>1. Bytes(h) \in Seq(Events) /\ <<>> \in Seq(Events)
  BY BytesType
<1>2. file \in [made : BOOLEAN, full : Seq(Events), torn : BOOLEAN, tail : Seq(Events)]
  BY DEF Types, TypeFile
<1>3. file.full \o Bytes(h) \in Seq(Events)
  BY BytesType
<1>4. \A n \in 0 .. Len(Bytes(h)) : SubSeq(Bytes(h), 1, n) \in Seq(Events)
  BY <1>1
<1>5. \/ left = [file EXCEPT !.torn = FALSE, !.tail = <<>>]
      \/ left = Published(Bytes(h))
      \/ left = [file EXCEPT !.full = @ \o Bytes(h)]
      \/ \E n \in 0 .. Len(Bytes(h)) : left = [file EXCEPT !.torn = TRUE, !.tail = SubSeq(Bytes(h), 1, n)]
  BY DEF Interrupted
<1> QED
  BY <1>1, <1>2, <1>3, <1>4, <1>5, PublishedType

LEMMA CrashTypes ==
    ASSUME NEW p \in Procs, Types, Crash(p)
    PROVE  Types'
<1>1. TypeFile'
  BY InterruptedType DEF Crash, Writing, Types, TypeFile
<1>2. TypeShared'
  BY DEF Crash, Types, TypeShared
<1>3. TypeAt'
  BY DEF Crash, Gone, Types, TypeAt
<1>4. TypeState' /\ TypeBuf' /\ TypeWork'
  BY InitialRecords DEF Crash, Reset, Types, TypeState, TypeBuf, TypeWork
<1>5. TypeOwner' /\ TypeFlush' /\ TypeClose'
  BY InitialRecords DEF Crash, Reset, Types, TypeOwner, TypeFlush, TypeClose
<1> QED
  BY <1>1, <1>2, <1>3, <1>4, <1>5 DEF Types

LEMMA CrashKeeps ==
    ASSUME NEW p \in Procs, IInv, Crash(p)
    PROVE  IInv'
<1>1. Types
  BY TypesAre DEF IInv
<1>2. Types'
  BY <1>1, CrashTypes
<1>3. ASSUME NEW h \in Handles PROVE Safe(h)'
  <2>1. Safe(h)
    BY DEF IInv, Ordered, Safe
  <2>2. CASE Proc(h) = p
    <3>1. /\ at'[h] = Gone /\ buf'[h] = NoBuffer /\ work'[h] = NoWork /\ close'[h] = NotClosing
      BY <2>2 DEF Crash, Reset
    <3>2. /\ at'[h].st = "gone" /\ at'[h].lease = "released" /\ close'[h].st = "no"
          /\ work'[h].chain = <<>> /\ work'[h].stage = "idle"
      BY <3>1 DEF Gone, NoWork, NotClosing
    <3> QED
      BY <3>1, <3>2 DEF Safe, Working, Leased, LeaseFits, Releasing, OneDrain, Waited, PastLastLook, Writes
  <2>3. CASE Proc(h) # p
    <3>1. /\ at'[h] = at[h] /\ buf'[h] = buf[h] /\ work'[h] = work[h] /\ close'[h] = close[h]
          /\ stray' = stray /\ (lock = h => lock' = h)
      BY <2>3 DEF Crash, Reset
    <3> QED
      BY <1>1, <2>1, <3>1, Frame DEF Types, TypeShared
  <2> QED
    BY <2>2, <2>3
<1> QED
  BY <1>2, <1>3, TypesAreNext DEF IInv, Ordered, Safe, Leased

-------------------------------------------------------------------------------
(* The theorems *)

LEMMA InitInvariant == Init => IInv
<1> SUFFICES ASSUME Init PROVE IInv
  OBVIOUS
<1>1. <<>> \in Seq(Events)
  OBVIOUS
<1>2. TypeFile /\ TypeShared /\ TypeAt
  BY <1>1 DEF Init, TypeFile, TypeShared, TypeAt
<1>3. TypeState /\ TypeBuf /\ TypeWork
  BY InitialRecords DEF Init, TypeState, TypeBuf, TypeWork
<1>4. TypeOwner /\ TypeFlush /\ TypeClose
  BY InitialRecords DEF Init, TypeOwner, TypeFlush, TypeClose
<1>5. ASSUME NEW h \in Handles PROVE Safe(h)
  <2>1. /\ at[h].st = "unused" /\ at[h].lease = "none"
        /\ buf[h] = NoBuffer /\ work[h] = NoWork /\ close[h] = NotClosing
    BY DEF Init
  <2>2. close[h].st = "no" /\ work[h].chain = <<>> /\ work[h].stage = "idle"
    BY <2>1 DEF NoWork, NotClosing
  <2> QED
    BY <2>1, <2>2 DEF Safe, Working, Leased, LeaseFits, Releasing, OneDrain, Waited, PastLastLook, Writes
<1> QED
  BY <1>2, <1>3, <1>4, <1>5, TypesAre DEF IInv, Ordered, Types, Safe, Leased

LEMMA StepInvariant == IInv /\ [Next]_vars => IInv'
<1> SUFFICES ASSUME IInv, [Next]_vars PROVE IInv'
  OBVIOUS
<1>1. CASE \E h \in Handles, p \in Procs : CreateLookup(h, p) \/ OpenClaim(h, p)
  BY <1>1, OpeningKeeps DEF Opening
<1>2. ASSUME NEW h \in Handles,
             \/ CreateRegister(h) \/ OpenLock(h) \/ OpenRead(h) \/ OpenAdopt(h) \/ OpenFails(h)
             \/ OpenReleases(h) \/ ReleaseLease(h)
      PROVE  IInv'
  BY <1>2, OpeningKeeps, ReleaseLeaseKeeps DEF Opening
<1>3. ASSUME NEW h \in Handles,
             \/ \E n \in Events : ExplicitAppend(h, n)
             \/ GoLive(h) \/ RouteLive(h) \/ TimerFires(h)
             \/ \E kind \in {"session", "all"} : FlushCall(h, kind)
             \/ FlushHandle(h) \/ DrainSettles(h)
      PROVE  IInv'
  BY <1>3, ExplicitAppendKeeps, RoutingKeeps, TimerFiresKeeps, FlushCallKeeps, FlushHandleKeeps, DrainSettlesKeeps
<1>4. ASSUME NEW h \in Handles,
             \/ Begin(h) \/ AcquireLease(h) \/ LeaseRefused(h) \/ Check(h)
             \/ Truncate(h) \/ Rewrite(h) \/ Write(h) \/ Header(h) \/ RefuseExisting(h) \/ Fail(h)
             \/ AppendFails(h) \/ RollBack(h)
      PROVE  IInv'
  BY <1>4, BeginKeeps, AcquireLeaseKeeps, CheckKeeps, RepairKeeps, AppendFailsKeeps, WriteKeeps, FailKeeps
<1>5. ASSUME NEW h \in Handles, Close(h) \/ CloseLook(h) \/ CloseTail(h) \/ CloseRelease(h)
      PROVE  IInv'
  BY <1>5, CloseKeeps, CloseLookKeeps, CloseTailKeeps, CloseReleaseKeeps
<1>6. CASE \E p \in Procs : Crash(p)
  BY <1>6, CrashKeeps
<1>7. CASE UNCHANGED vars
  BY SMTT(60), <1>7 DEF vars, tracker, IInv, TypeOK, Ordered, Working, Leased, LeaseFits, Releasing, OneDrain, Waited, PastLastLook, AwaitedChain
<1> QED
  BY <1>1, <1>2, <1>3, <1>4, <1>5, <1>6, <1>7 DEF Next

LEMMA Inductive == Spec => []IInv
BY InitInvariant, StepInvariant, PTL DEF Spec

\* Every reachable state has its types: the bookkeeping of storage.ts and of the
\* tracker never leaves its domain.
THEOREM TypeCorrect == Spec => []TypeOK
<1>1. IInv => TypeOK
  BY DEF IInv
<1> QED
  BY <1>1, Inductive, PTL

\* A handle that writes holds the kernel lock, however many processes and
\* handles compete for it and wherever they crash (storage.ts: ensureLease and
\* close; lease.ts), until a drain began that close() no longer waits for.
THEOREM LockHeld == Spec => []WriterHoldsLock
<1>1. IInv => WriterHoldsLock
  <2> SUFFICES ASSUME IInv, NEW h \in Handles, ~stray, Exists(h), work[h].stage \in Writes
               PROVE  lock = h
    BY DEF WriterHoldsLock
  <2>1. Types /\ Safe(h)
    BY TypesAre DEF IInv, Ordered, Safe
  <2>2. work[h].chain # <<>> /\ at[h].lease # "none"
    BY <2>1 DEF Safe, Working, Leased, LeaseFits, Releasing, Writes
  <2>3. at[h].lease # "released"
    <3>1. SUFFICES ASSUME at[h].lease = "released" PROVE FALSE
      OBVIOUS
    <3>2. close[h].st \in {"release", "done"}
      BY <2>1, <3>1 DEF Safe, Leased, Releasing, Waited
    <3>3. close[h].wait = 0 /\ Len(work[h].chain) = 0
      BY <2>1, <3>2 DEF Safe, Waited, PastLastLook
    <3> QED
      BY <2>1, <2>2, <3>3 DEF Types, TypeWork
  <2> QED
    BY <2>1, <2>2, <2>3 DEF Safe, Leased, LeaseFits, Releasing, Types, TypeAt
<1> QED
  BY <1>1, Inductive, PTL
=============================================================================
