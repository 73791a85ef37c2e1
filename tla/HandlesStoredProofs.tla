------------------------- MODULE HandlesStoredProofs -------------------------
(***************************************************************************)
(* What the write handles of SessionHandles hand over is stored, in order, *)
(* and stays: theorems for any processes, handles and events.              *)
(*                                                                         *)
(* The inductive invariant is Told, about one handle at a time. Owes says  *)
(* where every event of an open handle is: behind the cursor, in the batch *)
(* or in the buffer, each continuing the one before. Repaired ties the     *)
(* cursor to the file, and Owed is what a promise still under way amounts  *)
(* to: the events are stored, or they are among those the handle owes. It  *)
(* holds for every fault, and after a stray drain too. Only that nothing   *)
(* is stored twice needs the kernel lock (Led), and faults that are rolled *)
(* back.                                                                   *)
(***************************************************************************)
EXTENDS SessionHandlesProofs

USE BoundAssumption, NoneAssumption
USE DEF Exists, Proc

-------------------------------------------------------------------------------
(* Consecutive events                                                       *)

\* s is what comes after the first a events.
Continues(s, a) == \A i \in 1 .. Len(s) : s[i] = a + i

LEMMA ContinuesJoin ==
    ASSUME NEW s \in Seq(Events), NEW t \in Seq(Events), NEW a \in Nat,
           Continues(s, a), Continues(t, a + Len(s))
    PROVE  Continues(s \o t, a)
<1>1. Len(s) \in Nat /\ Len(t) \in Nat /\ Len(s \o t) = Len(s) + Len(t)
  OBVIOUS
<1>2. ASSUME NEW i \in 1 .. Len(s \o t) PROVE (s \o t)[i] = a + i
  <2>1. CASE i <= Len(s)
    BY <1>1, <2>1 DEF Continues
  <2>2. CASE i > Len(s)
    <3>1. i - Len(s) \in 1 .. Len(t) /\ (s \o t)[i] = t[i - Len(s)]
      BY <1>1, <2>2
    <3>2. t[i - Len(s)] = a + Len(s) + (i - Len(s))
      BY <3>1 DEF Continues
    <3> QED
      BY <1>1, <3>1, <3>2
  <2> QED
    BY <1>1, <2>1, <2>2
<1> QED
  BY <1>2, Zenon DEF Continues

LEMMA ContinuesNext ==
    ASSUME NEW s \in Seq(Events), NEW a \in Nat, Continues(s, a)
    PROVE  Continues(Append(s, a + Len(s) + 1), a)
<1> DEFINE t == Append(s, a + Len(s) + 1)
<1>1. Len(s) \in Nat /\ Len(t) = Len(s) + 1
  OBVIOUS
<1>2. ASSUME NEW i \in 1 .. Len(t) PROVE t[i] = a + i
  <2>1. CASE i <= Len(s)
    BY <1>1, <2>1 DEF Continues
  <2>2. CASE i = Len(s) + 1
    BY <1>1, <2>2
  <2> QED
    BY <1>1, <2>1, <2>2
<1> HIDE DEF t
<1> QED
  BY <1>2, Zenon DEF Continues, t

LEMMA SpanContinues ==
    ASSUME NEW a \in Nat, NEW b \in Nat, a <= b
    PROVE  Continues(Span(a + 1, b), a) /\ Len(Span(a + 1, b)) = b - a
<1> DEFINE n == b - a
<1>1. n \in Nat /\ b - (a + 1) + 1 = n
  OBVIOUS
<1>2. Span(a + 1, b) = [i \in 1 .. n |-> (a + 1) + i - 1]
  BY <1>1 DEF Span
<1> HIDE DEF n
<1>3. Len(Span(a + 1, b)) = n
  BY <1>1, <1>2
<1> QED
  BY <1>1, <1>2, <1>3 DEF Continues, n

LEMMA ContinuesSpan ==
    ASSUME NEW s \in Seq(Events), NEW a \in Nat, Continues(s, a)
    PROVE  s = Span(a + 1, a + Len(s))
<1>1. Len(s) \in Nat /\ a + Len(s) - (a + 1) + 1 = Len(s)
  OBVIOUS
<1>2. Span(a + 1, a + Len(s)) = [i \in 1 .. Len(s) |-> (a + 1) + i - 1]
  BY <1>1 DEF Span
<1>3. s = [i \in 1 .. Len(s) |-> s[i]]
  OBVIOUS
<1>4. \A i \in 1 .. Len(s) : s[i] = (a + 1) + i - 1
  BY DEF Continues
<1> QED
  BY <1>2, <1>3, <1>4

-------------------------------------------------------------------------------
(* The operations on a chain                                                *)

Has(chain, op) == \E i \in 1 .. Len(chain) : chain[i] = op
Once(chain, op) == \A i, j \in 1 .. Len(chain) : chain[i] = op /\ chain[j] = op => i = j

LEMMA HasAppend ==
    ASSUME NEW s \in Seq(Ops), NEW x \in Ops, NEW op \in Ops
    PROVE  /\ Has(Append(s, x), op) <=> Has(s, op) \/ x = op
           /\ Once(s, op) /\ (x = op => ~Has(s, op)) => Once(Append(s, x), op)
<1> DEFINE t == Append(s, x)
<1>1. /\ Len(s) \in Nat /\ Len(t) = Len(s) + 1 /\ t[Len(s) + 1] = x
      /\ \A i \in 1 .. Len(s) : t[i] = s[i]
  OBVIOUS
<1> HIDE DEF t
<1>2. /\ \A i \in 1 .. Len(s) : i \in 1 .. Len(t)
      /\ Len(s) + 1 \in 1 .. Len(t)
      /\ \A i \in 1 .. Len(t) : i \in 1 .. Len(s) \/ i = Len(s) + 1
  BY <1>1
<1>3. Has(t, op) <=> Has(s, op) \/ x = op
  <2>1. ASSUME Has(t, op) PROVE Has(s, op) \/ x = op
    BY <1>1, <1>2, <2>1, Zenon DEF Has
  <2>2. ASSUME Has(s, op) PROVE Has(t, op)
    BY <1>1, <1>2, <2>2, Zenon DEF Has
  <2>3. ASSUME x = op PROVE Has(t, op)
    BY <1>1, <1>2, <2>3, Zenon DEF Has
  <2> QED
    BY <2>1, <2>2, <2>3
<1>4. ASSUME Once(s, op), x = op => ~Has(s, op) PROVE Once(t, op)
  <2> SUFFICES ASSUME NEW i \in 1 .. Len(t), NEW j \in 1 .. Len(t), t[i] = op, t[j] = op PROVE i = j
    BY Zenon DEF Once
  <2>1. CASE i \in 1 .. Len(s) /\ j \in 1 .. Len(s)
    BY <1>1, <1>4, <2>1, Zenon DEF Once
  <2>2. CASE i = Len(s) + 1 \/ j = Len(s) + 1
    <3>1. CASE x = op
      BY <1>1, <1>2, <1>4, <3>1, Zenon DEF Has
    <3>2. CASE x # op
      BY <1>1, <2>2, <3>2
    <3> QED
      BY <3>1, <3>2
  <2> QED
    BY <1>2, <2>1, <2>2
<1> QED
  BY <1>3, <1>4 DEF t

LEMMA HasTail ==
    ASSUME NEW s \in Seq(Ops), s # <<>>, NEW op \in Ops, Once(s, op)
    PROVE  /\ Once(Tail(s), op)
           /\ Has(s, Head(s))
           /\ Has(Tail(s), op) <=> Has(s, op) /\ Head(s) # op
<1> DEFINE t == Tail(s)
<1>1. /\ Len(s) \in Nat \ {0} /\ Len(t) = Len(s) - 1 /\ s[1] = Head(s)
      /\ \A i \in 1 .. Len(t) : t[i] = s[i + 1]
  BY ChainType
<1> HIDE DEF t
<1>2. /\ 1 \in 1 .. Len(s)
      /\ \A i \in 1 .. Len(t) : i + 1 \in 1 .. Len(s) /\ i + 1 # 1
      /\ \A i \in 1 .. Len(s) : i = 1 \/ (i - 1 \in 1 .. Len(t) /\ (i - 1) + 1 = i)
  BY <1>1
<1>3. Once(t, op)
  <2> SUFFICES ASSUME NEW i \in 1 .. Len(t), NEW j \in 1 .. Len(t), t[i] = op, t[j] = op PROVE i = j
    BY Zenon DEF Once
  <2>1. s[i + 1] = op /\ s[j + 1] = op
    BY <1>1
  <2>2. i + 1 = j + 1
    BY <1>2, <2>1, Zenon DEF Once
  <2> QED
    BY <2>2
<1>4. Has(s, Head(s))
  BY <1>1, <1>2, Zenon DEF Has
<1>5. ASSUME Has(t, op) PROVE Has(s, op) /\ Head(s) # op
  <2>1. PICK i \in 1 .. Len(t) : t[i] = op
    BY <1>5 DEF Has
  <2>2. s[i + 1] = op
    BY <1>1, <2>1
  <2> QED
    BY <1>1, <1>2, <2>2, Zenon DEF Has, Once
<1>6. ASSUME Has(s, op), Head(s) # op PROVE Has(t, op)
  <2>1. PICK i \in 1 .. Len(s) : s[i] = op
    BY <1>6 DEF Has
  <2>2. i # 1
    BY <1>1, <1>6, <2>1
  <2>3. t[i - 1] = op
    BY <1>1, <1>2, <2>1, <2>2
  <2> QED
    BY <1>2, <2>2, <2>3, Zenon DEF Has
<1> QED
  BY <1>3, <1>4, <1>5, <1>6 DEF t

-------------------------------------------------------------------------------
(* The inductive invariant                                                  *)

nFull == Len(file.full)
nRecovered(h) == Len(state[h].recovered)
nBatch(h) == Len(work[h].batch)
nEvents(h) == Len(buf[h].events)
nSuffix(h) == Len(owner[h].suffix)

\* Where the events of an open handle are: stored up to the cursor, then the
\* batch, then the buffer, or the suffix of an explicit append.
Owes(h) ==
    /\ owner[h].append # "queued" => owner[h].suffix = <<>>
    /\ owner[h].append # "none" => ~owner[h].live
    /\ ~owner[h].live => buf[h].events = <<>> /\ buf[h].drain # "queued"
    /\ owner[h].append = "none" =>
          /\ Continues(work[h].batch, state[h].cursor)
          /\ Continues(buf[h].events, state[h].cursor + nBatch(h))
          /\ owner[h].last = state[h].cursor + nBatch(h) + nEvents(h)
    /\ owner[h].append = "queued" =>
          /\ Continues(owner[h].suffix, state[h].cursor)
          /\ owner[h].last = state[h].cursor + nSuffix(h)

\* The chain holds the explicit append and the flush that wait for it, once.
Chained(h) ==
    /\ Has(work[h].chain, "append") => owner[h].append = "queued"
    /\ Has(work[h].chain, "flush") => flush[h].st = "queued"
    /\ Once(work[h].chain, "append") /\ Once(work[h].chain, "flush")

\* The batch is that of the running operation.
Batched(h) ==
    /\ work[h].stage = "idle" => work[h].batch = <<>>
    /\ work[h].stage # "idle" /\ Head(work[h].chain) = "append" => work[h].batch = owner[h].suffix
    /\ work[h].stage # "idle" /\ Head(work[h].chain) = "flush" => work[h].batch = <<>>
    /\ work[h].stage = "header" => Head(work[h].chain) = "flush"

\* A write comes after the repair, and the cursor is not beyond the file and
\* what is to be recovered.
Repaired(h) ==
    /\ work[h].stage \in {"rewrite", "write", "rollback"} => ~state[h].torn
    /\ work[h].stage = "rewrite" => state[h].recovered # <<>>
    /\ work[h].stage = "write" => state[h].recovered = <<>>
    /\ work[h].stage \in {"truncate", "rewrite", "rollback"} => state[h].made
    /\ ~state[h].made => state[h].cursor = 0 /\ ~state[h].torn /\ state[h].recovered = <<>>
    /\ state[h].made \/ at[h].st = "locked" => file.made
    /\ state[h].cursor <= nFull + nRecovered(h)

\* A handle that is not open owes nothing, and knows nothing before its read.
Fresh(h) ==
    ~Exists(h) => /\ owner[h] = NoOwner /\ flush[h].st = "none"
                  /\ at[h].st \in {"unused", "creating", "claimed", "locked"} => state[h] = NoState

\* The first n events are stored, or the handle still owes those that are not.
Owed(h, n) ==
    \/ n <= nFull
    \/ /\ owner[h].live /\ n <= owner[h].last
       /\ state[h].recovered # <<>> => n > state[h].cursor

\* What the drain of a flush can see is owed until the drain has ended, and then
\* stored.
Flushed(h) ==
    /\ flush[h].st = "drain" => buf[h].drain # "none"
    /\ flush[h].st = "drain" => Owed(h, flush[h].seen)
    /\ flush[h].st = "drain" /\ buf[h].drain = "ended" => flush[h].seen <= nFull
    /\ flush[h].st \in {"drained", "queued", "done"} => flush[h].seen <= nFull

\* What close() waits for is owed until its last look found nothing more.
Closed(h) ==
    /\ close[h].st \in {"drain", "look"} => Owed(h, close[h].upTo)
    /\ ~stray /\ PastLastLook(h) /\ ~close[h].failed => close[h].upTo <= nFull

Tells(h) == /\ Exists(h) => Owes(h)
            /\ Chained(h) /\ Batched(h) /\ Repaired(h) /\ Fresh(h) /\ Flushed(h) /\ Closed(h)

\* A file that is not there is empty, and what was acknowledged is in it.
Shape ==
    /\ ~file.made => file.full = <<>> /\ file.tail = <<>> /\ ~file.torn
    /\ ~file.torn => file.tail = <<>>
    /\ acked <= nFull

Told == Shape /\ \A h \in Handles : Tells(h)

-------------------------------------------------------------------------------
(* The steps of others                                                      *)

\* The file never loses a complete event.
Grows == nFull <= nFull' /\ (file.made => file'.made)

\* A step of h leaves the other handles as they are.
Alone(h) ==
    \A g \in Handles \ {h} :
        /\ at'[g] = at[g] /\ state'[g] = state[g] /\ buf'[g] = buf[g] /\ work'[g] = work[g]
        /\ owner'[g] = owner[g] /\ flush'[g] = flush[g] /\ close'[g] = close[g]

\* What the type invariant says of the fields of h.
Sorts(h) ==
    /\ state[h].cursor \in Nat /\ state[h].made \in BOOLEAN /\ state[h].torn \in BOOLEAN
    /\ state[h].recovered \in Seq(Events) /\ nRecovered(h) \in Nat
    /\ buf[h].events \in Seq(Events) /\ nEvents(h) \in Nat
    /\ work[h].batch \in Seq(Events) /\ nBatch(h) \in Nat /\ work[h].chain \in Seq(Ops)
    /\ owner[h].last \in Nat /\ owner[h].live \in BOOLEAN /\ owner[h].suffix \in Seq(Events)
    /\ nSuffix(h) \in Nat
    /\ flush[h].seen \in Int
    /\ close[h].upTo \in Int /\ close[h].failed \in BOOLEAN
    /\ file.full \in Seq(Events) /\ nFull \in Nat
    /\ file.tail \in Seq(Events)
    /\ file.made \in BOOLEAN /\ file.torn \in BOOLEAN /\ acked \in Nat /\ stray \in BOOLEAN

LEMMA SortsAre ==
    ASSUME NEW h \in Handles, Types
    PROVE  Sorts(h)
<1>1. /\ state[h].cursor \in Nat /\ state[h].made \in BOOLEAN /\ state[h].torn \in BOOLEAN
      /\ state[h].recovered \in Seq(Events)
  BY DEF Types, TypeState
<1>2. buf[h].events \in Seq(Events) /\ work[h].batch \in Seq(Events) /\ work[h].chain \in Seq(Ops)
  BY DEF Types, TypeBuf, TypeWork
<1>3. owner[h].last \in Nat /\ owner[h].live \in BOOLEAN /\ owner[h].suffix \in Seq(Events)
  BY DEF Types, TypeOwner
<1>4. /\ flush[h].seen \in Int
      /\ close[h].upTo \in Int /\ close[h].failed \in BOOLEAN
  BY DEF Types, TypeFlush, TypeClose
<1>5. /\ file.full \in Seq(Events) /\ file.tail \in Seq(Events) /\ file.made \in BOOLEAN /\ file.torn \in BOOLEAN
      /\ acked \in Nat /\ stray \in BOOLEAN
  BY DEF Types, TypeFile, TypeShared
<1>6. /\ nRecovered(h) \in Nat /\ nEvents(h) \in Nat /\ nBatch(h) \in Nat
      /\ nSuffix(h) \in Nat /\ nFull \in Nat
  <2>1. \A s \in Seq(Events) : Len(s) \in Nat
    OBVIOUS
  <2> QED
    BY <1>1, <1>2, <1>3, <1>5, <2>1, Zenon DEF nFull, nRecovered, nBatch, nEvents, nSuffix
<1> QED
  BY <1>1, <1>2, <1>3, <1>4, <1>5, <1>6 DEF Sorts

LEMMA SortsOf == IInv => \A h \in Handles : Sorts(h)
BY TypesAre, SortsAre DEF IInv

LEMMA SortsNext == IInv' => (\A h \in Handles : Sorts(h))'
BY SortsOf, PTL

LEMMA TellsStays ==
    ASSUME NEW h \in Handles, Tells(h), Sorts(h), Sorts(h)', Grows, stray => stray',
           at'[h] = at[h], state'[h] = state[h], buf'[h] = buf[h], work'[h] = work[h],
           owner'[h] = owner[h], flush'[h] = flush[h], close'[h] = close[h]
    PROVE  Tells(h)'
<1>1. (Exists(h) => Owes(h))' /\ Chained(h)' /\ Batched(h)' /\ Fresh(h)'
  BY DEF Tells, Owes, Chained, Batched, Fresh, nBatch, nEvents, nSuffix
<1>2. Repaired(h)' /\ nRecovered(h)' = nRecovered(h)
  <2>1. state[h].cursor <= nFull' + nRecovered(h)
    <3>1. state[h].cursor <= nFull + nRecovered(h) /\ nFull <= nFull'
      BY DEF Tells, Repaired, Grows
    <3>2. state[h].cursor \in Nat /\ nRecovered(h) \in Nat /\ nFull \in Nat /\ nFull' \in Nat
      BY DEF Sorts
    <3> QED
      BY <3>1, <3>2
  <2> QED
    BY <2>1 DEF Tells, Repaired, Grows, nRecovered
<1>3. \A n \in Int : (n <= nFull => n <= nFull') /\ (Owed(h, n) => Owed(h, n)')
  <2>1. nFull \in Nat /\ nFull' \in Nat /\ nFull <= nFull'
    BY DEF Sorts, Grows
  <2>2. \A n \in Int : n <= nFull => n <= nFull'
    BY <2>1
  <2> QED
    BY <2>2 DEF Owed
<1>4. Flushed(h)'
  BY <1>3 DEF Tells, Flushed, Sorts
<1>5. Closed(h)'
  BY <1>3 DEF Tells, Closed, PastLastLook, Sorts
<1> QED
  BY <1>1, <1>2, <1>4, <1>5 DEF Tells

LEMMA StepTells ==
    ASSUME NEW h \in Handles, IInv, IInv', Told, Tells(h)', Alone(h), Grows, Shape', stray => stray'
    PROVE  Told'
<1>1. ASSUME NEW g \in Handles PROVE Sorts(g) /\ Sorts(g)'
  BY SortsOf, SortsNext
<1>2. ASSUME NEW g \in Handles PROVE Tells(g)'
  <2>1. CASE g = h
    BY <2>1
  <2>2. CASE g # h
    BY <1>1, <2>2, TellsStays DEF Told, Alone
  <2> QED
    BY <2>1, <2>2
<1> QED
  BY <1>2 DEF Told

-------------------------------------------------------------------------------
(* create() and open()                                                      *)

\* What every step knows of h.
LEMMA Known ==
    ASSUME NEW h \in Handles, IInv, IInv', Told
    PROVE  Types /\ Types' /\ Sorts(h) /\ Sorts(h)' /\ Safe(h) /\ Safe(h)' /\ Tells(h) /\ Shape
<1>1. Types /\ Types'
  BY TypesAre, TypesAreNext DEF IInv
<1>2. Sorts(h) /\ Sorts(h)'
  BY SortsOf, SortsNext
<1>3. Safe(h) /\ Safe(h)'
  BY DEF IInv, Ordered, Safe
<1> QED
  BY <1>1, <1>2, <1>3 DEF Told

LEMMA EmptyContinues ==
    ASSUME NEW a
    PROVE  Continues(<<>>, a)
BY DEF Continues

LEMMA EmptyChain == ~Has(<<>>, "append") /\ ~Has(<<>>, "flush") /\ Once(<<>>, "append") /\ Once(<<>>, "flush")
BY DEF Has, Once

\* A handle that is not open does nothing.
LEMMA Unopened ==
    ASSUME NEW h \in Handles, Types, Safe(h), Tells(h), ~Exists(h)
    PROVE  /\ work[h].chain = <<>> /\ work[h].stage = "idle" /\ work[h].batch = <<>> /\ nBatch(h) = 0
           /\ buf[h].events = <<>> /\ nEvents(h) = 0 /\ buf[h].drain = "none"
           /\ close[h].st = "no" /\ flush[h].st = "none"
           /\ owner[h] = NoOwner /\ ~owner[h].live /\ owner[h].append = "none"
           /\ owner[h].last = 0 /\ owner[h].suffix = <<>>
<1>1. work[h] = NoWork /\ buf[h] = NoBuffer /\ close[h] = NotClosing
  BY DEF Safe, Working
<1>2. owner[h] = NoOwner /\ flush[h].st = "none"
  BY DEF Tells, Fresh
<1> QED
  BY <1>1, <1>2 DEF NoWork, NoBuffer, NotClosing, NoOwner, nBatch, nEvents

\* It owes nothing once it is open, and what it has read is what is stored.
LEMMA OpenedTells ==
    ASSUME NEW h \in Handles, IInv, IInv', Told, ~Exists(h), UNCHANGED <<file, buf, work, flush, close, stray>>,
           at'[h].st # "locked" \/ file.made,
           \/ /\ ~Exists(h)' /\ owner' = owner
              /\ at'[h].st \in {"unused", "creating", "claimed", "locked"} => state'[h] = NoState
              /\ \/ state'[h] = state[h]
                 \/ /\ state'[h].made /\ file.made
                    /\ state'[h].cursor = nFull + nRecovered(h)'
           \/ /\ state' = state /\ owner'[h].live = FALSE /\ owner'[h].append = "none"
              /\ owner'[h].suffix = <<>> /\ owner'[h].last = state[h].cursor
              /\ at'[h].st = "open"
    PROVE  Tells(h)'
<1>1. Types /\ Sorts(h) /\ Sorts(h)' /\ Safe(h) /\ Tells(h) /\ Shape
  BY Known
<1>2. /\ work'[h].chain = <<>> /\ work'[h].stage = "idle" /\ work'[h].batch = <<>> /\ nBatch(h)' = 0
      /\ buf'[h].events = <<>> /\ nEvents(h)' = 0 /\ buf'[h].drain = "none"
      /\ close'[h].st = "no" /\ flush'[h].st = "none" /\ nFull' = nFull
  BY <1>1, Unopened DEF nBatch, nEvents, nFull
<1>3. Chained(h)' /\ Batched(h)' /\ Flushed(h)' /\ Closed(h)'
  BY <1>2, EmptyChain DEF Chained, Batched, Flushed, Closed, PastLastLook
<1>4. Repaired(h)'
  <2>1. CASE state'[h] = state[h]
    <3>1. nRecovered(h)' = nRecovered(h)
      BY <2>1 DEF nRecovered
    <3> QED
      BY <1>1, <1>2, <2>1, <3>1 DEF Tells, Repaired
  <2>2. CASE state'[h].made /\ file.made /\ state'[h].cursor = nFull + nRecovered(h)'
    <3>1. state'[h].cursor <= nFull' + nRecovered(h)'
      BY <1>1, <1>2, <2>2 DEF Sorts
    <3> QED
      BY <1>2, <2>2, <3>1 DEF Repaired
  <2> QED
    BY <2>1, <2>2
<1>5. Fresh(h)'
  BY <1>1, <1>2, Unopened DEF Fresh
<1>6. Exists(h)' => Owes(h)'
  <2> SUFFICES ASSUME Exists(h)' PROVE Owes(h)'
    OBVIOUS
  <2>1. /\ owner'[h].live = FALSE /\ owner'[h].append = "none" /\ owner'[h].suffix = <<>>
        /\ owner'[h].last = state'[h].cursor
    OBVIOUS
  <2>2. state'[h].cursor = state'[h].cursor + 0 + 0
    <3>1. state'[h].cursor \in Nat
      BY <1>1 DEF Sorts
    <3> QED
      BY <3>1
  <2> QED
    BY <1>2, <2>1, <2>2, EmptyContinues DEF Owes
<1> QED
  BY <1>3, <1>4, <1>5, <1>6 DEF Tells

LEMMA OpeningTells ==
    ASSUME NEW h \in Handles, IInv, IInv', Told, Opening(h)
    PROVE  Told'
<1> USE DEF handleVars, tracker
<1>1. Types /\ Types' /\ Sorts(h) /\ Sorts(h)' /\ Safe(h) /\ Tells(h) /\ Shape
  BY Known
<1>2. UNCHANGED <<file, buf, work, flush, close, acked, stray>> /\ ~Exists(h)
  BY DEF Opening, CreateRegister, OpenLock, OpenRead, OpenAdopt, OpenFails, OpenReleases, CreateLookup, OpenClaim
<1>3. Alone(h)
  BY <1>1, <1>2 DEF Alone, Opening, CreateRegister, OpenLock, OpenRead, OpenAdopt, OpenFails, OpenReleases, CreateLookup, OpenClaim,
        Types, TypeAt, TypeState, TypeOwner
<1>4. Grows /\ Shape'
  BY <1>1, <1>2 DEF Grows, Shape, nFull, Sorts
<1>5. /\ owner[h].live = FALSE /\ owner[h].append = "none" /\ owner[h].last = 0 /\ owner[h].suffix = <<>>
      /\ owner[h] = NoOwner
      /\ at[h].st \in {"unused", "creating", "claimed", "locked"} => state[h] = NoState
  BY <1>1, <1>2, Unopened DEF Tells, Fresh, Sorts
<1>6. CASE CreateRegister(h) \/ OpenAdopt(h)
  <2>1. CASE at'[h].st = "open"
    <3>1. /\ state' = state /\ owner'[h].live = FALSE /\ owner'[h].append = "none"
          /\ owner'[h].suffix = <<>> /\ owner'[h].last = state[h].cursor
      BY <1>1, <1>5, <1>6 DEF CreateRegister, OpenAdopt, Types, TypeOwner, NoState
    <3> QED
      BY <1>2, <1>3, <1>4, <2>1, <3>1, OpenedTells, StepTells
  <2>2. CASE at'[h].st # "open"
    <3>1. owner' = owner /\ state' = state /\ at'[h].st = "gone"
      BY <1>1, <1>6, <2>2 DEF CreateRegister, OpenAdopt, Types, TypeAt
    <3> QED
      BY <1>2, <1>3, <1>4, <2>2, <3>1, OpenedTells, StepTells
  <2> QED
    BY <2>1, <2>2
<1>7. CASE \/ OpenLock(h) \/ OpenFails(h) \/ OpenReleases(h)
           \/ \E p \in Procs : CreateLookup(h, p) \/ OpenClaim(h, p)
  <2>1. /\ owner' = owner /\ state' = state
        /\ \/ at'[h].st \in {"creating", "claimed"} /\ at[h].st = "unused"
           \/ at'[h].st = "locked" /\ at[h].st = "claimed" /\ file.made
           \/ at'[h].st \in {"failing", "gone"}
    BY <1>1, <1>7 DEF OpenLock, OpenFails, OpenReleases, CreateLookup, OpenClaim, Types, TypeAt
  <2> QED
    BY <1>2, <1>3, <1>4, <1>5, <2>1, OpenedTells, StepTells
<1>8. CASE OpenRead(h)
  <2>1. owner' = owner /\ at'[h].st = "read" /\ at[h].st = "locked" /\ file.made
    BY <1>1, <1>8 DEF OpenRead, Types, TypeAt, Tells, Repaired
  <2>2. state'[h].made /\ state'[h].cursor = Len(Stored) /\ state'[h].recovered = file.tail
    BY <1>1, <1>8 DEF OpenRead, Types, TypeState
  <2>3. Len(Stored) = Len(file.full) + Len(file.tail)
    BY <1>1 DEF Sorts, Stored
  <2>4. state'[h].cursor = nFull + nRecovered(h)'
    BY <2>2, <2>3 DEF nFull, nRecovered
  <2> QED
    BY <1>2, <1>3, <1>4, <2>1, <2>2, <2>4, OpenedTells, StepTells
<1> QED
  BY <1>6, <1>7, <1>8 DEF Opening

-------------------------------------------------------------------------------
(* What reaches the chain                                                   *)

\* Who waits for the operation at the head of the chain.
LEMMA HeadIs ==
    ASSUME NEW h \in Handles, Types, Safe(h), Tells(h), work[h].chain # <<>>
    PROVE  /\ Head(work[h].chain) \in Ops
           /\ Head(work[h].chain) = "drain" => buf[h].drain = "queued"
           /\ Head(work[h].chain) = "append" => owner[h].append = "queued"
           /\ Head(work[h].chain) = "flush" => flush[h].st = "queued"
<1> DEFINE c == work[h].chain
<1>1. c \in Seq(Ops)
  BY DEF Types, TypeWork
<1>2. Head(c) \in Ops /\ c[1] = Head(c) /\ Len(c) \in Nat \ {0}
  BY <1>1, ChainType
<1>3. 1 \in 1 .. Len(c)
  BY <1>2
<1>4. Has(c, Head(c))
  BY <1>2, <1>3, Zenon DEF Has
<1>5. ASSUME Head(c) = "drain" PROVE buf[h].drain = "queued"
  <2>1. work[h].chain[1] = "drain"
    BY <1>2, <1>5
  <2> QED
    BY <1>3, <2>1, Zenon DEF Safe, OneDrain
<1> QED
  BY <1>2, <1>4, <1>5 DEF Tells, Chained

\* Without a drain or an append under way, nothing is being written.
LEMMA NoBatch ==
    ASSUME NEW h \in Handles, Types, Safe(h), Tells(h), owner[h].append # "queued", buf[h].drain # "queued"
    PROVE  work[h].batch = <<>> /\ nBatch(h) = 0
<1>1. CASE work[h].stage = "idle"
  BY <1>1 DEF Tells, Batched, nBatch
<1>2. CASE work[h].stage # "idle"
  <2>1. work[h].chain # <<>>
    BY <1>2 DEF Safe, Working
  <2>2. Head(work[h].chain) = "flush"
    BY <2>1, HeadIs DEF Ops
  <2> QED
    BY <1>2, <2>2 DEF Tells, Batched, nBatch
<1> QED
  BY <1>1, <1>2

LEMMA ExplicitAppendTells ==
    ASSUME NEW h \in Handles, NEW n \in Events, IInv, IInv', Told, ExplicitAppend(h, n)
    PROVE  Told'
<1>1. Types /\ Types' /\ Sorts(h) /\ Sorts(h)' /\ Safe(h) /\ Tells(h) /\ Shape
  BY Known
<1>2. /\ UNCHANGED <<file, at, state, buf, flush, close, acked, stray>>
      /\ at[h].st = "open" /\ ~owner[h].live /\ owner[h].append = "none"
  BY DEF ExplicitAppend
<1>3. /\ owner'[h].append = "queued" /\ owner'[h].live = owner[h].live
      /\ owner'[h].suffix = Span(owner[h].last + 1, owner[h].last + n)
      /\ owner'[h].last = owner[h].last + n
      /\ \A g \in Handles \ {h} : owner'[g] = owner[g]
  BY <1>1 DEF ExplicitAppend, Types, TypeOwner
<1>4. /\ work'[h].chain = Append(work[h].chain, "append")
      /\ work'[h].stage = work[h].stage /\ work'[h].batch = work[h].batch
      /\ \A g \in Handles \ {h} : work'[g] = work[g]
  BY <1>1 DEF ExplicitAppend, Types, TypeWork
<1>5. buf[h].events = <<>> /\ buf[h].drain # "queued" /\ nEvents(h) = 0
  BY <1>1, <1>2 DEF Tells, Owes, nEvents
<1>6. work[h].batch = <<>> /\ nBatch(h) = 0
  BY <1>1, <1>2, <1>5, NoBatch
<1>7. owner[h].last = state[h].cursor
  <2>1. owner[h].last = state[h].cursor + nBatch(h) + nEvents(h) /\ state[h].cursor \in Nat
    BY <1>1, <1>2 DEF Tells, Owes, Sorts
  <2> QED
    BY <1>5, <1>6, <2>1
<1>8. Continues(owner'[h].suffix, state'[h].cursor) /\ owner'[h].last = state'[h].cursor + nSuffix(h)'
  <2>1. n \in Nat /\ owner[h].last \in Nat
    BY <1>1 DEF Sorts, Events
  <2>2. /\ owner[h].last + n \in Nat /\ owner[h].last <= owner[h].last + n
        /\ (owner[h].last + n) - owner[h].last = n
    BY <2>1
  <2>3. /\ Continues(owner'[h].suffix, owner[h].last)
        /\ Len(owner'[h].suffix) = n
    BY <1>3, <2>1, <2>2, SpanContinues
  <2> QED
    BY <1>2, <1>3, <1>7, <2>3 DEF nSuffix
<1>9. Owes(h)'
  BY <1>2, <1>3, <1>5, <1>8 DEF Owes
<1>10. Chained(h)'
  <2>1. work[h].chain \in Seq(Ops) /\ "append" \in Ops /\ "flush" \in Ops
    BY <1>1 DEF Sorts, Ops
  <2>2. ~Has(work[h].chain, "append") /\ Once(work[h].chain, "append") /\ Once(work[h].chain, "flush")
    BY <1>1, <1>2 DEF Tells, Chained
  <2>3. Has(work'[h].chain, "flush") <=> Has(work[h].chain, "flush")
    BY <1>4, <2>1, HasAppend
  <2>4. Once(work'[h].chain, "append") /\ Once(work'[h].chain, "flush")
    BY <1>4, <2>1, <2>2, HasAppend
  <2> QED
    BY <1>1, <1>2, <1>3, <2>3, <2>4 DEF Tells, Chained
<1>11. Batched(h)'
  <2>1. work[h].stage # "idle" => Head(work'[h].chain) = Head(work[h].chain) /\ Head(work[h].chain) # "append"
    <3> SUFFICES ASSUME work[h].stage # "idle" PROVE Head(work'[h].chain) = Head(work[h].chain) /\ Head(work[h].chain) # "append"
      OBVIOUS
    <3>1. work[h].chain # <<>> /\ work[h].chain \in Seq(Ops)
      BY <1>1 DEF Safe, Working, Sorts
    <3>2. Head(Append(work[h].chain, "append")) = Head(work[h].chain)
      BY <3>1
    <3> QED
      BY <1>1, <1>2, <1>4, <3>1, <3>2, HeadIs
  <2> QED
    BY <1>1, <1>4, <2>1 DEF Tells, Batched
<1>12. Repaired(h)' /\ Fresh(h)'
  BY <1>1, <1>2, <1>4 DEF Tells, Repaired, Fresh, nFull, nRecovered
<1>13. Flushed(h)' /\ Closed(h)'
  <2>1. \A k \in Int : Owed(h, k) => Owed(h, k)'
    BY <1>2 DEF Owed, nFull
  <2> QED
    BY <1>1, <1>2, <2>1 DEF Tells, Flushed, Closed, PastLastLook, Sorts, nFull
<1>14. Tells(h)'
  BY <1>9, <1>10, <1>11, <1>12, <1>13 DEF Tells
<1>15. Alone(h) /\ Grows /\ Shape' /\ (stray => stray')
  BY <1>1, <1>2, <1>3, <1>4 DEF Alone, Grows, Shape, nFull, Sorts
<1> QED
  BY <1>14, <1>15, StepTells

\* The owner publishes the session.
LEMMA GoLiveTells ==
    ASSUME NEW h \in Handles, IInv, IInv', Told, GoLive(h)
    PROVE  Told'
<1>1. Types /\ Types' /\ Sorts(h) /\ Sorts(h)' /\ Safe(h) /\ Tells(h) /\ Shape
  BY Known
<1>2. /\ UNCHANGED <<file, at, state, buf, work, flush, close, acked, stray>>
      /\ Exists(h) /\ ~owner[h].live /\ owner[h].append = "none"
  BY DEF GoLive
<1>3. /\ owner'[h].live = TRUE /\ owner'[h].append = owner[h].append /\ owner'[h].last = owner[h].last
      /\ owner'[h].suffix = owner[h].suffix
      /\ \A g \in Handles \ {h} : owner'[g] = owner[g]
  BY <1>1 DEF GoLive, Types, TypeOwner
<1>4. Owes(h)' /\ Chained(h)' /\ Batched(h)' /\ Repaired(h)' /\ Fresh(h)'
  BY <1>1, <1>2, <1>3 DEF Tells, Owes, Chained, Batched, Repaired, Fresh, nFull, nRecovered, nBatch, nEvents
<1>5. \A k \in Int : Owed(h, k) => Owed(h, k)'
  BY <1>2, <1>3 DEF Owed, nFull
<1>6. Flushed(h)' /\ Closed(h)'
  BY <1>1, <1>2, <1>5 DEF Tells, Flushed, Closed, PastLastLook, Sorts, nFull
<1>7. Alone(h) /\ Grows /\ Shape' /\ (stray => stray')
  BY <1>1, <1>2, <1>3 DEF Alone, Grows, Shape, nFull, Sorts
<1> QED
  BY <1>4, <1>6, <1>7, StepTells DEF Tells

\* An event is routed to the buffer.
LEMMA RouteLiveTells ==
    ASSUME NEW h \in Handles, IInv, IInv', Told, RouteLive(h)
    PROVE  Told'
<1>1. Types /\ Types' /\ Sorts(h) /\ Sorts(h)' /\ Safe(h) /\ Tells(h) /\ Shape
  BY Known
<1>2. /\ UNCHANGED <<file, at, state, work, flush, close, acked, stray>>
      /\ Exists(h) /\ owner[h].live
  BY DEF RouteLive
<1>3. /\ owner'[h].live = owner[h].live /\ owner'[h].append = owner[h].append
      /\ owner'[h].last = owner[h].last + 1 /\ owner'[h].suffix = owner[h].suffix
      /\ \A g \in Handles \ {h} : owner'[g] = owner[g]
  BY <1>1 DEF RouteLive, Types, TypeOwner
<1>4. /\ buf'[h].events = Append(buf[h].events, owner[h].last + 1) /\ buf'[h].drain = buf[h].drain
      /\ \A g \in Handles \ {h} : buf'[g] = buf[g]
  BY <1>1 DEF RouteLive, Types, TypeBuf
<1>5. owner[h].append = "none"
  BY <1>1, <1>2 DEF Tells, Owes
<1>6. /\ Continues(buf[h].events, state[h].cursor + nBatch(h))
      /\ owner[h].last = state[h].cursor + nBatch(h) + nEvents(h)
  BY <1>1, <1>2, <1>5 DEF Tells, Owes
<1>7. /\ buf[h].events \in Seq(Events) /\ nEvents(h) = Len(buf[h].events) /\ nEvents(h) \in Nat
      /\ state[h].cursor \in Nat /\ nBatch(h) \in Nat /\ owner[h].last \in Nat
  BY <1>1 DEF Sorts, nEvents
<1>8. state[h].cursor + nBatch(h) \in Nat
  BY <1>7
<1>9. Continues(buf'[h].events, state[h].cursor + nBatch(h))
  BY <1>4, <1>6, <1>7, <1>8, ContinuesNext
<1>10. nEvents(h)' = nEvents(h) + 1 /\ nBatch(h)' = nBatch(h)
  <2>1. Len(Append(buf[h].events, owner[h].last + 1)) = Len(buf[h].events) + 1
    BY <1>7
  <2> QED
    BY <1>2, <1>4, <2>1 DEF nEvents, nBatch
<1>11. owner'[h].last = state[h].cursor + nBatch(h) + nEvents(h)'
  <2>1. owner'[h].last = (state[h].cursor + nBatch(h) + nEvents(h)) + 1
    BY <1>3, <1>6
  <2>2. state[h].cursor \in Nat /\ nBatch(h) \in Nat /\ nEvents(h) \in Nat
    BY <1>7
  <2> QED
    BY <2>1, <2>2, <1>10
<1>12. Owes(h)'
  BY <1>1, <1>2, <1>3, <1>4, <1>5, <1>9, <1>10, <1>11 DEF Tells, Owes
<1>13. Chained(h)' /\ Batched(h)' /\ Repaired(h)' /\ Fresh(h)'
  BY <1>1, <1>2, <1>3 DEF Tells, Chained, Batched, Repaired, Fresh, nFull, nRecovered
<1>14. \A k \in Int : Owed(h, k) => Owed(h, k)'
  BY <1>2, <1>3, <1>7 DEF Owed, nFull
<1>15. Flushed(h)' /\ Closed(h)'
  BY <1>1, <1>2, <1>4, <1>14 DEF Tells, Flushed, Closed, PastLastLook, Sorts, nFull
<1>16. Alone(h) /\ Grows /\ Shape' /\ (stray => stray')
  BY <1>1, <1>2, <1>3, <1>4 DEF Alone, Grows, Shape, nFull, Sorts
<1> QED
  BY <1>12, <1>13, <1>15, <1>16, StepTells DEF Tells

-------------------------------------------------------------------------------
(* Drains                                                                   *)

\* drainLive() starts a drain, joins one, or ends at once.
Drains(h) ==
    /\ buf'[h].events = buf[h].events
    /\ buf'[h].drain = IF buf[h].drain # "none" THEN buf[h].drain
                       ELSE IF buf[h].events = <<>> THEN "ended" ELSE "queued"
    /\ work'[h].stage = work[h].stage /\ work'[h].batch = work[h].batch
    /\ work'[h].chain \in {work[h].chain, Append(work[h].chain, "drain")}
    /\ \A g \in Handles \ {h} : buf'[g] = buf[g] /\ work'[g] = work[g]

LEMMA DrainLiveDrains ==
    ASSUME NEW h \in Handles, Types, DrainLive(h)
    PROVE  Drains(h)
<1>1. buf'[h] = Drain(buf[h]) /\ \A g \in Handles \ {h} : buf'[g] = buf[g]
  BY DEF DrainLive, Types, TypeBuf
<1>2. /\ work'[h].chain = WithDrain(buf[h], work[h].chain)
      /\ work'[h].stage = work[h].stage /\ work'[h].batch = work[h].batch
      /\ \A g \in Handles \ {h} : work'[g] = work[g]
  BY DEF DrainLive, Types, TypeWork
<1>3. buf[h] \in [events : Seq(Events), timer : BOOLEAN, paused : BOOLEAN,
                  drain : {"none", "queued", "ended", "failed"}]
  BY DEF Types, TypeBuf
<1> QED
  BY <1>1, <1>2, <1>3 DEF Drains, Drain, WithDrain

LEMMA TimerDrains ==
    ASSUME NEW h \in Handles, Types, TimerFires(h)
    PROVE  Drains(h)
<1> DEFINE quiet == [buf[h] EXCEPT !.timer = FALSE]
<1>1. buf'[h] = Drain(quiet) /\ \A g \in Handles \ {h} : buf'[g] = buf[g]
  BY DEF TimerFires, Types, TypeBuf
<1>2. /\ work'[h].chain = WithDrain(buf[h], work[h].chain)
      /\ work'[h].stage = work[h].stage /\ work'[h].batch = work[h].batch
      /\ \A g \in Handles \ {h} : work'[g] = work[g]
  BY DEF TimerFires, Types, TypeWork
<1>3. /\ quiet \in [events : Seq(Events), timer : BOOLEAN, paused : BOOLEAN,
                    drain : {"none", "queued", "ended", "failed"}]
      /\ quiet.events = buf[h].events /\ quiet.drain = buf[h].drain
  BY DEF Types, TypeBuf
<1>4. /\ buf'[h].events = quiet.events
      /\ buf'[h].drain = IF quiet.drain # "none" THEN quiet.drain
                         ELSE IF quiet.events = <<>> THEN "ended" ELSE "queued"
  <2> HIDE DEF quiet
  <2> QED
    BY <1>1, <1>3 DEF Drain
<1> QED
  BY <1>1, <1>2, <1>3, <1>4 DEF Drains, WithDrain

LEMMA DrainsTells ==
    ASSUME NEW h \in Handles, IInv, IInv', Told, Drains(h), Exists(h), UNCHANGED <<file, at, state, owner>>,
           flush[h].st = "queued" => flush'[h].st = "queued"
    PROVE  /\ Owes(h)' /\ Chained(h)' /\ Batched(h)' /\ Repaired(h)' /\ Fresh(h)'
           /\ \A k \in Int : Owed(h, k) => Owed(h, k)'
<1>1. Types /\ Types' /\ Sorts(h) /\ Sorts(h)' /\ Safe(h) /\ Tells(h) /\ Shape
  BY Known
<1>2. Owes(h)'
  BY <1>1 DEF Tells, Owes, Drains, nBatch, nEvents, nSuffix
<1>3. Repaired(h)' /\ Fresh(h)' /\ \A k \in Int : Owed(h, k) => Owed(h, k)'
  BY <1>1 DEF Tells, Repaired, Fresh, Drains, Owed, nFull, nRecovered
<1>4. CASE work'[h].chain = work[h].chain
  BY <1>1, <1>3, <1>2, <1>4 DEF Tells, Chained, Batched, Drains
<1>5. CASE work'[h].chain = Append(work[h].chain, "drain")
  <2>1. /\ work[h].chain \in Seq(Ops)
        /\ "append" \in Ops /\ "flush" \in Ops /\ "drain" \in Ops
        /\ Once(work[h].chain, "append") /\ Once(work[h].chain, "flush")
    BY <1>1 DEF Sorts, Ops, Tells, Chained
  <2>2. /\ Has(work'[h].chain, "append") <=> Has(work[h].chain, "append")
        /\ Has(work'[h].chain, "flush") <=> Has(work[h].chain, "flush")
        /\ Once(work'[h].chain, "append") /\ Once(work'[h].chain, "flush")
    BY <1>5, <2>1, HasAppend
  <2>3. Chained(h)'
    BY <1>1, <2>2 DEF Tells, Chained
  <2>4. work[h].stage # "idle" => Head(work'[h].chain) = Head(work[h].chain)
    <3> SUFFICES ASSUME work[h].stage # "idle" PROVE Head(work'[h].chain) = Head(work[h].chain)
      OBVIOUS
    <3>1. work[h].chain # <<>>
      BY <1>1 DEF Safe, Working
    <3>2. Head(Append(work[h].chain, "drain")) = Head(work[h].chain)
      BY <2>1, <3>1
    <3> QED
      BY <1>5, <3>2
  <2>5. Batched(h)'
    BY <1>1, <2>4 DEF Tells, Batched, Drains
  <2> QED
    BY <1>2, <1>3, <2>3, <2>5
<1> QED
  BY <1>4, <1>5 DEF Drains

\* What was handed over is owed, and stored when nothing is under way.
LEMMA HandedOwed ==
    ASSUME NEW h \in Handles, Types, Sorts(h), Safe(h), Tells(h), Exists(h)
    PROVE  /\ Handed(h) \in Int /\ Owed(h, Handed(h))
           /\ buf[h].drain = "none" /\ buf[h].events = <<>> => Handed(h) <= nFull
<1>1. Handed(h) \in Int
  BY HandedType
<1>2. /\ state[h].cursor \in Nat /\ nRecovered(h) \in Nat /\ nFull \in Nat /\ owner[h].last \in Nat
      /\ nBatch(h) \in Nat /\ nEvents(h) \in Nat
  BY DEF Sorts
<1>3. ASSUME owner[h].append = "none", owner[h].last > state[h].cursor, buf[h].drain # "queued", buf[h].events = <<>>
      PROVE  FALSE
  <2>1. nBatch(h) = 0
    BY <1>3, NoBatch
  <2>2. nEvents(h) = 0
    BY <1>3 DEF nEvents
  <2>3. owner[h].last = state[h].cursor + nBatch(h) + nEvents(h)
    BY <1>3 DEF Tells, Owes
  <2> QED
    BY <1>2, <1>3, <2>1, <2>2, <2>3
<1>4. CASE owner[h].append = "none" /\ owner[h].last > state[h].cursor
  <2>1. Handed(h) = owner[h].last
    BY <1>4 DEF Handed
  <2>2. owner[h].live
    BY <1>3, <1>4 DEF Tells, Owes
  <2>3. owner[h].last <= owner[h].last
    BY <1>2
  <2> QED
    BY <1>1, <1>3, <1>4, <2>1, <2>2, <2>3 DEF Owed
<1>5. CASE ~(owner[h].append = "none" /\ owner[h].last > state[h].cursor)
  <2>1. Handed(h) = state[h].cursor - nRecovered(h)
    BY <1>5 DEF Handed, nRecovered
  <2>2. state[h].cursor <= nFull + nRecovered(h)
    BY DEF Tells, Repaired
  <2>3. state[h].cursor - nRecovered(h) <= nFull
    BY <1>2, <2>2
  <2> QED
    BY <1>1, <2>1, <2>3 DEF Owed, nFull
<1> QED
  BY <1>4, <1>5

\* So is what the drain that a flush joins can see.
LEMMA SeenOwed ==
    ASSUME NEW h \in Handles, Types, Sorts(h), Safe(h), Tells(h), Exists(h)
    PROVE  /\ Seen(h) \in Int /\ Owed(h, Seen(h))
           /\ buf[h].drain = "ended" \/ (buf[h].drain = "none" /\ buf[h].events = <<>>) => Seen(h) <= nFull
<1>1. CASE buf[h].drain = "ended"
  <2>1. Seen(h) = state[h].cursor - nRecovered(h)
    BY <1>1 DEF Seen, nRecovered
  <2>2. state[h].cursor <= nFull + nRecovered(h)
    BY DEF Tells, Repaired
  <2>3. state[h].cursor \in Nat /\ nRecovered(h) \in Nat /\ nFull \in Nat
    BY DEF Sorts
  <2>4. Seen(h) \in Int /\ Seen(h) <= nFull
    BY <2>1, <2>2, <2>3
  <2> QED
    BY <2>4 DEF Owed
<1>2. CASE buf[h].drain # "ended"
  <2>1. Seen(h) = Handed(h)
    BY <1>2 DEF Seen
  <2> QED
    BY <1>2, <2>1, HandedOwed
<1> QED
  BY <1>1, <1>2

LEMMA TimerFiresTells ==
    ASSUME NEW h \in Handles, IInv, IInv', Told, TimerFires(h)
    PROVE  Told'
<1>1. Types /\ Types' /\ Sorts(h) /\ Sorts(h)' /\ Safe(h) /\ Tells(h) /\ Shape
  BY Known
<1>2. UNCHANGED <<file, at, state, owner, flush, close, acked>> /\ Exists(h) /\ (stray => stray')
  BY <1>1 DEF TimerFires, tracker
<1>3. Drains(h)
  BY <1>1, TimerDrains
<1>4. /\ Owes(h)' /\ Chained(h)' /\ Batched(h)' /\ Repaired(h)' /\ Fresh(h)'
      /\ \A k \in Int : Owed(h, k) => Owed(h, k)'
  BY <1>2, <1>3, DrainsTells
<1>5. Flushed(h)'
  BY <1>1, <1>2, <1>3, <1>4 DEF Tells, Flushed, Drains, Sorts, nFull
<1>6. Closed(h)'
  BY <1>1, <1>2, <1>4 DEF Tells, Closed, PastLastLook, Sorts, nFull
<1>7. Alone(h) /\ Grows /\ Shape'
  BY <1>1, <1>2, <1>3 DEF Alone, Drains, Grows, Shape, nFull, Sorts
<1> QED
  BY <1>2, <1>4, <1>5, <1>6, <1>7, StepTells DEF Tells

LEMMA FlushCallTells ==
    ASSUME NEW h \in Handles, NEW kind \in {"session", "all"}, IInv, IInv', Told, FlushCall(h, kind)
    PROVE  Told'
<1>1. Types /\ Types' /\ Sorts(h) /\ Sorts(h)' /\ Safe(h) /\ Tells(h) /\ Shape
  BY Known
<1>2. /\ UNCHANGED <<file, at, state, owner, close, acked>> /\ Exists(h) /\ (stray => stray')
      /\ flush[h].st = "none" /\ DrainLive(h)
  BY <1>1 DEF FlushCall, tracker
<1>3. Drains(h)
  BY <1>1, <1>2, DrainLiveDrains
<1>4. /\ Owes(h)' /\ Chained(h)' /\ Batched(h)' /\ Repaired(h)' /\ Fresh(h)'
      /\ \A k \in Int : Owed(h, k) => Owed(h, k)'
  BY <1>2, <1>3, DrainsTells
<1>5. /\ flush'[h].st = "drain" /\ flush'[h].seen = Seen(h)
      /\ \A g \in Handles \ {h} : flush'[g] = flush[g]
  BY <1>1 DEF FlushCall, Types, TypeFlush
<1>6. Flushed(h)'
  <2>1. /\ Seen(h) \in Int /\ Owed(h, Seen(h))
        /\ buf[h].drain = "ended" \/ (buf[h].drain = "none" /\ buf[h].events = <<>>) => Seen(h) <= nFull
    BY <1>1, <1>2, SeenOwed
  <2>2. PICK k \in Int : k = Seen(h)
    BY <2>1
  <2>3. Owed(h, k)' /\ flush'[h].seen = k
    BY <1>4, <1>5, <2>1, <2>2
  <2>4. buf'[h].drain # "none"
    BY <1>3 DEF Drains
  <2>5. buf'[h].drain = "ended" => flush'[h].seen <= nFull'
    BY <1>2, <1>3, <1>5, <2>1 DEF Drains, nFull
  <2> QED
    BY <1>5, <2>3, <2>4, <2>5 DEF Flushed, Owed, nFull
<1>7. Closed(h)'
  BY <1>1, <1>2, <1>4 DEF Tells, Closed, PastLastLook, Sorts, nFull
<1>8. Alone(h) /\ Grows /\ Shape'
  BY <1>1, <1>2, <1>3, <1>5 DEF Alone, Drains, Grows, Shape, nFull, Sorts
<1> QED
  BY <1>2, <1>4, <1>6, <1>7, <1>8, StepTells DEF Tells

LEMMA FlushHandleTells ==
    ASSUME NEW h \in Handles, IInv, IInv', Told, FlushHandle(h)
    PROVE  Told'
<1>1. Types /\ Types' /\ Sorts(h) /\ Sorts(h)' /\ Safe(h) /\ Tells(h) /\ Shape
  BY Known
<1>2. /\ UNCHANGED <<file, at, state, buf, owner, close, acked, stray>>
      /\ Exists(h) /\ flush[h].st = "drained"
  BY DEF FlushHandle
<1>3. /\ flush'[h].st \in {"queued", "done", "failed"} /\ flush'[h].seen = flush[h].seen
      /\ \A g \in Handles \ {h} : flush'[g] = flush[g]
  BY <1>1 DEF FlushHandle, Refused, Types, TypeFlush
<1>4. /\ work'[h].stage = work[h].stage /\ work'[h].batch = work[h].batch
      /\ \/ work'[h].chain = work[h].chain
         \/ work'[h].chain = Append(work[h].chain, "flush") /\ flush'[h].st = "queued"
      /\ \A g \in Handles \ {h} : work'[g] = work[g]
  BY <1>1 DEF FlushHandle, Types, TypeWork, TypeFlush
<1>5. /\ work[h].chain \in Seq(Ops) /\ "append" \in Ops /\ "flush" \in Ops
      /\ Once(work[h].chain, "append") /\ Once(work[h].chain, "flush") /\ ~Has(work[h].chain, "flush")
  BY <1>1, <1>2 DEF Sorts, Ops, Tells, Chained
<1>6. Chained(h)'
  <2>1. CASE work'[h].chain = work[h].chain
    BY <1>1, <1>2, <1>5, <2>1 DEF Tells, Chained
  <2>2. CASE work'[h].chain = Append(work[h].chain, "flush") /\ flush'[h].st = "queued"
    <3>1. /\ Has(work'[h].chain, "append") <=> Has(work[h].chain, "append")
          /\ Once(work'[h].chain, "append") /\ Once(work'[h].chain, "flush")
      BY <1>5, <2>2, HasAppend
    <3> QED
      BY <1>1, <1>2, <2>2, <3>1 DEF Tells, Chained
  <2> QED
    BY <1>4, <2>1, <2>2
<1>7. work[h].stage # "idle" => Head(work'[h].chain) = Head(work[h].chain)
  <2> SUFFICES ASSUME work[h].stage # "idle" PROVE Head(work'[h].chain) = Head(work[h].chain)
    OBVIOUS
  <2>1. work[h].chain # <<>>
    BY <1>1 DEF Safe, Working
  <2>2. Head(Append(work[h].chain, "flush")) = Head(work[h].chain)
    BY <1>5, <2>1
  <2> QED
    BY <1>4, <2>2
<1>8. Owes(h)' /\ Batched(h)' /\ Repaired(h)' /\ Fresh(h)'
  <2>1. Owes(h)'
    BY <1>1, <1>2, <1>4 DEF Tells, Owes, nBatch, nEvents, nSuffix
  <2>2. Batched(h)'
    BY <1>1, <1>2, <1>4, <1>7 DEF Tells, Batched
  <2>3. Repaired(h)' /\ Fresh(h)'
    BY <1>1, <1>2, <1>4 DEF Tells, Repaired, Fresh, nFull, nRecovered
  <2> QED
    BY <2>1, <2>2, <2>3
<1>9. Flushed(h)'
  BY <1>1, <1>2, <1>3 DEF Tells, Flushed, nFull
<1>10. Closed(h)'
  BY <1>1, <1>2 DEF Tells, Closed, PastLastLook, Owed, nFull
<1>11. Alone(h) /\ Grows /\ Shape'
  BY <1>1, <1>2, <1>3, <1>4 DEF Alone, Grows, Shape, nFull, Sorts
<1> QED
  BY <1>2, <1>6, <1>8, <1>9, <1>10, <1>11, StepTells DEF Tells

LEMMA DrainSettlesTells ==
    ASSUME NEW h \in Handles, IInv, IInv', Told, DrainSettles(h)
    PROVE  Told'
<1>1. Types /\ Types' /\ Sorts(h) /\ Sorts(h)' /\ Safe(h) /\ Tells(h) /\ Shape
  BY Known
<1>2. /\ UNCHANGED <<file, at, state, work, owner, acked, stray>>
      /\ Exists(h) /\ buf[h].drain \in {"ended", "failed"}
  BY DEF DrainSettles
<1>3. /\ buf'[h].drain = "none" /\ buf'[h].events = buf[h].events
      /\ \A g \in Handles \ {h} : buf'[g] = buf[g]
  BY <1>1 DEF DrainSettles, Types, TypeBuf
<1>4. /\ flush'[h].seen = flush[h].seen
      /\ flush'[h].st = IF flush[h].st # "drain" THEN flush[h].st
                        ELSE IF buf[h].drain = "ended" THEN "drained" ELSE "failed"
      /\ \A g \in Handles \ {h} : flush'[g] = flush[g]
  BY <1>1 DEF DrainSettles, Types, TypeFlush
<1>5. /\ close'[h].upTo = close[h].upTo
      /\ \/ close'[h] = close[h]
         \/ close[h].st = "drain" /\ close'[h].st = "look"
         \/ close'[h].st = "tail" /\ close'[h].failed
      /\ \A g \in Handles \ {h} : close'[g] = close[g]
  BY <1>1 DEF DrainSettles, Types, TypeClose
<1>6. Owes(h)' /\ Chained(h)' /\ Batched(h)' /\ Repaired(h)' /\ Fresh(h)'
  <2>1. Owes(h)'
    BY <1>1, <1>2, <1>3 DEF Tells, Owes, nBatch, nEvents, nSuffix
  <2>2. Chained(h)' /\ Batched(h)'
    BY <1>1, <1>2, <1>4 DEF Tells, Chained, Batched
  <2>3. Repaired(h)' /\ Fresh(h)'
    BY <1>1, <1>2 DEF Tells, Repaired, Fresh, nFull, nRecovered
  <2> QED
    BY <2>1, <2>2, <2>3
<1>7. Flushed(h)'
  BY <1>1, <1>2, <1>3, <1>4 DEF Tells, Flushed, nFull
<1>8. Closed(h)'
  BY <1>1, <1>2, <1>5 DEF Tells, Closed, PastLastLook, Owed, nFull
<1>9. Alone(h) /\ Grows /\ Shape'
  BY <1>1, <1>2, <1>3, <1>4, <1>5 DEF Alone, Grows, Shape, nFull, Sorts
<1> QED
  BY <1>2, <1>6, <1>7, <1>8, <1>9, StepTells DEF Tells

-------------------------------------------------------------------------------
(* close()                                                                  *)

LEMMA CloseTells ==
    ASSUME NEW h \in Handles, IInv, IInv', Told, Close(h)
    PROVE  Told'
<1>1. Types /\ Types' /\ Sorts(h) /\ Sorts(h)' /\ Safe(h) /\ Tells(h) /\ Shape
  BY Known
<1>2. /\ UNCHANGED <<file, at, state, owner, flush, acked, stray>> /\ Exists(h)
      /\ DrainLive(h)
  BY <1>1 DEF Close
<1>3. Drains(h)
  BY <1>1, <1>2, DrainLiveDrains
<1>4. /\ Owes(h)' /\ Chained(h)' /\ Batched(h)' /\ Repaired(h)' /\ Fresh(h)'
      /\ \A k \in Int : Owed(h, k) => Owed(h, k)'
  BY <1>2, <1>3, DrainsTells
<1>5. /\ close'[h].st = "drain" /\ close'[h].upTo = Handed(h)
      /\ \A g \in Handles \ {h} : close'[g] = close[g]
  BY <1>1 DEF Close, Types, TypeClose
<1>6. Closed(h)'
  <2>1. Handed(h) \in Int /\ Owed(h, Handed(h))
    BY <1>1, <1>2, HandedOwed
  <2>2. PICK k \in Int : k = Handed(h)
    BY <2>1
  <2>3. Owed(h, k)' /\ close'[h].upTo = k
    BY <1>4, <1>5, <2>1, <2>2
  <2> QED
    BY <1>5, <2>3 DEF Closed, PastLastLook, Owed, nFull
<1>7. Flushed(h)'
  BY <1>1, <1>2, <1>3, <1>4 DEF Tells, Flushed, Drains, Sorts, nFull
<1>8. Alone(h) /\ Grows /\ Shape'
  BY <1>1, <1>2, <1>3, <1>5 DEF Alone, Drains, Grows, Shape, nFull, Sorts
<1> QED
  BY <1>2, <1>4, <1>6, <1>7, <1>8, StepTells DEF Tells

\* Nothing is owed when the last look finds an empty buffer and no chain.
LEMMA NothingOwed ==
    ASSUME NEW h \in Handles, Types, Sorts(h), Safe(h), Tells(h), Exists(h),
           owner[h].append # "queued", buf[h].drain # "queued", buf[h].events = <<>>,
           NEW n \in Int, Owed(h, n)
    PROVE  n <= nFull
<1>1. SUFFICES ASSUME owner[h].live, n <= owner[h].last, state[h].recovered # <<>> => n > state[h].cursor
              PROVE  n <= nFull
  BY DEF Owed
<1>2. nBatch(h) = 0 /\ nEvents(h) = 0
  BY NoBatch DEF nEvents
<1>3. owner[h].last = state[h].cursor + nBatch(h) + nEvents(h)
  BY <1>1 DEF Tells, Owes
<1>4. state[h].cursor <= nFull + nRecovered(h)
  BY DEF Tells, Repaired
<1>5. state[h].cursor \in Nat /\ nRecovered(h) \in Nat /\ nFull \in Nat /\ owner[h].last \in Nat
  BY DEF Sorts
<1>6. n <= state[h].cursor
  BY <1>1, <1>2, <1>3, <1>5
<1>7. state[h].recovered = <<>>
  BY <1>1, <1>5, <1>6
<1>8. nRecovered(h) = 0
  BY <1>7 DEF nRecovered
<1> QED
  BY <1>4, <1>5, <1>6, <1>8

LEMMA CloseLookTells ==
    ASSUME NEW h \in Handles, IInv, IInv', Told, CloseLook(h)
    PROVE  Told'
<1>1. Types /\ Types' /\ Sorts(h) /\ Sorts(h)' /\ Safe(h) /\ Tells(h) /\ Shape
  BY Known
<1>2. /\ UNCHANGED <<file, at, state, owner, flush, acked, stray>> /\ Exists(h)
      /\ close[h].st = "look" /\ close[h].wait = 0
  BY DEF CloseLook, AwaitedChain
<1>3. CASE buf[h].events = <<>>
  <2>1. UNCHANGED <<buf, work>>
    BY <1>3 DEF CloseLook
  <2>2. /\ close'[h].st = "tail" /\ close'[h].upTo = close[h].upTo /\ close'[h].failed = close[h].failed
        /\ \A g \in Handles \ {h} : close'[g] = close[g]
    BY <1>1, <1>3 DEF CloseLook, Types, TypeClose
  <2>3. Owes(h)' /\ Chained(h)' /\ Batched(h)'
    BY <1>1, <1>2, <2>1 DEF Tells, Owes, Chained, Batched, nBatch, nEvents, nSuffix
  <2>4. Repaired(h)' /\ Fresh(h)' /\ Flushed(h)'
    BY <1>1, <1>2, <2>1 DEF Tells, Repaired, Fresh, Flushed, Owed, nFull, nRecovered
  <2>5. ASSUME ~stray PROVE close[h].upTo <= nFull
    <3>1. buf[h].drain # "queued" /\ Len(work[h].chain) = 0
      BY <1>1, <1>2, <1>3, <2>5 DEF Safe, Waited
    <3>2. Owed(h, close[h].upTo) /\ close[h].upTo \in Int
      BY <1>1, <1>2 DEF Tells, Closed, Sorts
    <3>3. owner[h].append = "queued" => ~owner[h].live
      BY <1>1, <1>2 DEF Tells, Owes
    <3>4. CASE owner[h].append = "queued"
      BY <3>2, <3>3, <3>4 DEF Owed
    <3>5. CASE owner[h].append # "queued"
      BY <1>1, <1>2, <1>3, <3>1, <3>2, <3>5, NothingOwed
    <3> QED
      BY <3>4, <3>5
  <2>6. Closed(h)'
    BY <1>1, <1>2, <2>2, <2>5 DEF Closed, PastLastLook, nFull, Sorts
  <2>7. Alone(h) /\ Grows /\ Shape'
    BY <1>1, <1>2, <2>1, <2>2 DEF Alone, Grows, Shape, nFull, Sorts
  <2> QED
    BY <1>2, <2>3, <2>4, <2>6, <2>7, StepTells DEF Tells
<1>4. CASE buf[h].events # <<>>
  <2>1. Drains(h)
    BY <1>1, <1>4, DrainLiveDrains DEF CloseLook
  <2>2. /\ Owes(h)' /\ Chained(h)' /\ Batched(h)' /\ Repaired(h)' /\ Fresh(h)'
        /\ \A k \in Int : Owed(h, k) => Owed(h, k)'
    BY <1>2, <2>1, DrainsTells
  <2>3. /\ close'[h].st = "drain" /\ close'[h].upTo = close[h].upTo
        /\ \A g \in Handles \ {h} : close'[g] = close[g]
    BY <1>1, <1>4 DEF CloseLook, Types, TypeClose
  <2>4. Closed(h)'
    BY <1>1, <1>2, <2>2, <2>3 DEF Tells, Closed, PastLastLook, Owed, nFull
  <2>5. Flushed(h)'
    BY <1>1, <1>2, <2>1, <2>2 DEF Tells, Flushed, Drains, Sorts, nFull
  <2>6. Alone(h) /\ Grows /\ Shape'
    BY <1>1, <1>2, <2>1, <2>3 DEF Alone, Drains, Grows, Shape, nFull, Sorts
  <2> QED
    BY <1>2, <2>2, <2>4, <2>5, <2>6, StepTells DEF Tells
<1> QED
  BY <1>3, <1>4

LEMMA CloseEndTells ==
    ASSUME NEW h \in Handles, IInv, IInv', Told, CloseTail(h) \/ CloseRelease(h)
    PROVE  Told'
<1>1. Types /\ Types' /\ Sorts(h) /\ Sorts(h)' /\ Safe(h) /\ Tells(h) /\ Shape
  BY Known
<1>2. /\ UNCHANGED <<file, state, buf, work, owner, flush, acked, stray>> /\ Exists(h)
      /\ close[h].st \in {"tail", "release"}
  BY DEF CloseTail, CloseRelease, AwaitedChain
<1>3. /\ close'[h].st \in {"release", "done"} /\ close'[h].upTo = close[h].upTo
      /\ close'[h].failed = close[h].failed
      /\ \A g \in Handles \ {h} : close'[g] = close[g]
  BY <1>1 DEF CloseTail, CloseRelease, Types, TypeClose
<1>4. at'[h].st \in {"open", "closed"} /\ \A g \in Handles \ {h} : at'[g] = at[g]
  BY <1>1, <1>2 DEF CloseTail, CloseRelease, Types, TypeAt
<1>5. Owes(h)' /\ Chained(h)' /\ Batched(h)'
  BY <1>1, <1>2 DEF Tells, Owes, Chained, Batched, nBatch, nEvents, nSuffix
<1>6. Repaired(h)' /\ Fresh(h)' /\ Flushed(h)'
  BY <1>1, <1>2, <1>4 DEF Tells, Repaired, Fresh, Flushed, Owed, nFull, nRecovered
<1>7. Closed(h)'
  BY <1>1, <1>2, <1>3 DEF Tells, Closed, PastLastLook, nFull
<1>8. Alone(h) /\ Grows /\ Shape'
  BY <1>1, <1>2, <1>3, <1>4 DEF Alone, Grows, Shape, nFull, Sorts
<1> QED
  BY <1>2, <1>5, <1>6, <1>7, <1>8, StepTells DEF Tells

\* The release of a lease touches neither the file nor what is owed.
LEMMA ReleaseLeaseTells ==
    ASSUME NEW h \in Handles, IInv, IInv', Told, ReleaseLease(h)
    PROVE  Told'
<1>1. Types /\ Types' /\ Sorts(h) /\ Sorts(h)' /\ Safe(h) /\ Tells(h) /\ Shape
  BY Known
<1>2. UNCHANGED <<file, state, buf, work, owner, flush, acked, stray>>
  BY DEF ReleaseLease
<1>3. /\ close'[h].st = close[h].st /\ close'[h].upTo = close[h].upTo
      /\ close[h].failed => close'[h].failed
      /\ \A g \in Handles \ {h} : close'[g] = close[g]
  BY <1>1 DEF ReleaseLease, Types, TypeClose
<1>4. at'[h].st = at[h].st /\ \A g \in Handles \ {h} : at'[g] = at[g]
  BY <1>1 DEF ReleaseLease, Types, TypeAt
<1>5. (Exists(h) => Owes(h))' /\ Chained(h)' /\ Batched(h)'
  BY <1>1, <1>2, <1>4 DEF Tells, Owes, Chained, Batched, nBatch, nEvents, nSuffix
<1>6. Repaired(h)' /\ Fresh(h)' /\ Flushed(h)'
  BY <1>1, <1>2, <1>4 DEF Tells, Repaired, Fresh, Flushed, Owed, nFull, nRecovered
<1>7. Closed(h)'
  BY <1>1, <1>2, <1>3 DEF Tells, Closed, PastLastLook, Owed, nFull, Sorts
<1>8. Alone(h) /\ Grows /\ Shape'
  BY <1>1, <1>2, <1>3, <1>4 DEF Alone, Grows, Shape, nFull, Sorts
<1> QED
  BY <1>2, <1>5, <1>6, <1>7, <1>8, StepTells DEF Tells

-------------------------------------------------------------------------------
(* The running operation settles                                            *)

\* What settling does to h.
Settled(h, ok) ==
    LET op == Head(work[h].chain)
        again == op = "drain" /\ ok /\ buf[h].events # <<>>
    IN /\ work'[h].chain = IF again THEN Append(Tail(work[h].chain), "drain") ELSE Tail(work[h].chain)
       /\ work'[h].stage = "idle" /\ work'[h].batch = <<>>
       /\ buf'[h].events = IF op = "drain" /\ ~ok THEN work[h].batch \o buf[h].events ELSE buf[h].events
       /\ buf'[h].drain = IF op # "drain" THEN buf[h].drain
                          ELSE IF ~ok THEN "failed" ELSE IF again THEN "queued" ELSE "ended"
       /\ owner'[h].live = owner[h].live /\ owner'[h].last = owner[h].last
       /\ owner'[h].append = IF op # "append" THEN owner[h].append ELSE IF ok THEN "none" ELSE "failed"
       /\ owner'[h].suffix = IF op # "append" THEN owner[h].suffix ELSE <<>>
       /\ flush'[h].seen = flush[h].seen
       /\ IF op = "flush" THEN flush'[h].st \in {"done", "failed"} ELSE flush'[h].st = flush[h].st
       /\ close'[h].st = close[h].st /\ close'[h].upTo = close[h].upTo /\ close'[h].failed = close[h].failed
       /\ \A g \in Handles \ {h} : /\ buf'[g] = buf[g] /\ work'[g] = work[g] /\ owner'[g] = owner[g]
                                   /\ flush'[g] = flush[g] /\ close'[g] = close[g]

LEMMA SettleSettles ==
    ASSUME NEW h \in Handles, NEW ok \in BOOLEAN, Types, Settle(h, ok)
    PROVE  Settled(h, ok)
<1> DEFINE op == Head(work[h].chain)
           again == op = "drain" /\ ok /\ buf[h].events # <<>>
<1>1. /\ work'[h].chain = IF again THEN Append(Tail(work[h].chain), "drain") ELSE Tail(work[h].chain)
      /\ work'[h].stage = "idle" /\ work'[h].batch = <<>>
      /\ \A g \in Handles \ {h} : work'[g] = work[g]
  BY DEF Settle, NoWork, Types, TypeWork
<1>2. /\ buf'[h].events = IF op = "drain" /\ ~ok THEN work[h].batch \o buf[h].events ELSE buf[h].events
      /\ buf'[h].drain = IF op # "drain" THEN buf[h].drain
                         ELSE IF ~ok THEN "failed" ELSE IF again THEN "queued" ELSE "ended"
      /\ \A g \in Handles \ {h} : buf'[g] = buf[g]
  <2>1. CASE op # "drain"
    BY <2>1 DEF Settle
  <2>2. CASE op = "drain" /\ ok
    BY <2>2 DEF Settle, Types, TypeBuf
  <2>3. CASE op = "drain" /\ ~ok
    BY <2>3 DEF Settle, Types, TypeBuf
  <2> QED
    BY <2>1, <2>2, <2>3
<1>3. /\ owner'[h].live = owner[h].live /\ owner'[h].last = owner[h].last
      /\ owner'[h].append = IF op # "append" THEN owner[h].append ELSE IF ok THEN "none" ELSE "failed"
      /\ owner'[h].suffix = IF op # "append" THEN owner[h].suffix ELSE <<>>
      /\ \A g \in Handles \ {h} : owner'[g] = owner[g]
  BY DEF Settle, Types, TypeOwner
<1>4. /\ flush'[h].seen = flush[h].seen
      /\ IF op = "flush" THEN flush'[h].st \in {"done", "failed"} ELSE flush'[h].st = flush[h].st
      /\ \A g \in Handles \ {h} : flush'[g] = flush[g]
  BY DEF Settle, Refused, Types, TypeFlush
<1>5. /\ close'[h].st = close[h].st /\ close'[h].upTo = close[h].upTo /\ close'[h].failed = close[h].failed
      /\ \A g \in Handles \ {h} : close'[g] = close[g]
  BY DEF Settle, Types, TypeClose
<1> QED
  BY <1>1, <1>2, <1>3, <1>4, <1>5 DEF Settled

\* The cursor after a write that succeeded, or the one before.
Advances(h, ok) ==
    /\ state'[h].recovered = state[h].recovered /\ state'[h].torn = state[h].torn
    /\ state'[h].cursor = IF ok THEN state[h].cursor + nBatch(h) ELSE state[h].cursor
    /\ state[h].made => state'[h].made
    /\ state'[h].made => file'.made
    /\ ~state'[h].made => ~ok
    /\ ok /\ Head(work[h].chain) # "flush" =>
          state[h].recovered = <<>> /\ state'[h].cursor <= nFull' /\ work[h].stage # "idle"
    /\ work[h].stage = "idle" => Head(work[h].chain) # "drain"

\* A flush writes no event.
LEMMA FlushIsEmpty ==
    ASSUME NEW h \in Handles, Tells(h), Head(work[h].chain) = "flush"
    PROVE  work[h].batch = <<>> /\ nBatch(h) = 0
BY DEF Tells, Batched, nBatch

LEMMA SettledOwes ==
    ASSUME NEW h \in Handles, NEW ok \in BOOLEAN, Types, Sorts(h), Sorts(h)', Safe(h), Tells(h), Exists(h),
           work[h].chain # <<>>, Settled(h, ok), Advances(h, ok)
    PROVE  Owes(h)'
<1> DEFINE op == Head(work[h].chain)
<1>1. /\ op \in Ops
      /\ op = "drain" => buf[h].drain = "queued"
      /\ op = "append" => owner[h].append = "queued"
  BY HeadIs
<1>2. /\ state[h].cursor \in Nat /\ nBatch(h) \in Nat /\ nEvents(h) \in Nat /\ nSuffix(h) \in Nat
      /\ owner[h].last \in Nat
  BY DEF Sorts
<1>3. work'[h].batch = <<>> /\ nBatch(h)' = 0 /\ owner'[h].live = owner[h].live /\ owner'[h].last = owner[h].last
  BY DEF Settled, nBatch
<1>4. Owes(h)
  BY DEF Tells
<1>5. CASE op = "drain"
  <2>1. owner[h].live /\ owner[h].append = "none"
    BY <1>1, <1>4, <1>5 DEF Owes
  <2>2. /\ Continues(work[h].batch, state[h].cursor)
        /\ Continues(buf[h].events, state[h].cursor + nBatch(h))
        /\ owner[h].last = state[h].cursor + nBatch(h) + nEvents(h)
    BY <1>4, <2>1 DEF Owes
  <2>3. owner'[h].append = "none" /\ owner'[h].suffix = owner[h].suffix
    BY <1>5, <2>1 DEF Settled
  <2>4. CASE ok
    <3>1. buf'[h].events = buf[h].events /\ nEvents(h)' = nEvents(h)
      BY <1>5, <2>4 DEF Settled, nEvents
    <3>2. state'[h].cursor = state[h].cursor + nBatch(h)
      BY <2>4 DEF Advances
    <3>3. /\ state'[h].cursor + 0 = state[h].cursor + nBatch(h)
          /\ owner[h].last = state'[h].cursor + 0 + nEvents(h)
      BY <1>2, <2>2, <3>2
    <3>4. /\ Continues(buf'[h].events, state'[h].cursor + nBatch(h)')
          /\ owner'[h].last = state'[h].cursor + nBatch(h)' + nEvents(h)'
      BY <1>3, <2>2, <3>1, <3>3
    <3> QED
      BY <1>3, <1>4, <2>1, <2>3, <3>4, EmptyContinues DEF Owes
  <2>5. CASE ~ok
    <3>1. buf'[h].events = work[h].batch \o buf[h].events
      BY <1>5, <2>5 DEF Settled
    <3>2. state'[h].cursor = state[h].cursor
      BY <2>5 DEF Advances
    <3>3. work[h].batch \in Seq(Events) /\ buf[h].events \in Seq(Events)
      BY DEF Sorts
    <3>4. Len(work[h].batch \o buf[h].events) = Len(work[h].batch) + Len(buf[h].events)
      BY <3>3
    <3>5. nEvents(h)' = nBatch(h) + nEvents(h)
      BY <3>1, <3>4 DEF nEvents, nBatch
    <3>6. Continues(work[h].batch \o buf[h].events, state[h].cursor)
      BY <1>2, <2>2, <3>3, ContinuesJoin DEF nBatch
    <3>7. state[h].cursor + 0 = state[h].cursor
          /\ owner[h].last = state[h].cursor + 0 + (nBatch(h) + nEvents(h))
      BY <1>2, <2>2
    <3>8. /\ Continues(buf'[h].events, state'[h].cursor + nBatch(h)')
          /\ owner'[h].last = state'[h].cursor + nBatch(h)' + nEvents(h)'
      BY <1>3, <3>1, <3>2, <3>5, <3>6, <3>7
    <3> QED
      BY <1>3, <1>4, <2>1, <2>3, <3>8, EmptyContinues DEF Owes
  <2> QED
    BY <2>4, <2>5
<1>6. CASE op = "append"
  <2>1. owner[h].append = "queued" /\ ~owner[h].live /\ buf[h].events = <<>> /\ buf[h].drain # "queued"
    BY <1>1, <1>4, <1>6 DEF Owes
  <2>2. buf'[h].events = <<>> /\ buf'[h].drain # "queued" /\ nEvents(h)' = 0 /\ owner'[h].suffix = <<>>
    BY <1>6, <2>1 DEF Settled, nEvents
  <2>3. CASE ok
    <3>1. work[h].batch = owner[h].suffix /\ nBatch(h) = nSuffix(h)
      BY <1>6, <2>3 DEF Advances, Tells, Batched, nBatch, nSuffix
    <3>2. state'[h].cursor = state[h].cursor + nSuffix(h) /\ owner[h].last = state[h].cursor + nSuffix(h)
      BY <1>4, <2>1, <2>3, <3>1 DEF Advances, Owes
    <3>3. owner[h].last = state'[h].cursor + 0 + 0
      BY <1>2, <3>2
    <3>4. owner'[h].append = "none"
      BY <1>6, <2>3 DEF Settled
    <3> QED
      BY <1>3, <2>1, <2>2, <3>3, <3>4, EmptyContinues DEF Owes
  <2>4. CASE ~ok
    <3>1. owner'[h].append = "failed"
      BY <1>6, <2>4 DEF Settled
    <3> QED
      BY <1>3, <2>1, <2>2, <3>1 DEF Owes
  <2> QED
    BY <2>3, <2>4
<1>7. CASE op = "flush"
  <2>1. work[h].batch = <<>> /\ nBatch(h) = 0
    BY <1>7, FlushIsEmpty
  <2>2. state'[h].cursor = state[h].cursor
    <3>1. state[h].cursor + 0 = state[h].cursor
      BY <1>2
    <3> QED
      BY <2>1, <3>1 DEF Advances
  <2>3. /\ buf'[h].events = buf[h].events /\ buf'[h].drain = buf[h].drain
        /\ owner'[h].append = owner[h].append /\ owner'[h].suffix = owner[h].suffix
    BY <1>7 DEF Settled
  <2>4. nEvents(h)' = nEvents(h) /\ nSuffix(h)' = nSuffix(h)
    BY <2>3 DEF nEvents, nSuffix
  <2> QED
    BY <1>3, <1>4, <2>1, <2>2, <2>3, <2>4 DEF Owes
<1> QED
  BY <1>1, <1>5, <1>6, <1>7 DEF Ops

LEMMA SettledChained ==
    ASSUME NEW h \in Handles, NEW ok \in BOOLEAN, Types, Sorts(h), Safe(h), Tells(h),
           work[h].chain # <<>>, Settled(h, ok)
    PROVE  Chained(h)' /\ Batched(h)'
<1> DEFINE op == Head(work[h].chain)
           rest == Tail(work[h].chain)
<1>1. /\ work[h].chain \in Seq(Ops) /\ rest \in Seq(Ops)
      /\ "append" \in Ops /\ "flush" \in Ops /\ "drain" \in Ops
  BY ChainType DEF Sorts, Ops
<1>2. /\ Has(work[h].chain, "append") => owner[h].append = "queued"
      /\ Has(work[h].chain, "flush") => flush[h].st = "queued"
      /\ Once(work[h].chain, "append") /\ Once(work[h].chain, "flush")
  BY DEF Tells, Chained
<1>3. /\ Once(rest, "append") /\ Once(rest, "flush")
      /\ Has(rest, "append") <=> Has(work[h].chain, "append") /\ op # "append"
      /\ Has(rest, "flush") <=> Has(work[h].chain, "flush") /\ op # "flush"
  BY <1>1, <1>2, HasTail
<1>4. /\ Has(work'[h].chain, "append") <=> Has(rest, "append")
      /\ Has(work'[h].chain, "flush") <=> Has(rest, "flush")
      /\ Once(work'[h].chain, "append") /\ Once(work'[h].chain, "flush")
  <2>1. CASE work'[h].chain = rest
    BY <1>3, <2>1
  <2>2. CASE work'[h].chain = Append(rest, "drain")
    <3> HIDE DEF rest
    <3> QED
      BY <1>1, <1>3, <2>2, HasAppend
  <2> QED
    BY <2>1, <2>2 DEF Settled
<1>5. /\ op # "append" => owner'[h].append = owner[h].append
      /\ op # "flush" => flush'[h].st = flush[h].st
      /\ work'[h].stage = "idle" /\ work'[h].batch = <<>>
  BY DEF Settled
<1>6. Chained(h)'
  BY <1>2, <1>3, <1>4, <1>5 DEF Chained
<1> QED
  BY <1>5, <1>6 DEF Batched

\* What was owed still is, or it is stored now.
LEMMA SettledOwed ==
    ASSUME NEW h \in Handles, NEW ok \in BOOLEAN, Sorts(h), Sorts(h)', Tells(h), Settled(h, ok), Advances(h, ok),
           Grows, NEW n \in Int, Owed(h, n)
    PROVE  Owed(h, n)'
<1>1. n <= nFull => n <= nFull'
  BY DEF Grows, Sorts
<1>2. owner'[h].live = owner[h].live /\ owner'[h].last = owner[h].last
  BY DEF Settled
<1>3. state'[h].recovered = state[h].recovered
  BY DEF Advances
<1>4. state[h].recovered # <<>> => state'[h].cursor = state[h].cursor
  <2>1. CASE Head(work[h].chain) = "flush"
    <3>1. nBatch(h) = 0 /\ state[h].cursor \in Nat
      BY <2>1, FlushIsEmpty DEF Sorts
    <3>2. state[h].cursor + 0 = state[h].cursor
      BY <3>1
    <3> QED
      BY <3>1, <3>2 DEF Advances
  <2>2. CASE Head(work[h].chain) # "flush"
    BY <2>2 DEF Advances
  <2> QED
    BY <2>1, <2>2
<1> QED
  BY <1>1, <1>2, <1>3, <1>4 DEF Owed, nFull

LEMMA SettledFlushed ==
    ASSUME NEW h \in Handles, NEW ok \in BOOLEAN, Types, Sorts(h), Sorts(h)', Safe(h), Tells(h), Exists(h),
           work[h].chain # <<>>, Settled(h, ok), Advances(h, ok), Grows
    PROVE  Flushed(h)'
<1> DEFINE op == Head(work[h].chain)
<1>1. /\ op \in Ops
      /\ op = "drain" => buf[h].drain = "queued"
      /\ op = "flush" => flush[h].st = "queued"
  BY HeadIs
<1>2. /\ flush'[h].seen = flush[h].seen /\ flush[h].seen \in Int
      /\ IF op = "flush" THEN flush'[h].st \in {"done", "failed"} ELSE flush'[h].st = flush[h].st
  BY DEF Settled, Sorts
<1>3. flush[h].seen <= nFull => flush[h].seen <= nFull'
  <2>1. nFull \in Nat /\ nFull' \in Nat /\ nFull <= nFull'
    BY DEF Grows, Sorts
  <2>2. PICK k \in Int : k = flush[h].seen
    BY <1>2
  <2>3. k <= nFull => k <= nFull'
    BY <2>1
  <2> QED
    BY <2>2, <2>3
<1>4. Flushed(h)
  BY DEF Tells
<1>5. CASE flush'[h].st # "drain"
  BY <1>1, <1>2, <1>3, <1>4, <1>5 DEF Flushed, nFull
<1>6. CASE flush'[h].st = "drain"
  <2>1. flush[h].st = "drain" /\ op # "flush"
    BY <1>1, <1>2, <1>6
  <2>2. buf'[h].drain # "none"
    BY <1>4, <2>1 DEF Settled, Flushed
  <2>3. PICK k \in Int : k = flush[h].seen
    BY <1>2
  <2>4. Owed(h, k)'
    BY <1>4, <2>1, <2>3, SettledOwed DEF Flushed
  <2>5. ASSUME buf'[h].drain = "ended" PROVE k <= nFull'
    <3>1. CASE op # "drain"
      BY <1>3, <1>4, <2>1, <2>3, <2>5, <3>1 DEF Settled, Flushed
    <3>2. CASE op = "drain"
      <4>1. ok /\ buf[h].events = <<>>
        BY <2>5, <3>2 DEF Settled
      <4>2. Owed(h, k)
        BY <1>4, <2>1, <2>3, <2>5 DEF Flushed
      <4>3. owner[h].live /\ owner[h].append = "none"
        BY <1>1, <3>2 DEF Tells, Owes
      <4>4. owner[h].last = state[h].cursor + nBatch(h) + nEvents(h) /\ nEvents(h) = 0
        BY <4>1, <4>3 DEF Tells, Owes, nEvents
      <4>5. state'[h].cursor = state[h].cursor + nBatch(h) /\ state'[h].cursor <= nFull'
        BY <2>1, <3>2, <4>1 DEF Advances
      <4>6. state[h].cursor \in Nat /\ nBatch(h) \in Nat /\ nFull' \in Nat /\ owner[h].last \in Nat
        BY DEF Sorts
      <4>7. owner[h].last <= nFull'
        BY <4>4, <4>5, <4>6
      <4>8. k <= nFull => k <= nFull'
        BY <1>3, <2>3
      <4> QED
        BY <4>2, <4>6, <4>7, <4>8 DEF Owed
    <3> QED
      BY <3>1, <3>2
  <2> QED
    BY <1>2, <1>6, <2>2, <2>3, <2>4, <2>5 DEF Flushed, Owed, nFull
<1> QED
  BY <1>5, <1>6

LEMMA SettledTells ==
    ASSUME NEW h \in Handles, NEW ok \in BOOLEAN, IInv, IInv', Told, Exists(h), work[h].chain # <<>>,
           Settle(h, ok), Advances(h, ok), Grows, Shape', at' = at, stray' = stray,
           \A g \in Handles \ {h} : state'[g] = state[g]
    PROVE  Told'
<1>1. Types /\ Types' /\ Sorts(h) /\ Sorts(h)' /\ Safe(h) /\ Tells(h) /\ Shape
  BY Known
<1>2. Settled(h, ok)
  BY <1>1, SettleSettles
<1>3. Owes(h)' /\ Chained(h)' /\ Batched(h)' /\ Flushed(h)'
  BY <1>1, <1>2, SettledOwes, SettledChained, SettledFlushed
<1>4. Repaired(h)'
  <2>1. work'[h].stage = "idle" /\ nRecovered(h)' = nRecovered(h)
    BY <1>2 DEF Settled, Advances, nRecovered
  <2>2. ~state'[h].made => state'[h].cursor = 0 /\ ~state'[h].torn /\ state'[h].recovered = <<>>
    BY <1>1 DEF Advances, Tells, Repaired
  <2>3. state'[h].made => file'.made
    BY DEF Advances
  <2>4. state'[h].cursor <= nFull' + nRecovered(h)'
    <3>1. /\ state[h].cursor \in Nat /\ state'[h].cursor \in Nat /\ nFull \in Nat /\ nFull' \in Nat
          /\ nRecovered(h) \in Nat /\ nBatch(h) \in Nat
      BY <1>1 DEF Sorts
    <3>2. state[h].cursor <= nFull + nRecovered(h) /\ nFull <= nFull'
      BY <1>1 DEF Tells, Repaired, Grows
    <3>3. state[h].cursor <= nFull' + nRecovered(h)
      BY <3>1, <3>2
    <3>4. CASE ok /\ Head(work[h].chain) # "flush"
      <4>1. state'[h].cursor <= nFull'
        BY <3>4 DEF Advances
      <4> QED
        BY <2>1, <3>1, <4>1
    <3>5. CASE ok /\ Head(work[h].chain) = "flush"
      <4>1. state'[h].cursor = state[h].cursor + 0
        BY <1>1, <3>5, FlushIsEmpty DEF Advances
      <4> QED
        BY <2>1, <3>1, <3>3, <4>1
    <3>6. CASE ~ok
      <4>1. state'[h].cursor = state[h].cursor
        BY <3>6 DEF Advances
      <4> QED
        BY <2>1, <3>3, <4>1
    <3> QED
      BY <3>4, <3>5, <3>6
  <2>5. at'[h].st = "locked" => file'.made
    OBVIOUS
  <2> QED
    BY <2>1, <2>2, <2>3, <2>4, <2>5 DEF Repaired
<1>5. Fresh(h)'
  BY DEF Fresh
<1>6. Closed(h)'
  <2>1. close'[h].st = close[h].st /\ close'[h].upTo = close[h].upTo /\ close'[h].failed = close[h].failed
    BY <1>2 DEF Settled
  <2>2. PICK k \in Int : k = close[h].upTo
    BY <1>1 DEF Sorts
  <2>3. close[h].st \in {"drain", "look"} => Owed(h, k)'
    BY <1>1, <1>2, <2>2, SettledOwed DEF Tells, Closed
  <2>4. k <= nFull => k <= nFull'
    BY <1>1 DEF Grows, Sorts
  <2> QED
    BY <1>1, <2>1, <2>2, <2>3, <2>4 DEF Tells, Closed, PastLastLook, Owed, nFull
<1>7. Alone(h)
  BY <1>2 DEF Alone, Settled
<1> QED
  BY <1>3, <1>4, <1>5, <1>6, <1>7, StepTells DEF Tells

-------------------------------------------------------------------------------
(* The running operation goes on                                            *)

\* The next stage of an operation that has its batch.
LEMMA StageTells ==
    ASSUME NEW h \in Handles, IInv, IInv', Told, Exists(h),
           UNCHANGED <<file, state, buf, owner, flush, close, acked, stray>>, at'[h].st = at[h].st,
           work'[h].chain = work[h].chain, work'[h].batch = work[h].batch, work'[h].stage # "idle",
           work[h].stage = "idle" => Head(work[h].chain) = "flush",
           work'[h].stage = "header" => Head(work[h].chain) = "flush",
           work'[h].stage \in {"rewrite", "write", "rollback"} => ~state[h].torn,
           work'[h].stage = "rewrite" => state[h].recovered # <<>>,
           work'[h].stage = "write" => state[h].recovered = <<>>,
           work'[h].stage \in {"truncate", "rewrite", "rollback"} => state[h].made,
           \A g \in Handles \ {h} : at'[g] = at[g] /\ work'[g] = work[g]
    PROVE  Told'
<1>1. Types /\ Types' /\ Sorts(h) /\ Sorts(h)' /\ Safe(h) /\ Tells(h) /\ Shape
  BY Known
<1>2. Owes(h)' /\ Chained(h)' /\ Fresh(h)'
  BY <1>1 DEF Tells, Owes, Chained, Fresh, nBatch, nEvents, nSuffix
<1>3. Batched(h)'
  BY <1>1 DEF Tells, Batched
<1>4. Repaired(h)'
  BY <1>1 DEF Tells, Repaired, nFull, nRecovered
<1>5. Flushed(h)' /\ Closed(h)'
  BY <1>1 DEF Tells, Flushed, Closed, PastLastLook, Owed, nFull
<1>6. Alone(h) /\ Grows /\ Shape'
  BY <1>1 DEF Alone, Grows, Shape, nFull, Sorts
<1> QED
  BY <1>2, <1>3, <1>4, <1>5, <1>6, StepTells DEF Tells

LEMMA LeaseIs ==
    ASSUME NEW h \in Handles, NEW op \in Ops
    PROVE  /\ Lease(h, op) \in {"lease", "header", "check"} /\ AfterLease(op) \in {"header", "check"}
           /\ Lease(h, op) = "header" => op = "flush"
           /\ AfterLease(op) = "header" => op = "flush"
BY DEF Lease, AfterLease, Ops

LEMMA BeginTells ==
    ASSUME NEW h \in Handles, IInv, IInv', Told, Begin(h)
    PROVE  Told'
<1> USE DEF tracker
<1> DEFINE op == Head(work[h].chain)
<1>1. Types /\ Types' /\ Sorts(h) /\ Sorts(h)' /\ Safe(h) /\ Tells(h) /\ Shape
  BY Known
<1>2. /\ UNCHANGED <<file, at, state, acked, stray>> /\ Exists(h)
      /\ work[h].chain # <<>> /\ work[h].stage = "idle"
  BY DEF Begin, Running
<1>3. /\ op \in Ops
      /\ op = "drain" => buf[h].drain = "queued"
      /\ op = "append" => owner[h].append = "queued"
  BY <1>1, <1>2, HeadIs
<1>4. Lease(h, op) \in {"lease", "header", "check"} /\ (Lease(h, op) = "header" => op = "flush")
  BY <1>3, LeaseIs
<1>5. work[h].batch = <<>> /\ nBatch(h) = 0
  BY <1>1, <1>2 DEF Tells, Batched, nBatch
<1>6. Grows /\ Shape'
  BY <1>1, <1>2 DEF Grows, Shape, nFull, Sorts
<1>7. CASE /\ op = "drain"
           /\ work' = [work EXCEPT ![h].batch = buf[h].events, ![h].stage = Lease(h, op)]
           /\ buf' = [buf EXCEPT ![h].events = <<>>]
           /\ UNCHANGED <<owner, flush, close>>
  <2>1. /\ work'[h].chain = work[h].chain /\ work'[h].batch = buf[h].events /\ work'[h].stage = Lease(h, op)
        /\ \A g \in Handles \ {h} : work'[g] = work[g]
    BY <1>1, <1>7 DEF Types, TypeWork
  <2>2. /\ buf'[h].events = <<>> /\ buf'[h].drain = buf[h].drain
        /\ \A g \in Handles \ {h} : buf'[g] = buf[g]
    BY <1>1, <1>7 DEF Types, TypeBuf
  <2>3. nBatch(h)' = nEvents(h) /\ nEvents(h)' = 0
    BY <2>1, <2>2 DEF nBatch, nEvents
  <2>4. owner[h].live /\ owner[h].append = "none"
    BY <1>1, <1>2, <1>3, <1>7 DEF Tells, Owes
  <2>5. /\ state[h].cursor + nBatch(h) = state[h].cursor
        /\ owner[h].last = state[h].cursor + nEvents(h) + 0
    <3>1. owner[h].last = state[h].cursor + nBatch(h) + nEvents(h)
      BY <1>1, <1>2, <2>4 DEF Tells, Owes
    <3>2. state[h].cursor \in Nat /\ nEvents(h) \in Nat
      BY <1>1 DEF Sorts
    <3> QED
      BY <1>5, <3>1, <3>2
  <2>6. Continues(work'[h].batch, state[h].cursor)
    BY <1>1, <1>2, <2>1, <2>4, <2>5 DEF Tells, Owes
  <2>7. Owes(h)'
    BY <1>1, <1>2, <1>7, <2>2, <2>3, <2>4, <2>5, <2>6, EmptyContinues DEF Tells, Owes
  <2>8. Chained(h)' /\ Batched(h)'
    BY <1>1, <1>4, <1>7, <2>1 DEF Tells, Chained, Batched
  <2>9. Repaired(h)' /\ Fresh(h)'
    BY <1>1, <1>2, <1>4, <1>7, <2>1 DEF Tells, Repaired, Fresh, nFull, nRecovered
  <2>10. Flushed(h)' /\ Closed(h)'
    BY <1>1, <1>2, <1>7, <2>2 DEF Tells, Flushed, Closed, PastLastLook, Owed, nFull
  <2>11. Alone(h)
    BY <1>2, <1>7, <2>1, <2>2 DEF Alone
  <2> QED
    BY <1>2, <1>6, <2>7, <2>8, <2>9, <2>10, <2>11, StepTells DEF Tells
<1>8. CASE /\ op = "append" /\ close[h].st = "no"
           /\ work' = [work EXCEPT ![h].batch = owner[h].suffix, ![h].stage = Lease(h, op)]
           /\ UNCHANGED <<buf, owner, flush, close>>
  <2>1. /\ work'[h].chain = work[h].chain /\ work'[h].batch = owner[h].suffix /\ work'[h].stage = Lease(h, op)
        /\ \A g \in Handles \ {h} : work'[g] = work[g]
    BY <1>1, <1>8 DEF Types, TypeWork
  <2>2. owner[h].append = "queued"
    BY <1>3, <1>8
  <2>3. Owes(h)'
    BY <1>1, <1>2, <1>8, <2>2 DEF Tells, Owes, nSuffix
  <2>4. Chained(h)' /\ Batched(h)'
    BY <1>1, <1>4, <1>8, <2>1 DEF Tells, Chained, Batched
  <2>5. Repaired(h)' /\ Fresh(h)'
    BY <1>1, <1>2, <1>4, <1>8, <2>1 DEF Tells, Repaired, Fresh, nFull, nRecovered
  <2>6. Flushed(h)' /\ Closed(h)'
    BY <1>1, <1>2, <1>8 DEF Tells, Flushed, Closed, PastLastLook, Owed, nFull
  <2>7. Alone(h)
    BY <1>2, <1>8, <2>1 DEF Alone
  <2> QED
    BY <1>2, <1>6, <2>3, <2>4, <2>5, <2>6, <2>7, StepTells DEF Tells
<1>9. CASE /\ op = "flush" /\ close[h].st = "no" /\ ~state[h].made
            /\ work' = [work EXCEPT ![h].stage = Lease(h, op)]
            /\ UNCHANGED <<buf, owner, flush, close>>
  <2>1. /\ work'[h].chain = work[h].chain /\ work'[h].batch = work[h].batch /\ work'[h].stage = Lease(h, op)
        /\ \A g \in Handles \ {h} : work'[g] = work[g]
    BY <1>1, <1>9 DEF Types, TypeWork
  <2> QED
    BY <1>2, <1>4, <1>9, <2>1, StageTells
<1>10. ASSUME NEW ok \in BOOLEAN, Settle(h, ok), op # "drain", ok => op = "flush" /\ state[h].made
       PROVE  Told'
  <2>1. state[h].cursor = IF ok THEN state[h].cursor + nBatch(h) ELSE state[h].cursor
    <3>1. state[h].cursor \in Nat
      BY <1>1 DEF Sorts
    <3> QED
      BY <1>5, <3>1
  <2>2. state[h].made => file.made
    BY <1>1 DEF Tells, Repaired
  <2>3. Advances(h, ok)
    BY <1>2, <1>10, <2>1, <2>2 DEF Advances
  <2> QED
    BY <1>2, <1>6, <1>10, <2>3, SettledTells
<1> QED
  BY <1>7, <1>8, <1>9, <1>10 DEF Begin

LEMMA AcquireLeaseTells ==
    ASSUME NEW h \in Handles, IInv, IInv', Told, AcquireLease(h)
    PROVE  Told'
<1> USE DEF tracker
<1>1. Types /\ Types' /\ Sorts(h) /\ Sorts(h)' /\ Safe(h) /\ Tells(h) /\ Shape
  BY Known
<1>2. /\ UNCHANGED <<file, state, buf, owner, flush, close, acked, stray>> /\ Exists(h)
      /\ work[h].chain # <<>> /\ work[h].stage = "lease"
  BY DEF AcquireLease, Running
<1>3. at'[h].st = at[h].st /\ \A g \in Handles \ {h} : at'[g] = at[g]
  BY <1>1 DEF AcquireLease, Types, TypeAt
<1>4. /\ work'[h].chain = work[h].chain /\ work'[h].batch = work[h].batch
      /\ work'[h].stage = AfterLease(Head(work[h].chain))
      /\ \A g \in Handles \ {h} : work'[g] = work[g]
  BY <1>1 DEF AcquireLease, Types, TypeWork
<1>5. /\ work'[h].stage \in {"header", "check"}
      /\ work'[h].stage = "header" => Head(work[h].chain) = "flush"
  BY <1>1, <1>2, <1>4, HeadIs, LeaseIs
<1> QED
  BY <1>2, <1>3, <1>4, <1>5, StageTells

\* A failure leaves the state of the handle alone.
LEMMA FailedTells ==
    ASSUME NEW h \in Handles, IInv, IInv', Told, Exists(h), work[h].chain # <<>>, work[h].stage # "idle",
           Settle(h, FALSE), Grows, Shape', UNCHANGED <<at, state, stray>>
    PROVE  Told'
<1>1. Tells(h)
  BY DEF Told
<1>2. state[h].made => file'.made
  BY <1>1 DEF Tells, Repaired, Grows
<1>3. Advances(h, FALSE)
  BY <1>2 DEF Advances
<1> QED
  BY <1>3, SettledTells

LEMMA CheckTells ==
    ASSUME NEW h \in Handles, IInv, IInv', Told, Check(h)
    PROVE  Told'
<1> USE DEF tracker
<1>1. Types /\ Types' /\ Sorts(h) /\ Sorts(h)' /\ Safe(h) /\ Tells(h) /\ Shape
  BY Known
<1>2. /\ UNCHANGED <<file, at, state, acked, stray>> /\ Exists(h)
      /\ work[h].chain # <<>> /\ work[h].stage = "check"
  BY DEF Check, Running
<1>3. CASE Head(work[h].batch) = state[h].cursor + 1
  <2>1. /\ work'[h].chain = work[h].chain /\ work'[h].batch = work[h].batch /\ work'[h].stage = FirstWrite(h)
        /\ \A g \in Handles \ {h} : work'[g] = work[g]
    BY <1>1, <1>3 DEF Check, Types, TypeWork
  <2>2. /\ FirstWrite(h) \in {"truncate", "rewrite", "write"}
        /\ FirstWrite(h) \in {"rewrite", "write"} => ~state[h].torn
        /\ FirstWrite(h) = "rewrite" => state[h].recovered # <<>>
        /\ FirstWrite(h) = "write" => state[h].recovered = <<>>
        /\ FirstWrite(h) \in {"truncate", "rewrite"} => state[h].made
    BY <1>1 DEF FirstWrite, Tells, Repaired
  <2>3. UNCHANGED <<buf, owner, flush, close>>
    BY <1>3 DEF Check
  <2> QED
    BY <1>2, <2>1, <2>2, <2>3, StageTells
<1>4. CASE Head(work[h].batch) # state[h].cursor + 1
  <2>1. Grows /\ Shape'
    BY <1>1, <1>2 DEF Grows, Shape, nFull, Sorts
  <2> QED
    BY <1>2, <1>4, <2>1, FailedTells DEF Check
<1> QED
  BY <1>3, <1>4

\* What an append wrote is taken back.
LEMMA AppendFailsTells ==
    ASSUME NEW h \in Handles, IInv, IInv', Told, AppendFails(h)
    PROVE  Told'
<1>1. Types /\ Tells(h)
  BY Known
<1>2. /\ UNCHANGED <<file, at, state, buf, owner, flush, close, acked, stray>> /\ Exists(h)
      /\ work[h].stage \in {"rewrite", "write"} /\ state[h].made
  BY DEF AppendFails, Appending, Running
<1>3. /\ work'[h].chain = work[h].chain /\ work'[h].batch = work[h].batch /\ work'[h].stage = "rollback"
      /\ \A g \in Handles \ {h} : work'[g] = work[g]
  BY <1>1 DEF AppendFails, Types, TypeWork
<1>4. ~state[h].torn
  BY <1>1, <1>2 DEF Tells, Repaired
<1> QED
  BY <1>2, <1>3, <1>4, StageTells

\* Whatever a failed or an interrupted write leaves, no complete event is lost.
Left(h) ==
    \/ file' = file
    \/ file' = [file EXCEPT !.torn = FALSE, !.tail = <<>>]
    \/ ~file.made /\ file' = Published(Bytes(h))
    \/ file.made /\ file' = [file EXCEPT !.full = @ \o Bytes(h)]
    \/ file.made /\ \E n \in 0 .. Len(Bytes(h)) :
                       file' = [file EXCEPT !.torn = TRUE, !.tail = SubSeq(Bytes(h), 1, n)]

\* Events are only ever added behind those that are complete.
LEMMA Longer ==
    ASSUME NEW r \in Seq(Events), NEW s \in Seq(Events)
    PROVE  Len(r \o s) = Len(r) + Len(s) /\ Len(r) <= Len(r \o s)
<1>1. Len(r \o s) = Len(r) + Len(s) /\ Len(s) \in Nat /\ Len(r) \in Nat
  OBVIOUS
<1> QED
  BY <1>1

LEMMA LeftGrows ==
    ASSUME NEW h \in Handles, IInv, IInv', Told, Left(h), acked' = acked
    PROVE  Grows /\ Shape'
<1>1. Types /\ Types' /\ Sorts(h) /\ Sorts(h)' /\ Shape
  BY Known
<1>2. file \in [made : BOOLEAN, full : Seq(Events), torn : BOOLEAN, tail : Seq(Events)]
  BY <1>1 DEF Types, TypeFile
<1>3. nFull \in Nat /\ nFull' \in Nat /\ acked \in Nat
  BY <1>1 DEF Sorts
<1>4. Grows /\ (~file'.made => file'.full = <<>> /\ file'.tail = <<>> /\ ~file'.torn)
      /\ (~file'.torn => file'.tail = <<>>)
  <2>1. CASE file' = file
    BY <1>1, <1>3, <2>1 DEF Grows, Shape, nFull
  <2>2. CASE file' = [file EXCEPT !.torn = FALSE, !.tail = <<>>]
    <3>1. file'.made = file.made /\ file'.full = file.full /\ file'.torn = FALSE /\ file'.tail = <<>>
      BY <1>2, <2>2
    <3> QED
      BY <1>1, <1>3, <3>1 DEF Grows, Shape, nFull
  <2>3. CASE ~file.made /\ file' = Published(Bytes(h))
    <3>1. file'.made = TRUE /\ file'.torn = FALSE /\ file'.tail = <<>>
      BY <2>3 DEF Published
    <3>2. nFull = 0
      BY <1>1, <2>3 DEF Shape, nFull
    <3> QED
      BY <1>3, <3>1, <3>2 DEF Grows
  <2>4. CASE file.made /\ file' = [file EXCEPT !.full = @ \o Bytes(h)]
    <3>1. file'.made = file.made /\ file'.full = file.full \o Bytes(h) /\ file'.torn = file.torn /\ file'.tail = file.tail
      BY <1>2, <2>4
    <3>2. Len(file.full) <= Len(file.full \o Bytes(h))
      BY <1>1, <1>2, BytesType, Longer DEF Sorts
    <3> QED
      BY <1>1, <2>4, <3>1, <3>2 DEF Grows, Shape, nFull
  <2>5. CASE file.made /\ \E n \in 0 .. Len(Bytes(h)) :
                             file' = [file EXCEPT !.torn = TRUE, !.tail = SubSeq(Bytes(h), 1, n)]
    <3>1. file'.made = file.made /\ file'.full = file.full /\ file'.torn = TRUE
      BY <1>2, <2>5
    <3> QED
      BY <1>3, <2>5, <3>1 DEF Grows, nFull
  <2> QED
    BY <2>1, <2>2, <2>3, <2>4, <2>5 DEF Left
<1>5. acked <= nFull'
  <2>1. acked <= nFull /\ nFull <= nFull'
    BY <1>1, <1>4 DEF Shape, Grows
  <2> QED
    BY <1>3, <2>1
<1> QED
  BY <1>4, <1>5 DEF Shape

\* A lease that is refused, a log that exists, and a write that fails, at once or
\* after its bytes were taken back.
LEMMA FailTells ==
    ASSUME NEW h \in Handles, IInv, IInv', Told, LeaseRefused(h) \/ RefuseExisting(h) \/ Fail(h) \/ RollBack(h)
    PROVE  Told'
<1> USE DEF tracker
<1>1. Tells(h)
  BY DEF Told
<1>2. /\ UNCHANGED <<at, state, acked, stray>> /\ Exists(h)
      /\ work[h].chain # <<>> /\ work[h].stage # "idle" /\ Settle(h, FALSE)
  BY DEF LeaseRefused, RefuseExisting, Fail, RollBack, Running
<1>3. Left(h)
  <2>1. CASE LeaseRefused(h) \/ RefuseExisting(h)
    BY <2>1 DEF LeaseRefused, RefuseExisting, Left
  <2>2. CASE Fail(h)
    <3>1. state[h].made => file.made
      BY <1>1 DEF Tells, Repaired
    <3>2. file' = file \/ file' \in Outcome(h)
      BY <2>2 DEF Fail
    <3> QED
      BY <3>1, <3>2 DEF Outcome, Appending, Left
  <2>3. CASE RollBack(h)
    <3>1. file.made
      BY <1>1, <2>3 DEF Tells, Repaired, RollBack, Running
    <3> QED
      BY <2>3, <3>1 DEF RollBack, Left
  <2> QED
    BY <2>1, <2>2, <2>3
<1>4. Grows /\ Shape'
  BY <1>2, <1>3, LeftGrows
<1> QED
  BY <1>2, <1>4, FailedTells

-------------------------------------------------------------------------------
(* The repair and the write                                                 *)

LEMMA TruncateTells ==
    ASSUME NEW h \in Handles, IInv, IInv', Told, Truncate(h)
    PROVE  Told'
<1> USE DEF tracker
<1>1. Types /\ Types' /\ Sorts(h) /\ Sorts(h)' /\ Safe(h) /\ Tells(h) /\ Shape
  BY Known
<1>2. /\ UNCHANGED <<at, buf, owner, flush, close, acked, stray>> /\ Exists(h)
      /\ work[h].chain # <<>> /\ work[h].stage = "truncate"
      /\ file' = [file EXCEPT !.torn = FALSE, !.tail = <<>>]
  BY DEF Truncate, Running
<1>3. /\ state'[h].cursor = state[h].cursor /\ state'[h].made = state[h].made /\ ~state'[h].torn
      /\ state'[h].recovered = state[h].recovered
      /\ \A g \in Handles \ {h} : state'[g] = state[g]
  BY <1>1 DEF Truncate, Types, TypeState
<1>4. /\ work'[h].chain = work[h].chain /\ work'[h].batch = work[h].batch
      /\ work'[h].stage = IF state[h].recovered # <<>> THEN "rewrite" ELSE "write"
      /\ \A g \in Handles \ {h} : work'[g] = work[g]
  BY <1>1 DEF Truncate, Types, TypeWork
<1>5. Grows /\ Shape'
  BY <1>2, LeftGrows DEF Left
<1>6. nFull' = nFull /\ nRecovered(h)' = nRecovered(h) /\ file'.made = file.made
  BY <1>1, <1>2, <1>3 DEF nFull, nRecovered, Types, TypeFile
<1>7. Owes(h)' /\ Chained(h)' /\ Fresh(h)'
  BY <1>1, <1>2, <1>3, <1>4 DEF Tells, Owes, Chained, Fresh, nBatch, nEvents, nSuffix
<1>8. Batched(h)'
  BY <1>1, <1>2, <1>4 DEF Tells, Batched
<1>9. Repaired(h)'
  BY <1>1, <1>2, <1>3, <1>4, <1>6 DEF Tells, Repaired
<1>10. \A k \in Int : Owed(h, k) => Owed(h, k)'
  BY <1>2, <1>3, <1>6 DEF Owed, nFull
<1>11. Flushed(h)' /\ Closed(h)'
  BY <1>1, <1>2, <1>6, <1>10 DEF Tells, Flushed, Closed, PastLastLook, Sorts, nFull
<1>12. Alone(h)
  BY <1>2, <1>3, <1>4 DEF Alone
<1> QED
  BY <1>2, <1>5, <1>7, <1>8, <1>9, <1>11, <1>12, StepTells DEF Tells

LEMMA RewriteTells ==
    ASSUME NEW h \in Handles, IInv, IInv', Told, Rewrite(h)
    PROVE  Told'
<1> USE DEF tracker
<1>1. Types /\ Types' /\ Sorts(h) /\ Sorts(h)' /\ Safe(h) /\ Tells(h) /\ Shape
  BY Known
<1>2. /\ UNCHANGED <<at, buf, owner, flush, close, acked, stray>> /\ Exists(h)
      /\ work[h].chain # <<>> /\ work[h].stage = "rewrite"
      /\ file' = [file EXCEPT !.full = @ \o state[h].recovered]
  BY DEF Rewrite, Running
<1>3. /\ state'[h].cursor = state[h].cursor /\ state'[h].made = state[h].made /\ state'[h].torn = state[h].torn
      /\ state'[h].recovered = <<>>
      /\ \A g \in Handles \ {h} : state'[g] = state[g]
  BY <1>1 DEF Rewrite, Types, TypeState
<1>4. /\ work'[h].chain = work[h].chain /\ work'[h].batch = work[h].batch /\ work'[h].stage = "write"
      /\ \A g \in Handles \ {h} : work'[g] = work[g]
  BY <1>1 DEF Rewrite, Types, TypeWork
<1>5. state[h].made /\ file.made /\ ~state[h].torn
  BY <1>1, <1>2 DEF Tells, Repaired
<1>6. Grows /\ Shape'
  <2>1. Bytes(h) = state[h].recovered
    BY <1>1, <1>2 DEF Tells, Repaired, Bytes
  <2> QED
    BY <1>2, <1>5, <2>1, LeftGrows DEF Left
<1>7. nFull' = nFull + nRecovered(h) /\ nRecovered(h)' = 0 /\ file'.made = file.made
  <2>1. file'.full = file.full \o state[h].recovered /\ file'.made = file.made
    BY <1>1, <1>2 DEF Types, TypeFile
  <2>2. Len(file.full \o state[h].recovered) = Len(file.full) + Len(state[h].recovered)
    BY <1>1, Longer DEF Sorts
  <2> QED
    BY <1>3, <2>1, <2>2 DEF nFull, nRecovered
<1>8. state'[h].cursor <= nFull' + nRecovered(h)'
  <2>1. state[h].cursor <= nFull + nRecovered(h)
    BY <1>1 DEF Tells, Repaired
  <2>2. state[h].cursor \in Nat /\ nFull \in Nat /\ nRecovered(h) \in Nat
    BY <1>1 DEF Sorts
  <2> QED
    BY <1>3, <1>7, <2>1, <2>2
<1>9. Owes(h)' /\ Chained(h)' /\ Fresh(h)'
  BY <1>1, <1>2, <1>3, <1>4 DEF Tells, Owes, Chained, Fresh, nBatch, nEvents, nSuffix
<1>10. Batched(h)'
  BY <1>1, <1>2, <1>4 DEF Tells, Batched
<1>11. Repaired(h)'
  BY <1>1, <1>2, <1>3, <1>4, <1>5, <1>7, <1>8 DEF Repaired
<1>12. \A k \in Int : /\ Owed(h, k) => Owed(h, k)'
                      /\ k <= nFull => k <= nFull'
  <2>1. \A k \in Int : k <= nFull => k <= nFull'
    BY <1>1, <1>6 DEF Grows, Sorts
  <2> QED
    BY <1>2, <1>3, <2>1 DEF Owed
<1>13. Flushed(h)' /\ Closed(h)'
  BY <1>1, <1>2, <1>12 DEF Tells, Flushed, Closed, PastLastLook, Sorts
<1>14. Alone(h)
  BY <1>2, <1>3, <1>4 DEF Alone
<1> QED
  BY <1>2, <1>6, <1>9, <1>10, <1>11, <1>13, <1>14, StepTells DEF Tells

LEMMA WriteTells ==
    ASSUME NEW h \in Handles, IInv, IInv', Told, Write(h)
    PROVE  Told'
<1> USE DEF tracker
<1>1. Types /\ Types' /\ Sorts(h) /\ Sorts(h)' /\ Safe(h) /\ Tells(h) /\ Shape
  BY Known
<1>2. /\ UNCHANGED <<at, stray>> /\ Exists(h) /\ work[h].chain # <<>> /\ work[h].stage = "write"
      /\ Settle(h, TRUE) /\ (state[h].made \/ ~file.made)
  BY DEF Write, Running
<1>3. /\ state'[h].cursor = state[h].cursor + nBatch(h) /\ state'[h].made = TRUE
      /\ state'[h].torn = state[h].torn /\ state'[h].recovered = state[h].recovered
      /\ \A g \in Handles \ {h} : state'[g] = state[g]
  BY <1>1 DEF Write, Types, TypeState, nBatch
<1>4. state[h].recovered = <<>> /\ nRecovered(h) = 0 /\ (state[h].made => file.made)
  BY <1>1, <1>2 DEF Tells, Repaired, nRecovered
<1>5. /\ state[h].cursor \in Nat /\ nBatch(h) \in Nat /\ nFull \in Nat /\ nFull' \in Nat /\ acked \in Nat
      /\ file \in [made : BOOLEAN, full : Seq(Events), torn : BOOLEAN, tail : Seq(Events)]
  BY <1>1 DEF Sorts, Types, TypeFile
<1>6. state[h].cursor <= nFull
  <2>1. state[h].cursor <= nFull + nRecovered(h)
    BY <1>1 DEF Tells, Repaired
  <2> QED
    BY <1>4, <1>5, <2>1
<1>7. /\ nFull' = nFull + nBatch(h) /\ file'.made = TRUE
      /\ ~file'.torn => file'.tail = <<>>
  <2>1. CASE state[h].made
    <3>1. file'.full = file.full \o work[h].batch /\ file'.made = file.made /\ file'.torn = file.torn /\ file'.tail = file.tail
      BY <1>5, <2>1 DEF Write
    <3>2. Len(file.full \o work[h].batch) = Len(file.full) + Len(work[h].batch)
      BY <1>1, Longer DEF Sorts
    <3> QED
      BY <1>1, <1>4, <2>1, <3>1, <3>2 DEF nFull, nBatch, Shape, Sorts
  <2>2. CASE ~state[h].made
    <3>1. file' = Published(work[h].batch) /\ ~file.made
      BY <1>2, <2>2 DEF Write
    <3>2. file'.full = work[h].batch /\ file'.made = TRUE /\ file'.tail = <<>>
      BY <3>1 DEF Published
    <3>3. nFull' = nBatch(h) /\ nFull = 0
      BY <1>1, <3>1, <3>2 DEF nFull, nBatch, Shape
    <3> QED
      BY <1>5, <3>2, <3>3
  <2> QED
    BY <2>1, <2>2
<1>8. state'[h].cursor <= nFull' /\ nFull <= nFull' /\ acked <= nFull'
  <2>1. acked <= nFull
    BY <1>1 DEF Shape
  <2> QED
    BY <1>3, <1>5, <1>6, <1>7, <2>1
<1>9. acked' <= nFull'
  <2>1. acked' = acked \/ acked' = state'[h].cursor
    BY <1>3 DEF Write, nBatch
  <2> QED
    BY <1>8, <2>1
<1>10. Grows /\ Shape'
  BY <1>7, <1>8, <1>9 DEF Grows, Shape
<1>11. Advances(h, TRUE)
  BY <1>2, <1>3, <1>4, <1>7, <1>8 DEF Advances
<1> QED
  BY <1>2, <1>3, <1>10, <1>11, SettledTells

LEMMA HeaderTells ==
    ASSUME NEW h \in Handles, IInv, IInv', Told, Header(h)
    PROVE  Told'
<1> USE DEF tracker
<1>1. Types /\ Types' /\ Sorts(h) /\ Sorts(h)' /\ Safe(h) /\ Tells(h) /\ Shape
  BY Known
<1>2. /\ UNCHANGED <<at, acked, stray>> /\ Exists(h) /\ work[h].chain # <<>> /\ work[h].stage = "header"
      /\ Settle(h, TRUE) /\ ~file.made /\ file' = Published(<<>>)
  BY DEF Header, Running
<1>3. /\ state'[h].cursor = state[h].cursor /\ state'[h].made = TRUE
      /\ state'[h].torn = state[h].torn /\ state'[h].recovered = state[h].recovered
      /\ \A g \in Handles \ {h} : state'[g] = state[g]
  BY <1>1 DEF Header, Types, TypeState
<1>4. file'.full = <<>> /\ file'.made = TRUE /\ file'.tail = <<>>
  BY <1>2 DEF Published
<1>5. nFull = 0 /\ nFull' = 0
  BY <1>1, <1>2, <1>4 DEF nFull, Shape
<1>6. Grows /\ Shape'
  BY <1>1, <1>2, <1>4, <1>5 DEF Grows, Shape
<1>7. Head(work[h].chain) = "flush"
  BY <1>1, <1>2 DEF Tells, Batched
<1>8. state[h].cursor = state[h].cursor + nBatch(h)
  <2>1. nBatch(h) = 0
    BY <1>1, <1>7, FlushIsEmpty
  <2>2. state[h].cursor \in Nat
    BY <1>1 DEF Sorts
  <2> QED
    BY <2>1, <2>2
<1>9. Advances(h, TRUE)
  BY <1>2, <1>3, <1>4, <1>7, <1>8 DEF Advances
<1> QED
  BY <1>2, <1>3, <1>6, <1>9, SettledTells

-------------------------------------------------------------------------------
(* A crash                                                                  *)

LEMMA CrashTells ==
    ASSUME NEW p \in Procs, IInv, IInv', Told, Crash(p)
    PROVE  Told'
<1>1. Types /\ Types' /\ Shape /\ acked' = acked /\ stray' = stray
  BY TypesAre, TypesAreNext DEF IInv, Told, Crash
<1>2. file' = file \/ \E k \in Handles : file' \in Interrupted(k)
  BY DEF Crash, Writing
<1>3. ASSUME NEW k \in Handles, file' = file \/ file' \in Interrupted(k)
      PROVE  Left(k)
  <2>1. state[k].made => file.made
    BY DEF Told, Tells, Repaired
  <2> QED
    BY <1>3, <2>1 DEF Interrupted, Left
<1>4. \E k \in Handles : Left(k)
  <2>1. \E k \in Handles : TRUE
    BY DEF Crash
  <2> QED
    BY <1>2, <1>3, <2>1
<1>5. Grows /\ Shape'
  BY <1>1, <1>4, LeftGrows
<1>6. ASSUME NEW h \in Handles PROVE Tells(h)'
  <2>1. Tells(h) /\ Sorts(h) /\ Sorts(h)'
    BY Known
  <2>2. CASE Proc(h) = p
    <3>1. /\ at'[h] = Gone /\ state'[h] = NoState /\ buf'[h] = NoBuffer /\ work'[h] = NoWork
          /\ owner'[h] = NoOwner /\ close'[h] = NotClosing /\ flush'[h] = NoFlush
      BY <2>2 DEF Crash, Reset
    <3>2. /\ at'[h].st = "gone" /\ work'[h].chain = <<>> /\ work'[h].stage = "idle" /\ work'[h].batch = <<>>
          /\ state'[h].cursor = 0 /\ ~state'[h].made /\ ~state'[h].torn /\ state'[h].recovered = <<>>
          /\ close'[h].st = "no" /\ flush'[h].st = "none"
      BY <3>1 DEF Gone, NoWork, NoState, NotClosing, NoFlush
    <3>3. state'[h].cursor <= nFull' + nRecovered(h)'
      <4>1. nRecovered(h)' = 0
        BY <3>2 DEF nRecovered
      <4>2. nFull' \in Nat
        BY <2>1 DEF Sorts
      <4> QED
        BY <3>2, <4>1, <4>2
    <3>4. Chained(h)' /\ Batched(h)'
      BY <3>2, EmptyChain DEF Chained, Batched
    <3>5. Repaired(h)' /\ Fresh(h)'
      BY <3>1, <3>2, <3>3 DEF Repaired, Fresh
    <3>6. Flushed(h)' /\ Closed(h)' /\ ~Exists(h)'
      BY <3>2 DEF Flushed, Closed, PastLastLook
    <3> QED
      BY <3>4, <3>5, <3>6 DEF Tells
  <2>3. CASE Proc(h) # p
    <3>1. /\ at'[h] = at[h] /\ state'[h] = state[h] /\ buf'[h] = buf[h] /\ work'[h] = work[h]
          /\ owner'[h] = owner[h] /\ close'[h] = close[h] /\ flush'[h] = flush[h]
      BY <2>3 DEF Crash, Reset
    <3> QED
      BY <1>1, <1>5, <2>1, <3>1, TellsStays
  <2> QED
    BY <2>2, <2>3
<1> QED
  BY <1>5, <1>6 DEF Told

-------------------------------------------------------------------------------
(* The theorems                                                             *)

LEMMA InitTold == Init => Told
<1> SUFFICES ASSUME Init PROVE Told
  OBVIOUS
<1>1. ASSUME NEW h \in Handles PROVE Tells(h)
  <2>1. /\ at[h].st = "unused" /\ state[h] = NoState /\ owner[h] = NoOwner /\ flush[h] = NoFlush
        /\ work[h] = NoWork /\ close[h] = NotClosing /\ file.full = <<>>
    BY DEF Init
  <2>2. /\ work[h].chain = <<>> /\ work[h].stage = "idle" /\ work[h].batch = <<>>
        /\ state[h].cursor = 0 /\ ~state[h].made /\ ~state[h].torn /\ state[h].recovered = <<>>
        /\ close[h].st = "no" /\ flush[h].st = "none"
    BY <2>1 DEF NoWork, NoState, NotClosing, NoFlush
  <2>3. nFull = 0 /\ nRecovered(h) = 0
    BY <2>1, <2>2 DEF nFull, nRecovered
  <2>4. Chained(h) /\ Batched(h)
    BY <2>2, EmptyChain DEF Chained, Batched
  <2>5. Repaired(h) /\ Fresh(h)
    BY <2>1, <2>2, <2>3 DEF Repaired, Fresh
  <2>6. Flushed(h) /\ Closed(h) /\ ~Exists(h)
    BY <2>1, <2>2 DEF Flushed, Closed, PastLastLook
  <2> QED
    BY <2>4, <2>5, <2>6 DEF Tells
<1>2. Shape
  BY DEF Init, Shape, nFull
<1> QED
  BY <1>1, <1>2 DEF Told

LEMMA StepTold == IInv /\ IInv' /\ Told /\ [Next]_vars => Told'
<1> SUFFICES ASSUME IInv, IInv', Told, [Next]_vars PROVE Told'
  OBVIOUS
<1>1. CASE \E h \in Handles, p \in Procs : CreateLookup(h, p) \/ OpenClaim(h, p)
  BY <1>1, OpeningTells DEF Opening
<1>2. ASSUME NEW h \in Handles,
             \/ CreateRegister(h) \/ OpenLock(h) \/ OpenRead(h) \/ OpenAdopt(h) \/ OpenFails(h)
             \/ OpenReleases(h) \/ ReleaseLease(h)
      PROVE  Told'
  BY <1>2, OpeningTells, ReleaseLeaseTells DEF Opening
<1>3. ASSUME NEW h \in Handles,
             \/ \E n \in Events : ExplicitAppend(h, n)
             \/ GoLive(h) \/ RouteLive(h) \/ TimerFires(h)
             \/ \E kind \in {"session", "all"} : FlushCall(h, kind)
             \/ FlushHandle(h) \/ DrainSettles(h)
      PROVE  Told'
  BY <1>3, ExplicitAppendTells, GoLiveTells, RouteLiveTells, TimerFiresTells, FlushCallTells, FlushHandleTells,
     DrainSettlesTells
<1>4. ASSUME NEW h \in Handles,
             \/ Begin(h) \/ AcquireLease(h) \/ LeaseRefused(h) \/ Check(h)
             \/ Truncate(h) \/ Rewrite(h) \/ Write(h) \/ Header(h) \/ RefuseExisting(h) \/ Fail(h)
             \/ AppendFails(h) \/ RollBack(h)
      PROVE  Told'
  BY <1>4, BeginTells, AcquireLeaseTells, CheckTells, AppendFailsTells, TruncateTells, RewriteTells, WriteTells, HeaderTells, FailTells
<1>5. ASSUME NEW h \in Handles, Close(h) \/ CloseLook(h) \/ CloseTail(h) \/ CloseRelease(h)
      PROVE  Told'
  BY <1>5, CloseTells, CloseLookTells, CloseEndTells
<1>6. CASE \E p \in Procs : Crash(p)
  BY <1>6, CrashTells
<1>7. CASE UNCHANGED vars
  <2>1. UNCHANGED <<file, at, state, buf, work, owner, flush, close, acked, stray>>
    BY <1>7 DEF vars
  <2>2. Grows /\ Shape'
    <3>1. nFull' = nFull
      BY <2>1 DEF nFull
    <3>2. nFull \in Nat /\ (Shape => Shape')
      BY <2>1, TypesAre DEF IInv, Types, TypeFile, Shape, nFull
    <3> QED
      BY <2>1, <3>1, <3>2 DEF Grows, Told
  <2>3. ASSUME NEW h \in Handles PROVE Tells(h)'
    <3>1. Tells(h) /\ Sorts(h) /\ Sorts(h)'
      BY Known
    <3> QED
      BY <2>1, <2>2, <3>1, TellsStays
  <2> QED
    BY <2>2, <2>3 DEF Told
<1> QED
  BY <1>1, <1>2, <1>3, <1>4, <1>5, <1>6, <1>7 DEF Next

\* The invariant of SessionHandlesProofs and Told, of every reachable state.
THEOREM StoredInductive == Spec => [](IInv /\ Told)
<1>1. Init => IInv /\ Told
  BY InitInvariant, InitTold
<1>2. IInv /\ Told /\ [Next]_vars => (IInv /\ Told)'
  BY StepInvariant, StepTold
<1> QED
  BY <1>1, <1>2, PTL DEF Spec

LEMMA Concatenated ==
    ASSUME NEW s \in Seq(Events)
    PROVE  s \o <<>> = s /\ <<>> \o s = s
OBVIOUS

\* Every event handed to an open handle is stored, being written, or in order
\* behind that, however its drains, appends and writes fail (storage.ts:
\* drainBuffered puts a failed batch back in front of what was routed since).
THEOREM NothingIsSkipped == Spec => []NothingSkipped
<1>1. IInv /\ Told => NothingSkipped
  <2> SUFFICES ASSUME IInv, Told, NEW h \in Handles, at[h].st = "open", owner[h].append # "failed"
               PROVE  Unstored(h) = Span(state[h].cursor + 1, owner[h].last)
    BY DEF NothingSkipped
  <2>1. Types /\ Sorts(h) /\ Safe(h) /\ Tells(h)
    BY TypesAre, SortsOf DEF IInv, Told, Ordered, Safe
  <2>2. /\ work[h].batch \in Seq(Events) /\ buf[h].events \in Seq(Events) /\ owner[h].suffix \in Seq(Events)
        /\ state[h].cursor \in Nat /\ nBatch(h) \in Nat /\ nEvents(h) \in Nat /\ nSuffix(h) \in Nat
    BY <2>1 DEF Sorts
  <2>3. Owes(h)
    BY <2>1 DEF Tells
  <2>4. CASE owner[h].append = "none"
    <3> DEFINE s == work[h].batch \o buf[h].events
    <3>1. Unstored(h) = s
      BY <2>2, <2>3, <2>4, Concatenated DEF Unstored, Owes
    <3>2. s \in Seq(Events) /\ Len(s) = nBatch(h) + nEvents(h)
      BY <2>2, Longer DEF nBatch, nEvents
    <3>3. Continues(s, state[h].cursor)
      BY <2>2, <2>3, <2>4, ContinuesJoin DEF Owes, nBatch
    <3>4. owner[h].last = state[h].cursor + Len(s)
      <4>1. owner[h].last = state[h].cursor + nBatch(h) + nEvents(h)
        BY <2>3, <2>4 DEF Owes
      <4>2. state[h].cursor + nBatch(h) + nEvents(h) = state[h].cursor + (nBatch(h) + nEvents(h))
        BY <2>2
      <4> QED
        BY <3>2, <4>1, <4>2
    <3> HIDE DEF s
    <3> QED
      BY <2>2, <3>1, <3>2, <3>3, <3>4, ContinuesSpan
  <2>5. CASE owner[h].append = "queued"
    <3>1. buf[h].events = <<>> /\ buf[h].drain # "queued"
      BY <2>3, <2>5 DEF Owes
    <3>2. work[h].batch # <<>> => work[h].batch = owner[h].suffix
      <4> SUFFICES ASSUME work[h].batch # <<>> PROVE work[h].batch = owner[h].suffix
        OBVIOUS
      <4>1. work[h].stage # "idle"
        BY <2>1 DEF Tells, Batched
      <4>2. work[h].chain # <<>>
        BY <2>1, <4>1 DEF Safe, Working
      <4>3. Head(work[h].chain) = "append"
        BY <2>1, <3>1, <4>1, <4>2, HeadIs DEF Tells, Batched, Ops
      <4> QED
        BY <2>1, <4>1, <4>3 DEF Tells, Batched
    <3>3. Unstored(h) = owner[h].suffix
      BY <2>2, <3>1, <3>2, Concatenated DEF Unstored
    <3>4. Continues(owner[h].suffix, state[h].cursor) /\ owner[h].last = state[h].cursor + Len(owner[h].suffix)
      BY <2>3, <2>5 DEF Owes, nSuffix
    <3> QED
      BY <2>2, <3>3, <3>4, ContinuesSpan
  <2>6. owner[h].append \in {"none", "queued", "failed"}
    BY <2>1 DEF Types, TypeOwner
  <2> QED
    BY <2>4, <2>5, <2>6
<1> QED
  BY <1>1, StoredInductive, PTL

\* Whatever a flush that succeeded could see through the drain it joined is in
\* the artifact, also when a stray drain follows; a flush that joins a drain at its
\* end sees only what is stored then (FlushCovers). So is whatever was routed
\* before a close that succeeded, unless a drain began behind it (CloseDrains).
\* Both hold across failures, truncations, crashes and later handles, with every
\* fault (storage.ts: drainLive, flush, doClose).
THEOREM PromisesKept == Spec => []PromisesStored
<1>1. Told => PromisesStored
  BY DEF Told, Tells, Flushed, Closed, PromisesStored, FlushCovers, CloseDrains, PastLastLook, nFull
<1> QED
  BY <1>1, StoredInductive, PTL

\* Only a write that succeeds is acknowledged, and it takes nothing back.
LEMMA AckedByWrite ==
    ASSUME [Next]_vars
    PROVE  acked' = acked \/ \E h \in Handles : Write(h)
<1>1. CASE UNCHANGED vars
  BY <1>1 DEF vars
<1>2. CASE Next
  <2> USE DEF handleVars
  <2>1. CASE \E h \in Handles, p \in Procs : CreateLookup(h, p) \/ OpenClaim(h, p)
    BY <2>1 DEF CreateLookup, OpenClaim
  <2>2. ASSUME NEW h \in Handles,
               \/ CreateRegister(h) \/ OpenLock(h) \/ OpenRead(h) \/ OpenAdopt(h) \/ OpenFails(h)
               \/ OpenReleases(h) \/ ReleaseLease(h)
        PROVE  acked' = acked
    BY <2>2 DEF CreateRegister, OpenLock, OpenRead, OpenAdopt, OpenFails, OpenReleases, ReleaseLease
  <2>3. ASSUME NEW h \in Handles,
               \/ \E n \in Events : ExplicitAppend(h, n)
               \/ GoLive(h) \/ RouteLive(h) \/ TimerFires(h)
               \/ \E kind \in {"session", "all"} : FlushCall(h, kind)
               \/ FlushHandle(h) \/ DrainSettles(h)
        PROVE  acked' = acked
    BY <2>3 DEF ExplicitAppend, GoLive, RouteLive, TimerFires, FlushCall, FlushHandle, DrainSettles
  <2>4. ASSUME NEW h \in Handles,
               \/ Begin(h) \/ AcquireLease(h) \/ LeaseRefused(h) \/ Check(h)
               \/ Truncate(h) \/ Rewrite(h) \/ Header(h) \/ RefuseExisting(h) \/ Fail(h)
               \/ AppendFails(h) \/ RollBack(h)
        PROVE  acked' = acked
    BY <2>4 DEF Begin, AcquireLease, LeaseRefused, Check, Truncate, Rewrite, Header, RefuseExisting, Fail,
                AppendFails, RollBack
  <2>5. ASSUME NEW h \in Handles, Close(h) \/ CloseLook(h) \/ CloseTail(h) \/ CloseRelease(h)
        PROVE  acked' = acked
    BY <2>5 DEF Close, CloseLook, CloseTail, CloseRelease
  <2>6. CASE \E p \in Procs : Crash(p)
    BY <2>6 DEF Crash
  <2> QED
    BY <1>2, <2>1, <2>2, <2>3, <2>4, <2>5, <2>6 DEF Next
<1> QED
  BY <1>1, <1>2

LEMMA StoredLength == IInv => Len(Stored) = nFull + Len(file.tail) /\ Len(file.tail) \in Nat /\ nFull \in Nat
<1> SUFFICES ASSUME IInv PROVE Len(Stored) = nFull + Len(file.tail) /\ Len(file.tail) \in Nat /\ nFull \in Nat
  OBVIOUS
<1>1. file.full \in Seq(Events) /\ file.tail \in Seq(Events)
  BY TypesAre DEF IInv, Types, TypeFile
<1>2. Len(file.full \o file.tail) = Len(file.full) + Len(file.tail)
  BY <1>1, Longer
<1> QED
  BY <1>1, <1>2 DEF Stored, nFull

LEMMA StoredLengthNext ==
    IInv' => (Len(Stored) = nFull + Len(file.tail) /\ Len(file.tail) \in Nat /\ nFull \in Nat)'
BY StoredLength, PTL

LEMMA WriteExtends ==
    ASSUME NEW h \in Handles, IInv, IInv', Told, Write(h)
    PROVE  Len(Stored) <= Len(Stored)' /\ acked <= acked'
<1>1. Types /\ Sorts(h) /\ Sorts(h)' /\ Tells(h) /\ Shape
  BY Known
<1>2. /\ file \in [made : BOOLEAN, full : Seq(Events), torn : BOOLEAN, tail : Seq(Events)]
      /\ work[h].batch \in Seq(Events)
  BY <1>1 DEF Types, TypeFile, TypeWork
<1>3. Len(Stored) <= Len(Stored)'
  <2>1. CASE state[h].made
    <3> DEFINE full == file.full
               tail == file.tail
               batch == work[h].batch
    <3>1. file'.full = full \o batch /\ file'.tail = tail
      BY <1>2, <2>1 DEF Write
    <3>2. full \in Seq(Events) /\ tail \in Seq(Events) /\ batch \in Seq(Events)
      BY <1>2
    <3>3. Stored = full \o tail /\ Stored' = (full \o batch) \o tail
      BY <3>1 DEF Stored
    <3> HIDE DEF full, tail, batch
    <3>4. Len(full \o tail) <= Len((full \o batch) \o tail)
      BY <3>2
    <3> QED
      BY <3>3, <3>4
  <2>2. CASE ~state[h].made
    <3>1. ~file.made
      BY <2>2 DEF Write
    <3>2. nFull = 0 /\ Len(file.tail) = 0
      BY <1>1, <3>1 DEF Shape, nFull
    <3>3. Len(Stored) = 0
      BY <3>2, StoredLength
    <3>4. Len(Stored)' \in Nat
      BY StoredLengthNext
    <3> QED
      BY <3>3, <3>4
  <2> QED
    BY <2>1, <2>2
<1>4. acked <= acked'
  <2>1. acked \in Nat
    BY <1>1 DEF Sorts
  <2>2. acked' = acked \/ acked' > acked
    BY DEF Write
  <2> QED
    BY <1>1, <2>1, <2>2 DEF Sorts
<1> QED
  BY <1>3, <1>4

\* The handles implement the promise of the seam: what was acknowledged stays,
\* whatever fails, is torn by a crash or is repaired (StoredLog).
THEOREM LogImplemented == Spec => StoredRefined
<1>1. Init => Log!Init
  BY DEF Init, Log!Init, Stored
<1>2. IInv /\ Told /\ (IInv /\ Told)' /\ [Next]_vars => [Log!Next]_(Log!vars)
  <2> SUFFICES ASSUME IInv, Told, IInv', Told', [Next]_vars PROVE [Log!Next]_(Log!vars)
    OBVIOUS
  <2>1. acked \in Nat /\ acked' \in Nat
    BY TypesAre, TypesAreNext DEF IInv, Types, TypeShared
  <2>2. Len(Stored) \in Nat /\ Len(Stored)' \in Nat /\ nFull' <= Len(Stored)' /\ nFull' \in Nat
    BY StoredLength, StoredLengthNext
  <2>3. acked' <= Len(Stored)'
    <3>1. acked' <= nFull'
      BY DEF Told, Shape
    <3> QED
      BY <2>1, <2>2, <3>1
  <2>4. CASE acked' = acked
    <3>1. CASE Len(Stored)' >= Len(Stored)
      BY <2>1, <2>3, <2>4, <3>1 DEF Log!Next, Log!Extend
    <3>2. CASE Len(Stored)' < Len(Stored)
      BY <2>3, <2>4, <3>2 DEF Log!Next, Log!Discard
    <3> QED
      BY <2>2, <3>1, <3>2
  <2>5. CASE \E h \in Handles : Write(h)
    <3>1. Len(Stored) <= Len(Stored)' /\ acked <= acked'
      BY <2>5, WriteExtends
    <3> QED
      BY <2>1, <2>2, <2>3, <3>1 DEF Log!Next, Log!Extend
  <2> QED
    BY <2>4, <2>5, AckedByWrite
<1> QED
  BY <1>1, <1>2, StoredInductive, PTL DEF Spec, StoredRefined, Log!Spec

-------------------------------------------------------------------------------
(* Nothing is stored twice                                                  *)

LEMMA ContinuesPart ==
    ASSUME NEW s \in Seq(Events), NEW t \in Seq(Events), NEW a \in Nat, Continues(s \o t, a)
    PROVE  Continues(s, a) /\ Continues(t, a + Len(s))
<1>1. Len(s) \in Nat /\ Len(t) \in Nat /\ Len(s \o t) = Len(s) + Len(t)
  OBVIOUS
<1>2. ASSUME NEW i \in 1 .. Len(s) PROVE s[i] = a + i
  <2>1. i \in 1 .. Len(s \o t) /\ (s \o t)[i] = s[i]
    BY <1>1
  <2> QED
    BY <2>1 DEF Continues
<1>3. ASSUME NEW i \in 1 .. Len(t) PROVE t[i] = a + Len(s) + i
  <2>1. Len(s) + i \in 1 .. Len(s \o t) /\ (s \o t)[Len(s) + i] = t[i]
    BY <1>1
  <2>2. (s \o t)[Len(s) + i] = a + (Len(s) + i)
    BY <2>1 DEF Continues
  <2> QED
    BY <1>1, <2>1, <2>2
<1> QED
  BY <1>2, <1>3, Zenon DEF Continues

LEMMA ContinuesHead ==
    ASSUME NEW s \in Seq(Events), NEW a \in Nat, Continues(s, a), NEW n \in 0 .. Len(s)
    PROVE  SubSeq(s, 1, n) \in Seq(Events) /\ Continues(SubSeq(s, 1, n), a)
<1>1. /\ SubSeq(s, 1, n) \in Seq(Events) /\ Len(SubSeq(s, 1, n)) = n
      /\ \A i \in 1 .. n : SubSeq(s, 1, n)[i] = s[i]
  OBVIOUS
<1>2. \A i \in 1 .. n : i \in 1 .. Len(s)
  OBVIOUS
<1> QED
  BY <1>1, <1>2 DEF Continues

\* A handle that has the lease knows the file: what is complete and what can be
\* recovered are the events up to its cursor.
Match(h) ==
    /\ Continues(file.full \o state[h].recovered, 0)
    /\ state[h].cursor = nFull + nRecovered(h)
    /\ IF state[h].torn THEN file.tail \in {<<>>, state[h].recovered} ELSE file.tail = <<>>

\* It has the lease since it has read the file, or before it writes.
Held(h) ==
    /\ at[h].st \in {"locked", "read"} => at[h].lease = "held"
    /\ state[h].made => at[h].lease # "none"
    /\ work[h].stage = "header" => ~state[h].made
    /\ work[h].stage = "lease" => at[h].lease = "none"

Leads(h) == Held(h) /\ (~stray /\ state[h].made /\ at[h].lease = "held" => Match(h))
Led == (~stray => Continues(Stored, 0)) /\ \A h \in Handles : Leads(h)

\* A step that touches neither the file nor what the handles know of it.
LEMMA StillLed ==
    ASSUME Led, UNCHANGED <<file, state, at>>, stray => stray', stray \in BOOLEAN, stray' \in BOOLEAN,
           \A g \in Handles : /\ work'[g].stage = "header" => work[g].stage = "header" \/ ~state[g].made
                              /\ work'[g].stage = "lease" => work[g].stage = "lease" \/ at[g].lease = "none"
    PROVE  Led'
<1>1. (~stray => Continues(Stored, 0))'
  BY DEF Led, Stored
<1>2. ASSUME NEW h \in Handles PROVE Leads(h)'
  <2>1. Leads(h)
    BY DEF Led
  <2>2. Held(h)'
    BY <2>1 DEF Leads, Held
  <2>3. Match(h) => Match(h)'
    BY DEF Match, nFull, nRecovered
  <2> QED
    BY <2>1, <2>2, <2>3 DEF Leads
<1> QED
  BY <1>1, <1>2 DEF Led

\* A step of h that leaves the other handles as they are.
Aside(h) ==
    \A g \in Handles \ {h} : at'[g] = at[g] /\ state'[g] = state[g] /\ work'[g] = work[g]

\* Only the holder of the lock changes the file.
LEMMA StepLed ==
    ASSUME NEW h \in Handles, IInv, IInv', Led, Aside(h), stray => stray', Leads(h)',
           (~stray => Continues(Stored, 0))',
           file' = file \/ (~stray => lock = h)
    PROVE  Led'
<1>1. stray \in BOOLEAN /\ stray' \in BOOLEAN
  BY TypesAre, TypesAreNext DEF IInv, Types, TypeShared
<1>2. ASSUME NEW g \in Handles, g # h PROVE Leads(g)'
  <2>1. Leads(g) /\ (at[g].lease = "held" => lock = g)
    BY DEF Led, IInv, Ordered, Leased
  <2>2. at'[g] = at[g] /\ state'[g] = state[g] /\ work'[g] = work[g]
    BY <1>2 DEF Aside
  <2>3. Held(g)'
    BY <2>1, <2>2 DEF Leads, Held
  <2>4. file' = file /\ Match(g) => Match(g)'
    BY <2>2 DEF Match, nFull, nRecovered
  <2> QED
    BY <1>1, <1>2, <2>1, <2>2, <2>3, <2>4 DEF Leads
<1> QED
  BY <1>2 DEF Led

\* What the events of h make of its chain and its buffer leaves its stage alone.
LEMMA RoutingLed ==
    ASSUME NEW h \in Handles, IInv, IInv', Led,
           \/ \E n \in Events : ExplicitAppend(h, n)
           \/ GoLive(h) \/ RouteLive(h) \/ TimerFires(h)
           \/ \E kind \in {"session", "all"} : FlushCall(h, kind)
           \/ FlushHandle(h) \/ DrainSettles(h)
           \/ Close(h) \/ CloseLook(h) \/ CloseTail(h)
    PROVE  Led'
<1>1. Types /\ stray \in BOOLEAN /\ stray' \in BOOLEAN
  BY TypesAre, TypesAreNext DEF IInv, Types, TypeShared
<1>2. UNCHANGED <<file, state, at>> /\ (stray => stray')
  <2>1. CASE TimerFires(h) \/ \E kind \in {"session", "all"} : FlushCall(h, kind)
    BY <2>1 DEF TimerFires, FlushCall
  <2>2. CASE (\E n \in Events : ExplicitAppend(h, n)) \/ GoLive(h) \/ RouteLive(h) \/ FlushHandle(h)
    <3>1. ASSUME NEW n \in Events, ExplicitAppend(h, n)
          PROVE  UNCHANGED <<file, state, at>> /\ stray' = stray
      BY <3>1 DEF ExplicitAppend
    <3>2. CASE GoLive(h) \/ RouteLive(h)
      BY <3>2 DEF GoLive, RouteLive
    <3>3. CASE FlushHandle(h)
      BY <3>3 DEF FlushHandle
    <3> QED
      BY <2>2, <3>1, <3>2, <3>3
  <2>3. CASE DrainSettles(h) \/ Close(h) \/ CloseLook(h) \/ CloseTail(h)
    BY <2>3 DEF DrainSettles, Close, CloseLook, CloseTail
  <2> QED
    BY <2>1, <2>2, <2>3
<1>3. \A g \in Handles : work'[g].stage = work[g].stage
  <2>1. CASE TimerFires(h)
    BY <1>1, <2>1, TimerDrains DEF Drains
  <2>2. CASE DrainLive(h)
    BY <1>1, <2>2, DrainLiveDrains DEF Drains
  <2>3. ASSUME NEW op, work' = [work EXCEPT ![h].chain = Append(@, op)]
        PROVE  \A g \in Handles : work'[g].stage = work[g].stage
    BY <1>1, <2>3 DEF Types, TypeWork
  <2>4. CASE work' = work
    BY <2>4
  <2> QED
    BY <2>1, <2>2, <2>3, <2>4
       DEF ExplicitAppend, FlushHandle, GoLive, RouteLive, FlushCall, DrainSettles, Close, CloseLook, CloseTail
<1> QED
  BY <1>1, <1>2, <1>3, StillLed

\* An operation that begins, is checked, or settles without a write.
LEMMA ChainLed ==
    ASSUME NEW h \in Handles, IInv, IInv', Told, Led, UNCHANGED <<file, state, at>>,
           Begin(h) \/ LeaseRefused(h) \/ Check(h) \/ RefuseExisting(h) \/ Fail(h) \/ AppendFails(h) \/ RollBack(h)
    PROVE  Led'
<1>1. Types /\ stray' = stray /\ stray \in BOOLEAN /\ stray' \in BOOLEAN
  BY TypesAre, TypesAreNext DEF IInv, Types, TypeShared, Begin, LeaseRefused, Check, RefuseExisting, Fail, AppendFails, RollBack
<1>2. ASSUME NEW g \in Handles
      PROVE  /\ work'[g].stage = "header" => work[g].stage = "header" \/ ~state[g].made
             /\ work'[g].stage = "lease" => work[g].stage = "lease" \/ at[g].lease = "none"
  <2>1. ASSUME NEW ok \in BOOLEAN, Settle(h, ok)
        PROVE  work'[g] = work[g] \/ work'[g].stage = "idle"
    BY <1>1, <2>1, SettleSettles DEF Settled
  <2>2. ASSUME NEW s \in Stages,
                      \/ \E b \in Seq(Events) : work' = [work EXCEPT ![h].batch = b, ![h].stage = s]
                      \/ work' = [work EXCEPT ![h].stage = s]
        PROVE  work'[g] = work[g] \/ (g = h /\ work'[g].stage = s)
    <3>1. CASE work' = [work EXCEPT ![h].stage = s]
      BY <1>1, <3>1 DEF Types, TypeWork
    <3>2. ASSUME NEW b \in Seq(Events), work' = [work EXCEPT ![h].batch = b, ![h].stage = s]
          PROVE  work'[g] = work[g] \/ (g = h /\ work'[g].stage = s)
      BY <1>1, <3>2 DEF Types, TypeWork
    <3> QED
      BY <2>2, <3>1, <3>2
  <2>3. CASE Begin(h)
    <3> DEFINE op == Head(work[h].chain)
    <3>1. /\ Lease(h, op) = "lease" => at[h].lease = "none"
          /\ op # "flush" => Lease(h, op) # "header"
          /\ Lease(h, op) \in Stages
      BY DEF Lease, AfterLease, Stages, Writes
    <3>2. \/ \E ok \in BOOLEAN : Settle(h, ok)
          \/ /\ \/ \E b \in Seq(Events) : work' = [work EXCEPT ![h].batch = b, ![h].stage = Lease(h, op)]
                \/ work' = [work EXCEPT ![h].stage = Lease(h, op)]
             /\ op # "flush" \/ ~state[h].made
      <4>1. buf[h].events \in Seq(Events) /\ owner[h].suffix \in Seq(Events)
        BY <1>1 DEF Types, TypeBuf, TypeOwner
      <4>2. "drain" # "flush" /\ "append" # "flush"
        OBVIOUS
      <4> QED
        BY <2>3, <4>1, <4>2, Zenon DEF Begin
    <3> QED
      BY <2>1, <2>2, <3>1, <3>2
  <2>4. CASE Check(h)
    <3>1. FirstWrite(h) \in Stages \ {"header", "lease"}
      BY DEF FirstWrite, Stages, Writes
    <3>2. Settle(h, FALSE) \/ work' = [work EXCEPT ![h].stage = FirstWrite(h)]
      BY <2>4 DEF Check
    <3> QED
      BY <2>1, <2>2, <3>1, <3>2
  <2>5. CASE LeaseRefused(h) \/ RefuseExisting(h) \/ Fail(h) \/ RollBack(h)
    BY <2>1, <2>5 DEF LeaseRefused, RefuseExisting, Fail, RollBack
  <2>6. CASE AppendFails(h)
    <3>1. "rollback" \in Stages
      BY DEF Stages, Writes
    <3> QED
      BY <2>2, <2>6, <3>1 DEF AppendFails
  <2> QED
    BY <2>3, <2>4, <2>5, <2>6
<1> QED
  BY <1>1, <1>2, StillLed

\* A handle that changes the file has the lease.
LEMMA WriterLeads ==
    ASSUME NEW h \in Handles, IInv, Led, ~stray, Exists(h), work[h].stage \in Writes
    PROVE  at[h].lease = "held" /\ lock = h /\ Held(h) /\ (state[h].made => Match(h))
<1>1. Types /\ Safe(h) /\ Leads(h)
  BY TypesAre DEF IInv, Ordered, Safe, Led
<1>2. work[h].chain # <<>> /\ at[h].lease # "none"
  BY <1>1 DEF Safe, Working, Leased, Writes
<1>3. at[h].lease # "released"
  <2>1. SUFFICES ASSUME at[h].lease = "released" PROVE FALSE
    OBVIOUS
  <2>2. close[h].st \in {"release", "done"}
    BY <1>1, <2>1 DEF Safe, Leased, Releasing, Waited
  <2>3. close[h].wait = 0 /\ Len(work[h].chain) = 0
    BY <1>1, <2>2 DEF Safe, Waited, PastLastLook
  <2> QED
    BY <1>1, <1>2, <2>3 DEF Types, TypeWork
<1> QED
  BY <1>1, <1>2, <1>3 DEF Safe, Leased, Leads, Types, TypeAt

\* The batch of a running operation comes after the cursor.
LEMMA BatchFollows ==
    ASSUME NEW h \in Handles, Types, Safe(h), Tells(h), Exists(h), work[h].stage # "idle"
    PROVE  Continues(work[h].batch, state[h].cursor)
<1>1. work[h].chain # <<>> /\ Owes(h) /\ Batched(h)
  BY DEF Safe, Working, Tells
<1>2. CASE Head(work[h].chain) = "drain"
  <2>1. buf[h].drain = "queued"
    BY <1>1, <1>2, HeadIs
  <2> QED
    BY <1>1, <2>1 DEF Owes
<1>3. CASE Head(work[h].chain) = "append"
  <2>1. owner[h].append = "queued"
    BY <1>1, <1>3, HeadIs
  <2> QED
    BY <1>1, <1>3, <2>1 DEF Owes, Batched
<1>4. CASE Head(work[h].chain) = "flush"
  BY <1>1, <1>4, EmptyContinues DEF Batched
<1> QED
  BY <1>1, <1>2, <1>3, <1>4, HeadIs DEF Ops

\* The first bytes of a log are its first events.
LEMMA FirstBytes ==
    ASSUME NEW h \in Handles, Types, Safe(h), Tells(h), Exists(h), work[h].stage # "idle", ~state[h].made
    PROVE  Bytes(h) = work[h].batch /\ Continues(Bytes(h), 0)
<1>1. state[h].cursor = 0 /\ state[h].recovered = <<>> /\ work[h].stage # "rewrite"
  BY DEF Tells, Repaired
<1> QED
  BY <1>1, BatchFollows DEF Bytes

\* Those of a handle that knows the file come after what is stored.
LEMMA NextBytes ==
    ASSUME NEW h \in Handles, Types, Sorts(h), Safe(h), Tells(h), Exists(h), state[h].made, Match(h),
           work[h].stage \in {"rewrite", "write", "rollback"}
    PROVE  /\ Continues(file.full, 0) /\ Continues(Bytes(h), nFull) /\ Bytes(h) \in Seq(Events)
           /\ ~state[h].torn /\ file.tail = <<>>
           /\ work[h].stage = "write" => state[h].recovered = <<>> /\ state[h].cursor = nFull
<1>1. file.full \in Seq(Events) /\ state[h].recovered \in Seq(Events) /\ nFull \in Nat
  BY DEF Sorts
<1>2. Continues(file.full, 0) /\ Continues(state[h].recovered, nFull)
  <2>1. Continues(file.full \o state[h].recovered, 0)
    BY DEF Match
  <2>2. Continues(file.full, 0) /\ Continues(state[h].recovered, 0 + Len(file.full))
    BY <1>1, <2>1, ContinuesPart
  <2>3. 0 + Len(file.full) = nFull
    BY <1>1 DEF nFull
  <2> QED
    BY <2>2, <2>3
<1>3. ~state[h].torn /\ file.tail = <<>>
  BY DEF Tells, Repaired, Match
<1>4. CASE state[h].recovered # <<>>
  BY <1>1, <1>2, <1>3, <1>4 DEF Tells, Repaired, Bytes
<1>5. CASE state[h].recovered = <<>>
  <2>1. state[h].recovered = <<>> /\ nRecovered(h) = 0
    BY <1>5 DEF nRecovered
  <2>2. state[h].cursor = nFull
    BY <1>1, <2>1 DEF Match
  <2> QED
    BY <1>2, <1>3, <1>5, <2>1, <2>2, BytesType, BatchFollows DEF Bytes
<1> QED
  BY <1>4, <1>5

LEMMA OpeningLed ==
    ASSUME NEW h \in Handles, IInv, IInv', Told, Led, Opening(h)
    PROVE  Led'
<1> USE DEF handleVars, tracker
<1>1. Types /\ Types' /\ Sorts(h) /\ Sorts(h)' /\ Safe(h) /\ Tells(h) /\ Shape
  BY Known
<1>2. UNCHANGED <<file, work, stray>> /\ ~Exists(h)
  BY DEF Opening, CreateRegister, OpenLock, OpenRead, OpenAdopt, OpenFails, OpenReleases, CreateLookup, OpenClaim
<1>3. Aside(h)
  BY <1>1, <1>2 DEF Aside, Opening, CreateRegister, OpenLock, OpenRead, OpenAdopt, OpenFails, OpenReleases, CreateLookup, OpenClaim,
        Types, TypeAt, TypeState
<1>4. work[h].stage = "idle" /\ Leads(h)
  BY <1>1, <1>2, Unopened DEF Led
<1>5. (~stray => Continues(Stored, 0))'
  BY <1>2 DEF Led, Stored
<1>6. CASE OpenRead(h)
  <2>1. /\ state'[h].made /\ state'[h].cursor = Len(Stored) /\ state'[h].recovered = file.tail
        /\ state'[h].torn = file.torn
    BY <1>1, <1>6 DEF OpenRead, Types, TypeState
  <2>2. at'[h].st = "read" /\ at'[h].lease = "held"
    BY <1>1, <1>4, <1>6 DEF OpenRead, Types, TypeAt, Leads, Held
  <2>3. file.full \o file.tail = Stored /\ nFull' = nFull /\ nRecovered(h)' = Len(file.tail)
    BY <1>2, <2>1 DEF Stored, nFull, nRecovered
  <2>4. Len(Stored) = nFull + Len(file.tail)
    BY StoredLength
  <2>5. stray = FALSE => Match(h)'
    BY <1>1, <1>2, <2>1, <2>3, <2>4 DEF Match, Led, Shape
  <2> QED
    BY <1>1, <1>2, <1>3, <1>4, <1>5, <2>2, <2>5, StepLed DEF Leads, Held
<1>7. CASE ~OpenRead(h)
  <2>1. state' = state
    BY <1>7 DEF Opening, CreateRegister, OpenLock, OpenAdopt, OpenFails, OpenReleases, CreateLookup, OpenClaim
  <2>2. Match(h) => Match(h)'
    BY <1>2, <2>1 DEF Match, nFull, nRecovered
  <2>3. CASE OpenLock(h)
    <3>1. ~state[h].made /\ at'[h].lease = "held"
      BY <1>1, <1>2, <2>3 DEF OpenLock, Types, TypeAt, Tells, Fresh, NoState
    <3> QED
      BY <1>2, <1>3, <1>4, <1>5, <2>1, <3>1, StepLed DEF Leads, Held
  <2>4. CASE OpenReleases(h)
    <3>1. at'[h].st = "gone" /\ at'[h].lease = "released"
      BY <1>1, <2>4 DEF OpenReleases, Types, TypeAt
    <3> QED
      BY <1>2, <1>3, <1>4, <1>5, <2>1, <3>1, StepLed DEF Leads, Held
  <2>5. CASE \/ CreateRegister(h) \/ OpenAdopt(h) \/ OpenFails(h)
             \/ \E p \in Procs : CreateLookup(h, p) \/ OpenClaim(h, p)
    <3>1. at'[h].st \notin {"locked", "read"} /\ at'[h].lease = at[h].lease
      BY <1>1, <2>5 DEF CreateRegister, OpenAdopt, OpenFails, CreateLookup, OpenClaim, Types, TypeAt
    <3> QED
      BY <1>2, <1>3, <1>4, <1>5, <2>1, <2>2, <3>1, StepLed DEF Leads, Held
  <2> QED
    BY <1>7, <2>3, <2>4, <2>5 DEF Opening
<1> QED
  BY <1>6, <1>7

\* The lease is taken before anything is known of the file, and given back.
LEMMA LeaseLed ==
    ASSUME NEW h \in Handles, IInv, IInv', Told, Led, AcquireLease(h) \/ ReleaseLease(h) \/ CloseRelease(h)
    PROVE  Led'
<1> USE DEF tracker
<1>1. Types /\ Types' /\ Sorts(h) /\ Sorts(h)' /\ Safe(h) /\ Tells(h) /\ Shape /\ Leads(h)
  BY Known DEF Led
<1>2. UNCHANGED <<file, state, stray>>
  BY DEF AcquireLease, ReleaseLease, CloseRelease
<1>3. (~stray => Continues(Stored, 0))'
  BY <1>2 DEF Led, Stored
<1>4. CASE AcquireLease(h)
  <2>1. work[h].stage = "lease" /\ at[h].lease = "none" /\ ~state[h].made
    BY <1>1, <1>4 DEF AcquireLease, Running, Leads, Held
  <2>2. /\ at'[h].st = at[h].st /\ at'[h].lease = "held"
        /\ \A g \in Handles \ {h} : at'[g] = at[g]
    BY <1>1, <1>4 DEF AcquireLease, Types, TypeAt
  <2>3. /\ work'[h].stage = AfterLease(Head(work[h].chain))
        /\ \A g \in Handles \ {h} : work'[g] = work[g]
    BY <1>1, <1>4 DEF AcquireLease, Types, TypeWork
  <2>4. work'[h].stage # "lease"
    BY <2>3 DEF AfterLease
  <2>5. Aside(h) /\ Leads(h)'
    BY <1>1, <1>2, <2>1, <2>2, <2>3, <2>4 DEF Aside, Leads, Held
  <2> QED
    BY <1>2, <1>3, <2>5, StepLed
<1>5. CASE CloseRelease(h)
  <2>1. /\ at'[h].st = "closed" /\ at'[h].lease = at[h].lease /\ at[h].lease # "held"
        /\ \A g \in Handles \ {h} : at'[g] = at[g]
    BY <1>1, <1>5 DEF CloseRelease, Types, TypeAt
  <2>2. work' = work
    BY <1>5 DEF CloseRelease
  <2>3. Aside(h) /\ Leads(h)'
    BY <1>1, <1>2, <2>1, <2>2 DEF Aside, Leads, Held
  <2> QED
    BY <1>2, <1>3, <2>3, StepLed
<1>6. CASE ReleaseLease(h)
  <2>1. /\ at'[h].st = at[h].st /\ at[h].lease = "held" /\ at'[h].lease = "released"
        /\ at[h].st \notin {"locked", "read"}
        /\ \A g \in Handles \ {h} : at'[g] = at[g]
    BY <1>1, <1>6 DEF ReleaseLease, Releasing, Types, TypeAt
  <2>2. work' = work
    BY <1>6 DEF ReleaseLease
  <2>3. Aside(h) /\ Leads(h)'
    BY <1>1, <1>2, <2>1, <2>2 DEF Aside, Leads, Held
  <2> QED
    BY <1>2, <1>3, <2>3, StepLed
<1> QED
  BY <1>4, <1>5, <1>6

LEMMA TruncateLed ==
    ASSUME NEW h \in Handles, IInv, IInv', Told, Led, Truncate(h)
    PROVE  Led'
<1> USE DEF tracker
<1>1. Types /\ Types' /\ Sorts(h) /\ Sorts(h)' /\ Safe(h) /\ Tells(h) /\ Shape /\ Leads(h)
  BY Known DEF Led
<1>2. /\ UNCHANGED <<at, stray>> /\ Exists(h) /\ work[h].stage = "truncate"
      /\ file' = [file EXCEPT !.torn = FALSE, !.tail = <<>>]
  BY DEF Truncate, Running
<1>3. /\ state'[h].cursor = state[h].cursor /\ state'[h].made = state[h].made /\ ~state'[h].torn
      /\ state'[h].recovered = state[h].recovered
      /\ \A g \in Handles \ {h} : state'[g] = state[g]
  BY <1>1 DEF Truncate, Types, TypeState
<1>4. /\ work'[h].stage = IF state[h].recovered # <<>> THEN "rewrite" ELSE "write"
      /\ \A g \in Handles \ {h} : work'[g] = work[g]
  BY <1>1 DEF Truncate, Types, TypeWork
<1>5. file'.full = file.full /\ file'.tail = <<>> /\ nFull' = nFull /\ nRecovered(h)' = nRecovered(h)
  BY <1>1, <1>2, <1>3 DEF nFull, nRecovered, Types, TypeFile
<1>6. Aside(h) /\ Held(h)'
  BY <1>1, <1>2, <1>3, <1>4 DEF Aside, Leads, Held
<1>7. ASSUME ~stray PROVE lock = h /\ Match(h)' /\ Continues(Stored, 0)'
  <2>1. lock = h /\ Match(h)
    BY <1>1, <1>2, <1>7, WriterLeads DEF Writes, Tells, Repaired
  <2>2. Match(h)'
    BY <1>3, <1>5, <2>1 DEF Match
  <2>3. Stored' = file.full
    BY <1>1, <1>5, Concatenated DEF Stored, Sorts
  <2>4. Continues(file.full, 0)
    BY <1>1, <2>1, ContinuesPart DEF Match, Sorts
  <2> QED
    BY <2>1, <2>2, <2>3, <2>4 DEF Continues
<1> QED
  BY <1>1, <1>2, <1>6, <1>7, StepLed DEF Leads

LEMMA RewriteLed ==
    ASSUME NEW h \in Handles, IInv, IInv', Told, Led, Rewrite(h)
    PROVE  Led'
<1> USE DEF tracker
<1>1. Types /\ Types' /\ Sorts(h) /\ Sorts(h)' /\ Safe(h) /\ Tells(h) /\ Shape /\ Leads(h)
  BY Known DEF Led
<1>2. /\ UNCHANGED <<at, stray>> /\ Exists(h) /\ work[h].stage = "rewrite"
      /\ file' = [file EXCEPT !.full = @ \o state[h].recovered]
  BY DEF Rewrite, Running
<1>3. /\ state'[h].cursor = state[h].cursor /\ state'[h].made = state[h].made /\ state'[h].torn = state[h].torn
      /\ state'[h].recovered = <<>>
      /\ \A g \in Handles \ {h} : state'[g] = state[g]
  BY <1>1 DEF Rewrite, Types, TypeState
<1>4. work'[h].stage = "write" /\ \A g \in Handles \ {h} : work'[g] = work[g]
  BY <1>1 DEF Rewrite, Types, TypeWork
<1>5. /\ file'.full = file.full \o state[h].recovered /\ file'.tail = file.tail
      /\ nFull' = nFull + nRecovered(h) /\ nRecovered(h)' = 0
  <2>1. file'.full = file.full \o state[h].recovered /\ file'.tail = file.tail
    BY <1>1, <1>2 DEF Types, TypeFile
  <2>2. Len(file.full \o state[h].recovered) = Len(file.full) + Len(state[h].recovered)
    BY <1>1, Longer DEF Sorts
  <2> QED
    BY <1>3, <2>1, <2>2 DEF nFull, nRecovered
<1>6. Aside(h) /\ Held(h)'
  BY <1>1, <1>2, <1>3, <1>4 DEF Aside, Leads, Held
<1>7. ASSUME ~stray PROVE lock = h /\ Match(h)' /\ Continues(Stored, 0)'
  <2>1. lock = h /\ Match(h) /\ state[h].made
    BY <1>1, <1>2, <1>7, WriterLeads DEF Writes, Tells, Repaired
  <2>2. ~state[h].torn /\ file.tail = <<>>
    BY <1>1, <1>2, <2>1, NextBytes
  <2>3. file'.full \o <<>> = file'.full /\ Stored' = file'.full
    BY <1>1, <1>5, <2>2, Concatenated DEF Stored, Sorts
  <2>4. Continues(file'.full, 0) /\ state[h].cursor = nFull + nRecovered(h)
    BY <1>5, <2>1 DEF Match
  <2>5. state'[h].cursor = nFull' + nRecovered(h)'
    BY <1>1, <1>3, <1>5, <2>4 DEF Sorts
  <2>6. Match(h)'
    BY <1>3, <1>5, <2>2, <2>3, <2>4, <2>5 DEF Match
  <2> QED
    BY <2>1, <2>3, <2>4, <2>6 DEF Continues
<1> QED
  BY <1>1, <1>2, <1>6, <1>7, StepLed DEF Leads

LEMMA WriteLed ==
    ASSUME NEW h \in Handles, IInv, IInv', Told, Led, Write(h)
    PROVE  Led'
<1> USE DEF tracker
<1>1. Types /\ Types' /\ Sorts(h) /\ Sorts(h)' /\ Safe(h) /\ Tells(h) /\ Shape /\ Leads(h)
  BY Known DEF Led
<1>2. /\ UNCHANGED <<at, stray>> /\ Exists(h) /\ work[h].stage = "write" /\ Settle(h, TRUE)
  BY DEF Write, Running
<1>3. /\ state'[h].cursor = state[h].cursor + nBatch(h) /\ state'[h].made = TRUE
      /\ state'[h].torn = state[h].torn /\ state'[h].recovered = state[h].recovered
      /\ \A g \in Handles \ {h} : state'[g] = state[g]
  BY <1>1 DEF Write, Types, TypeState, nBatch
<1>4. work'[h].stage = "idle" /\ \A g \in Handles \ {h} : work'[g] = work[g]
  BY <1>1, <1>2, SettleSettles DEF Settled
<1>5. ~state[h].torn /\ state[h].recovered = <<>> /\ nRecovered(h)' = 0 /\ Bytes(h) = work[h].batch
  BY <1>1, <1>2, <1>3 DEF Tells, Repaired, nRecovered, Bytes
<1>6. at[h].lease # "none"
  BY <1>1, <1>2 DEF Safe, Leased, Writes
<1>7. Aside(h) /\ Held(h)'
  BY <1>1, <1>2, <1>3, <1>4, <1>6 DEF Aside, Leads, Held
<1>8. ASSUME ~stray PROVE lock = h /\ Match(h)' /\ Continues(Stored, 0)'
  <2>1. lock = h /\ (state[h].made => Match(h))
    BY <1>1, <1>2, <1>8, WriterLeads DEF Writes
  <2>2. Continues(file'.full, 0) /\ file'.tail = <<>> /\ state'[h].cursor = nFull'
    <3>1. CASE state[h].made
      <4>1. /\ Continues(file.full, 0) /\ Continues(work[h].batch, nFull) /\ file.tail = <<>>
            /\ state[h].cursor = nFull
        BY <1>1, <1>2, <1>5, <2>1, <3>1, NextBytes
      <4>2. file'.full = file.full \o work[h].batch /\ file'.tail = file.tail
        BY <1>1, <3>1 DEF Write, Types, TypeFile
      <4>3. Continues(file.full \o work[h].batch, 0)
        <5>1. nFull = 0 + Len(file.full)
          BY <1>1 DEF nFull, Sorts
        <5>2. file.full \in Seq(Events) /\ work[h].batch \in Seq(Events)
          BY <1>1 DEF Sorts
        <5>3. Continues(file.full, 0) /\ Continues(work[h].batch, 0 + Len(file.full)) /\ 0 \in Nat
          BY <4>1, <5>1
        <5> QED
          BY <5>2, <5>3, ContinuesJoin
      <4>4. Len(file.full \o work[h].batch) = Len(file.full) + Len(work[h].batch)
        BY <1>1, Longer DEF Sorts
      <4> QED
        BY <1>3, <4>1, <4>2, <4>3, <4>4 DEF nFull, nBatch
    <3>2. CASE ~state[h].made
      <4>1. file'.full = work[h].batch /\ file'.tail = <<>>
        BY <3>2 DEF Write, Published
      <4>2. Continues(work[h].batch, 0) /\ state[h].cursor = 0
        BY <1>1, <1>2, <1>5, <3>2, FirstBytes DEF Tells, Repaired
      <4>3. state'[h].cursor = nBatch(h)
        BY <1>1, <1>3, <4>2 DEF Sorts
      <4> QED
        BY <4>1, <4>2, <4>3 DEF nFull, nBatch
    <3> QED
      BY <3>1, <3>2
  <2>3. file'.full \o <<>> = file'.full /\ Stored' = file'.full
    BY <1>1, <2>2, Concatenated DEF Stored, Sorts
  <2>4. state'[h].cursor = nFull' + nRecovered(h)'
    <3>1. nFull' \in Nat
      BY <1>1 DEF Sorts
    <3>2. \A n \in Nat : n = n + 0
      OBVIOUS
    <3>3. nRecovered(h)' = 0 /\ state'[h].cursor = nFull'
      BY <1>5, <2>2
    <3> QED
      BY <3>1, <3>2, <3>3, Zenon
  <2>5. Match(h)'
    BY <1>3, <1>5, <2>2, <2>3, <2>4 DEF Match
  <2> QED
    BY <2>1, <2>2, <2>3, <2>5 DEF Continues
<1> QED
  BY <1>2, <1>7, <1>8, StepLed DEF Leads

LEMMA HeaderLed ==
    ASSUME NEW h \in Handles, IInv, IInv', Told, Led, Header(h)
    PROVE  Led'
<1> USE DEF tracker
<1>1. Types /\ Types' /\ Sorts(h) /\ Sorts(h)' /\ Safe(h) /\ Tells(h) /\ Shape /\ Leads(h)
  BY Known DEF Led
<1>2. /\ UNCHANGED <<at, stray>> /\ Exists(h) /\ work[h].stage = "header" /\ Settle(h, TRUE)
      /\ file' = Published(<<>>)
  BY DEF Header, Running
<1>3. /\ state'[h].cursor = state[h].cursor /\ state'[h].made = TRUE
      /\ state'[h].torn = state[h].torn /\ state'[h].recovered = state[h].recovered
      /\ \A g \in Handles \ {h} : state'[g] = state[g]
  BY <1>1 DEF Header, Types, TypeState
<1>4. work'[h].stage = "idle" /\ \A g \in Handles \ {h} : work'[g] = work[g]
  BY <1>1, <1>2, SettleSettles DEF Settled
<1>5. at[h].lease # "none" /\ ~state[h].made
  BY <1>1, <1>2 DEF Safe, Leased, Writes, Leads, Held
<1>6. state[h].cursor = 0 /\ ~state[h].torn /\ state[h].recovered = <<>>
  BY <1>1, <1>5 DEF Tells, Repaired
<1>7. Aside(h) /\ Held(h)'
  BY <1>1, <1>2, <1>3, <1>4, <1>5 DEF Aside, Leads, Held
<1>8. file'.full = <<>> /\ file'.tail = <<>> /\ nFull' = 0 /\ nRecovered(h)' = 0
  BY <1>2, <1>3, <1>6 DEF Published, nFull, nRecovered
<1>9. Continues(Stored, 0)' /\ Match(h)'
  <2>1. <<>> \o <<>> = <<>>
    OBVIOUS
  <2>2. Continues(<<>>, 0) /\ 0 = 0 + 0
    BY EmptyContinues
  <2> QED
    BY <1>3, <1>6, <1>8, <2>1, <2>2 DEF Match, Stored, Continues
<1>10. ~stray => lock = h
  BY <1>1, <1>2, WriterLeads DEF Writes
<1> QED
  BY <1>2, <1>7, <1>9, <1>10, StepLed DEF Leads

\* A write that fails leaves the file as it was, cuts it, or links the log of a
\* handle that then refuses to write.
LEMMA FailLed ==
    ASSUME NEW h \in Handles, IInv, IInv', Told, Led, Fail(h), Faults \subseteq {"write", "sync", "release"}
    PROVE  Led'
<1> USE DEF tracker
<1>1. Types /\ Types' /\ Sorts(h) /\ Sorts(h)' /\ Safe(h) /\ Tells(h) /\ Shape /\ Leads(h)
  BY Known DEF Led
<1>2. /\ UNCHANGED <<at, state, stray>> /\ Exists(h) /\ Settle(h, FALSE) /\ work[h].stage # "idle"
  BY DEF Fail, Running
<1>3. \/ file' = file
      \/ /\ work[h].stage \in Writes
         /\ \/ work[h].stage = "truncate" /\ file' = [file EXCEPT !.torn = FALSE, !.tail = <<>>]
            \/ ~state[h].made /\ file' = Published(Bytes(h))
  <2>1. file' = file \/ (work[h].stage \in Writes /\ file' \in Outcome(h))
    BY DEF Fail, Running, Writes
  <2>2. Faults \cap {"close"} = {}
    OBVIOUS
  <2> QED
    BY <2>1, <2>2 DEF Outcome
<1>4. work'[h].stage = "idle" /\ \A g \in Handles \ {h} : work'[g] = work[g]
  BY <1>1, <1>2, SettleSettles DEF Settled
<1>5. CASE file' = file
  BY <1>2, <1>5, ChainLed
<1>6. CASE file' # file
  <2>1. Aside(h) /\ Held(h)'
    BY <1>1, <1>2, <1>4 DEF Aside, Leads, Held
  <2>2. ASSUME ~stray
        PROVE  lock = h /\ (state[h].made => Match(h)') /\ Continues(Stored, 0)'
    <3>1. lock = h /\ (state[h].made => Match(h))
      BY <1>1, <1>2, <1>3, <1>6, <2>2, WriterLeads
    <3>2. CASE work[h].stage = "truncate" /\ file' = [file EXCEPT !.torn = FALSE, !.tail = <<>>]
      <4>1. /\ file'.full = file.full /\ file'.tail = <<>> /\ nFull' = nFull /\ nRecovered(h)' = nRecovered(h)
        BY <1>1, <1>2, <3>2 DEF nFull, nRecovered, Types, TypeFile
      <4>2. Match(h) /\ Stored' = file.full
        BY <1>1, <3>1, <3>2, <4>1, Concatenated DEF Tells, Repaired, Stored, Sorts
      <4>3. Match(h)'
        BY <1>2, <4>1, <4>2 DEF Match
      <4>4. Continues(file.full, 0)
        BY <1>1, <4>2, ContinuesPart DEF Match, Sorts
      <4> QED
        BY <3>1, <4>2, <4>3, <4>4 DEF Continues
    <3>3. CASE ~state[h].made /\ file' = Published(Bytes(h))
      <4>1. file'.full = Bytes(h) /\ file'.tail = <<>>
        BY <3>3 DEF Published
      <4>2. Stored' = Bytes(h)
        BY <1>1, <4>1, BytesType, Concatenated DEF Stored
      <4>3. Continues(Bytes(h), 0)
        BY <1>1, <1>2, <3>3, FirstBytes
      <4> QED
        BY <3>1, <3>3, <4>2, <4>3 DEF Continues
    <3> QED
      BY <1>3, <1>6, <3>2, <3>3
  <2> QED
    BY <1>2, <2>1, <2>2, StepLed DEF Leads
<1> QED
  BY <1>5, <1>6

\* What a crash leaves of a write is complete, or a torn tail that comes next.
LEMMA InterruptedFollows ==
    ASSUME NEW h \in Handles, IInv, IInv', Told, Led, ~stray, Exists(h), work[h].stage \in Writes,
           file' \in Interrupted(h)
    PROVE  Continues(Stored, 0)'
<1>1. Types /\ Types' /\ Sorts(h) /\ Sorts(h)' /\ Safe(h) /\ Tells(h) /\ Shape
  BY Known
<1>2. Held(h) /\ (state[h].made => Match(h)) /\ work[h].stage # "idle"
  BY WriterLeads DEF Writes
<1>3. Bytes(h) \in Seq(Events) /\ file.full \in Seq(Events) /\ nFull \in Nat /\ nFull = Len(file.full)
  BY <1>1, BytesType DEF Sorts, nFull
<1>4. CASE work[h].stage = "truncate"
  <2>1. file'.full = file.full /\ file'.tail = <<>>
    BY <1>1, <1>4 DEF Interrupted, Types, TypeFile
  <2>2. Match(h) /\ Stored' = file.full
    BY <1>1, <1>2, <1>3, <1>4, <2>1, Concatenated DEF Tells, Repaired, Stored
  <2>3. Continues(file.full, 0)
    BY <1>1, <2>2, ContinuesPart DEF Match, Sorts
  <2> QED
    BY <2>2, <2>3 DEF Continues
<1>5. CASE work[h].stage # "truncate" /\ ~state[h].made
  <2>1. file'.full = Bytes(h) /\ file'.tail = <<>>
    BY <1>5 DEF Interrupted, Published
  <2>2. Stored' = Bytes(h)
    BY <1>3, <2>1, Concatenated DEF Stored
  <2>3. Continues(Bytes(h), 0)
    BY <1>1, <1>2, <1>5, FirstBytes
  <2> QED
    BY <2>2, <2>3 DEF Continues
<1>6. CASE work[h].stage # "truncate" /\ state[h].made
  <2>1. /\ Continues(file.full, 0) /\ Continues(Bytes(h), nFull) /\ file.tail = <<>>
    BY <1>1, <1>2, <1>6, NextBytes DEF Writes, Held
  <2>2. nFull = 0 + Len(file.full)
    BY <1>3
  <2>3. CASE file' = [file EXCEPT !.full = @ \o Bytes(h)]
    <3>1. file'.full = file.full \o Bytes(h) /\ file'.tail = <<>>
      BY <1>1, <2>1, <2>3 DEF Types, TypeFile
    <3>2. Stored' = file.full \o Bytes(h)
      BY <1>1, <3>1, Concatenated DEF Stored, Sorts
    <3>3. Continues(file.full \o Bytes(h), 0)
      BY <1>3, <2>1, <2>2, ContinuesJoin
    <3> QED
      BY <3>2, <3>3 DEF Continues
  <2>4. ASSUME NEW n \in 0 .. Len(Bytes(h)), file' = [file EXCEPT !.torn = TRUE, !.tail = SubSeq(Bytes(h), 1, n)]
        PROVE  Continues(Stored, 0)'
    <3>1. SubSeq(Bytes(h), 1, n) \in Seq(Events) /\ Continues(SubSeq(Bytes(h), 1, n), nFull)
      BY <1>3, <2>1, ContinuesHead
    <3>2. file'.full = file.full /\ file'.tail = SubSeq(Bytes(h), 1, n)
      BY <1>1, <2>4 DEF Types, TypeFile
    <3>3. Continues(file.full \o SubSeq(Bytes(h), 1, n), 0)
      BY <1>3, <2>1, <2>2, <3>1, ContinuesJoin
    <3> QED
      BY <3>2, <3>3 DEF Continues, Stored
  <2> QED
    BY <1>6, <2>3, <2>4 DEF Interrupted
<1> QED
  BY <1>4, <1>5, <1>6

LEMMA CrashLed ==
    ASSUME NEW p \in Procs, IInv, IInv', Told, Led, Crash(p)
    PROVE  Led'
<1>1. stray' = stray /\ stray \in BOOLEAN
  BY TypesAre DEF IInv, Types, TypeShared, Crash
<1>2. file' = file \/ \E k \in Writing(p) : file' \in Interrupted(k)
  BY DEF Crash
<1>3. ASSUME NEW k \in Writing(p) PROVE k \in Handles /\ Proc(k) = p /\ Exists(k) /\ work[k].stage \in Writes
  BY <1>3 DEF Writing, Running, Writes
<1>4. (~stray => Continues(Stored, 0))'
  <2>1. CASE file' = file
    BY <1>1, <2>1 DEF Led, Stored
  <2>2. CASE \E k \in Writing(p) : file' \in Interrupted(k)
    BY <1>1, <1>3, <2>2, InterruptedFollows
  <2> QED
    BY <1>2, <2>1, <2>2
<1>5. ASSUME NEW h \in Handles PROVE Leads(h)'
  <2>1. CASE Proc(h) = p
    <3>1. at'[h] = Gone /\ state'[h] = NoState /\ work'[h] = NoWork
      BY <2>1 DEF Crash, Reset
    <3>2. at'[h].st = "gone" /\ ~state'[h].made /\ work'[h].stage = "idle"
      BY <3>1 DEF Gone, NoState, NoWork
    <3> QED
      BY <3>2 DEF Leads, Held
  <2>2. CASE Proc(h) # p
    <3>1. at'[h] = at[h] /\ state'[h] = state[h] /\ work'[h] = work[h]
      BY <2>2 DEF Crash, Reset
    <3>2. Leads(h) /\ (at[h].lease = "held" => lock = h)
      BY DEF Led, IInv, Ordered, Leased
    <3>3. Held(h)'
      BY <3>1, <3>2 DEF Leads, Held
    <3>4. file' = file /\ Match(h) => Match(h)'
      BY <3>1 DEF Match, nFull, nRecovered
    <3>5. ~stray /\ at[h].lease = "held" => file' = file
      BY <1>2, <1>3, <2>2, <3>2, WriterLeads
    <3> QED
      BY <1>1, <3>1, <3>2, <3>3, <3>4, <3>5 DEF Leads
  <2> QED
    BY <2>1, <2>2
<1> QED
  BY <1>4, <1>5 DEF Led

LEMMA InitLed == Init => Led
<1> SUFFICES ASSUME Init PROVE Led
  OBVIOUS
<1>1. file.full = <<>> /\ file.tail = <<>> /\ <<>> \o <<>> = <<>>
  BY DEF Init
<1>2. Continues(Stored, 0)
  BY <1>1, EmptyContinues DEF Stored, Continues
<1>3. ASSUME NEW h \in Handles PROVE Leads(h)
  <2>1. at[h].st = "unused" /\ state[h] = NoState /\ work[h] = NoWork
    BY DEF Init
  <2>2. ~state[h].made /\ work[h].stage = "idle"
    BY <2>1 DEF NoState, NoWork
  <2> QED
    BY <2>1, <2>2 DEF Leads, Held
<1> QED
  BY <1>2, <1>3 DEF Led

LEMMA StepKeepsLed ==
    ASSUME IInv, IInv', Told, Led, [Next]_vars, Faults \subseteq {"write", "sync", "release"}
    PROVE  Led'
<1>1. CASE \E h \in Handles, p \in Procs : CreateLookup(h, p) \/ OpenClaim(h, p)
  BY <1>1, OpeningLed DEF Opening
<1>2. ASSUME NEW h \in Handles,
             \/ CreateRegister(h) \/ OpenLock(h) \/ OpenRead(h) \/ OpenAdopt(h) \/ OpenFails(h)
             \/ OpenReleases(h)
      PROVE  Led'
  BY <1>2, OpeningLed DEF Opening
<1>3. ASSUME NEW h \in Handles,
             \/ \E n \in Events : ExplicitAppend(h, n)
             \/ GoLive(h) \/ RouteLive(h) \/ TimerFires(h)
             \/ \E kind \in {"session", "all"} : FlushCall(h, kind)
             \/ FlushHandle(h) \/ DrainSettles(h)
             \/ Close(h) \/ CloseLook(h) \/ CloseTail(h)
      PROVE  Led'
  BY <1>3, RoutingLed
<1>4. ASSUME NEW h \in Handles,
             Begin(h) \/ LeaseRefused(h) \/ Check(h) \/ RefuseExisting(h) \/ AppendFails(h) \/ RollBack(h)
      PROVE  Led'
  <2>1. UNCHANGED <<file, state, at>>
    BY <1>4 DEF Begin, LeaseRefused, Check, RefuseExisting, AppendFails, RollBack
  <2> QED
    BY <1>4, <2>1, ChainLed
<1>5. ASSUME NEW h \in Handles,
             \/ AcquireLease(h) \/ ReleaseLease(h) \/ CloseRelease(h)
             \/ Truncate(h) \/ Rewrite(h) \/ Write(h) \/ Header(h) \/ Fail(h)
      PROVE  Led'
  BY <1>5, LeaseLed, TruncateLed, RewriteLed, WriteLed, HeaderLed, FailLed
<1>6. CASE \E p \in Procs : Crash(p)
  BY <1>6, CrashLed
<1>7. CASE UNCHANGED vars
  <2>1. UNCHANGED <<file, state, at, work, stray>> /\ stray \in BOOLEAN
    BY <1>7, TypesAre DEF vars, IInv, Types, TypeShared
  <2> QED
    BY <2>1, StillLed
<1> QED
  BY <1>1, <1>2, <1>3, <1>4, <1>5, <1>6, <1>7 DEF Next

\* The stored log is contiguous and holds nothing twice, however many processes
\* write it, wherever they crash and whichever releases of the lock fail, when a
\* rollback does its work and a file that was synced is closed (index.ts:
\* appendLines; storage.ts: repair).
THEOREM OrderHolds ==
    ASSUME Faults \subseteq {"write", "sync", "release"}
    PROVE  Spec => []InOrder
<1>1. IInv /\ Led => InOrder
  <2> SUFFICES ASSUME IInv, Led, ~stray PROVE Stored = Span(1, Len(Stored))
    BY DEF InOrder
  <2>1. Stored \in Seq(Events) /\ Len(Stored) \in Nat
    <3>1. file.full \in Seq(Events) /\ file.tail \in Seq(Events)
      BY TypesAre DEF IInv, Types, TypeFile
    <3>2. \A s, t \in Seq(Events) : s \o t \in Seq(Events)
      OBVIOUS
    <3>3. Stored \in Seq(Events)
      BY <3>1, <3>2, Zenon DEF Stored
    <3> QED
      BY <3>3
  <2>2. Stored = Span(0 + 1, 0 + Len(Stored))
    BY <2>1, ContinuesSpan DEF Led
  <2>3. 0 + 1 = 1 /\ 0 + Len(Stored) = Len(Stored)
    BY <2>1
  <2> QED
    BY <2>2, <2>3
<1>2. Init => Led
  BY InitLed
<1>3. IInv /\ IInv' /\ Told /\ Led /\ [Next]_vars => Led'
  BY StepKeepsLed
<1> QED
  BY <1>1, <1>2, <1>3, StoredInductive, PTL DEF Spec
=============================================================================
