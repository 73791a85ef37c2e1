----------------------------- MODULE ScheduleProofs -----------------------------
(***************************************************************************)
(* Theorems about Schedule: its safety for every number of reminders,      *)
(* calls and runtimes, and that the stored log keeps ReminderContract.     *)
(*                                                                         *)
(* The inductive invariant is IInv. It adds to the properties what they    *)
(* rest on: who may be at the head of the queue (QueueNow), how each fold  *)
(* of the log follows the one before (LogNow), where in the log a waiting  *)
(* flush ends (Waited, Awaited), and that a runtime which still drives has *)
(* told nothing it finds active (Fresh, Halted). What a step does is first *)
(* classified by its effect on the log (EffectStep) and on the runtime     *)
(* (RuntimeStep), and each part of IInv is then shown from those.          *)
(***************************************************************************)
EXTENDS Schedule, TLAPS, FiniteSetTheorems

Folds == [Ids -> Record]

\* Each fold is reached from the one before as the contract allows.
Advance(f, g) == \A r \in Ids : g[r] = f[r] \/ Contract!Moves(f[r], g[r])

-------------------------------------------------------------------------------
(* The log: what may be appended to it *)

\* A fold that a runtime of the n-th life may have written.
Good(f, n) ==
    /\ f \in Folds
    /\ \A r \in Ids : f[r].told <= n /\ (f[r].st = "active" => f[r].at > 0)

LogSound(l, n) ==
    /\ l \in Seq(Folds) /\ l # <<>>
    /\ \A i \in 1 .. Len(l) : Good(l[i], n)
    /\ \A i \in 1 .. Len(l) - 1 : Advance(l[i], l[i + 1])

\* What continues a log that ends in f.
Follows(f, s, n) ==
    /\ s \in Seq(Folds)
    /\ \A i \in 1 .. Len(s) : Good(s[i], n)
    /\ s # <<>> => Advance(f, s[1])
    /\ \A i \in 1 .. Len(s) - 1 : Advance(s[i], s[i + 1])

LEMMA Extend ==
    ASSUME NEW n \in Nat, NEW l, LogSound(l, n), NEW s, Follows(l[Len(l)], s, n)
    PROVE  /\ LogSound(l \o s, n)
           /\ Len(l \o s) = Len(l) + Len(s)
           /\ \A i \in 1 .. Len(l) : (l \o s)[i] = l[i]
           /\ \A i \in 1 .. Len(s) : (l \o s)[Len(l) + i] = s[i]
<1> DEFINE t == l \o s
<1>1. l \in Seq(Folds) /\ s \in Seq(Folds) /\ Len(l) \in Nat \ {0} /\ Len(s) \in Nat
  BY DEF LogSound, Follows
<1>2. t \in Seq(Folds) /\ Len(t) = Len(l) + Len(s) /\ t # <<>>
  BY <1>1
<1>3. \A i \in 1 .. Len(l) : t[i] = l[i]
  BY <1>1
<1>4. \A i \in 1 .. Len(s) : t[Len(l) + i] = s[i]
  BY <1>1
<1> HIDE DEF t
<1>5. ASSUME NEW i \in 1 .. Len(t) PROVE Good(t[i], n)
  <2>1. CASE i <= Len(l)
    BY <1>1, <1>3, <2>1 DEF LogSound
  <2>2. CASE i > Len(l)
    <3>1. i - Len(l) \in 1 .. Len(s) /\ i = Len(l) + (i - Len(l))
      BY <1>1, <1>2, <2>2
    <3>2. t[i] = s[i - Len(l)]
      BY <1>4, <3>1
    <3> QED
      BY <3>1, <3>2 DEF Follows
  <2> QED
    BY <1>1, <1>2, <2>1, <2>2
<1>6. ASSUME NEW i \in 1 .. Len(t) - 1 PROVE Advance(t[i], t[i + 1])
  <2>1. CASE i < Len(l)
    <3>1. i \in 1 .. Len(l) - 1 /\ i \in 1 .. Len(l) /\ i + 1 \in 1 .. Len(l)
      BY <1>1, <2>1
    <3>2. t[i] = l[i] /\ t[i + 1] = l[i + 1]
      BY <1>3, <3>1
    <3> QED
      BY <3>1, <3>2 DEF LogSound
  <2>2. CASE i = Len(l)
    <3>1. Len(s) \in Nat \ {0} /\ Len(l) \in 1 .. Len(l) /\ 1 \in 1 .. Len(s)
      BY <1>1, <1>2, <2>2
    <3>2. t[i] = l[Len(l)] /\ t[i + 1] = s[1]
      BY <1>3, <1>4, <2>2, <3>1
    <3>3. s # <<>>
      BY <3>1
    <3> QED
      BY <3>2, <3>3 DEF Follows
  <2>3. CASE i > Len(l)
    <3> DEFINE k == i - Len(l)
    <3>1. k \in 1 .. Len(s) - 1 /\ k \in 1 .. Len(s) /\ k + 1 \in 1 .. Len(s)
          /\ i = Len(l) + k /\ i + 1 = Len(l) + (k + 1)
      BY <1>1, <1>2, <2>3
    <3> HIDE DEF k
    <3>2. t[i] = s[k] /\ t[i + 1] = s[k + 1]
      BY <1>4, <3>1
    <3> QED
      BY <3>1, <3>2 DEF Follows
  <2> QED
    BY <1>1, <1>2, <2>1, <2>2, <2>3
<1> QED
  BY <1>2, <1>3, <1>4, <1>5, <1>6 DEF LogSound, t

LEMMA Single ==
    ASSUME NEW n \in Nat, NEW f, NEW g, Good(g, n), Advance(f, g)
    PROVE  Follows(f, <<g>>, n) /\ LogSound(<<g>>, n)
BY DEF Follows, LogSound, Good

LEMMA Prefix ==
    ASSUME NEW n \in Nat, NEW f, NEW s, Follows(f, s, n), NEW k \in 0 .. Len(s)
    PROVE  Follows(f, SubSeq(s, 1, k), n) /\ Len(SubSeq(s, 1, k)) = k
<1> DEFINE t == SubSeq(s, 1, k)
<1>1. s \in Seq(Folds) /\ Len(s) \in Nat /\ k \in Nat /\ k <= Len(s)
  BY DEF Follows
<1>2. t \in Seq(Folds) /\ Len(t) = k /\ \A i \in 1 .. k : t[i] = s[i]
  BY <1>1
<1> HIDE DEF t
<1>3. \A i \in 1 .. k : i \in 1 .. Len(s)
  BY <1>1
<1>4. \A i \in 1 .. k - 1 : i \in 1 .. Len(s) - 1 /\ i \in 1 .. k /\ i + 1 \in 1 .. k
  BY <1>1
<1>5. t # <<>> => 1 \in 1 .. k /\ s # <<>>
  BY <1>1, <1>2
<1> QED
  BY <1>2, <1>3, <1>4, <1>5 DEF Follows, t

\* One fold per event: each is a step of the contract, and the last has them all.
LEMMA StepsFollow ==
    ASSUME NEW n \in Nat, NEW f, NEW g, NEW h \in Folds, NEW S \in SUBSET Ids,
           \A r \in Ids : h[r] = IF r \in S THEN g[r] ELSE f[r],
           Good(f, n), Good(h, n), Advance(f, h),
           NEW rank \in [S -> Nat], \A r \in S : rank[r] <= Cardinality(S)
    PROVE  /\ Follows(f, Steps(f, g, rank), n)
           /\ Len(Steps(f, g, rank)) = Cardinality(S) /\ Cardinality(S) \in Nat
           /\ \A i \in 1 .. Cardinality(S), r \in Ids :
                 Steps(f, g, rank)[i][r] = IF r \in S /\ rank[r] <= i THEN h[r] ELSE f[r]
           /\ S = {} => Cardinality(S) = 0
           /\ S # {} => Cardinality(S) > 0 /\ Steps(f, g, rank)[Cardinality(S)] = h
<1> DEFINE N == Cardinality(S)
           s == Steps(f, g, rank)
           F(i) == [r \in Ids |-> IF r \in S /\ rank[r] <= i THEN g[r] ELSE f[r]]
<1>1. IsFiniteSet(S) /\ N \in Nat /\ (S # {} => N > 0) /\ (S = {} => N = 0)
  <2>1. IsFiniteSet(Ids)
    BY FS_Interval, BoundAssumption DEF Ids
  <2>2. IsFiniteSet(S)
    BY <2>1, FS_Subset
  <2> QED
    BY <2>2, FS_CardinalityType, FS_EmptySet
<1>2. s = [i \in 1 .. N |-> F(i)]
  BY Zenon DEF Steps
<1> HIDE DEF s, N
<1>3. \A i \in 1 .. N : s[i] = F(i)
  BY <1>2, Zenon
<1>4. \A i \in 1 .. N : F(i) \in Folds
  <2>1. ASSUME NEW i, NEW r \in Ids PROVE F(i)[r] \in {h[r], f[r]}
    BY Zenon
  <2> QED
    BY <2>1, Zenon DEF Good, Folds
<1>5. s \in Seq(Folds) /\ Len(s) = N
  <2>1. s \in [1 .. N -> Folds]
    BY <1>2, <1>4, Zenon
  <2> QED
    BY <1>1, <2>1
<1>6. ASSUME NEW i \in 1 .. N, NEW r \in Ids
      PROVE  s[i][r] = IF r \in S /\ rank[r] <= i THEN h[r] ELSE f[r]
  <2>1. s[i][r] = IF r \in S /\ rank[r] <= i THEN g[r] ELSE f[r]
    <3>1. s[i] = F(i)
      BY <1>3, Zenon
    <3>2. F(i)[r] = IF r \in S /\ rank[r] <= i THEN g[r] ELSE f[r]
      BY Zenon
    <3> HIDE DEF F
    <3> QED
      BY <3>1, <3>2, Zenon
  <2>2. r \in S => h[r] = g[r]
    OBVIOUS
  <2> QED
    BY <2>1, <2>2, Zenon
<1>7. ASSUME NEW i \in 1 .. N PROVE Good(s[i], n)
  <2>1. s[i] \in Folds
    BY <1>3, <1>4, Zenon
  <2>2. ASSUME NEW r \in Ids PROVE s[i][r] \in {f[r], h[r]}
    BY <1>6, Zenon
  <2> QED
    BY <2>1, <2>2, Zenon DEF Good
<1>8. ASSUME s # <<>> PROVE Advance(f, s[1])
  <2>1. 1 \in 1 .. N
    BY <1>1, <1>5, <1>8
  <2> QED
    BY <1>6, <2>1, Zenon DEF Advance
<1>9. ASSUME NEW i \in 1 .. N - 1 PROVE Advance(s[i], s[i + 1])
  <2>1. i \in 1 .. N /\ i + 1 \in 1 .. N
    BY <1>1
  <2>2. ASSUME NEW r \in Ids PROVE s[i + 1][r] = s[i][r] \/ (s[i][r] = f[r] /\ s[i + 1][r] = h[r])
    BY <1>6, <2>1, SMTT(30)
  <2> QED
    BY <2>2, Zenon DEF Advance
<1>10. ASSUME S # {} PROVE s[N] = h
  <2>1. N \in 1 .. N
    BY <1>1, <1>10
  <2>2. \A r \in S : rank[r] <= N
    BY Zenon DEF N
  <2>3. s[N] \in Folds /\ \A r \in Ids : s[N][r] = h[r]
    BY <1>3, <1>4, <1>6, <2>1, <2>2, Zenon
  <2> QED
    BY <2>3 DEF Folds
<1> QED
  BY <1>1, <1>5, <1>6, <1>7, <1>8, <1>9, <1>10, Zenon DEF Follows, s, N

\* Both orders of appending number the events of a batch from one.
LEMMA RankById ==
    ASSUME NEW S \in SUBSET Ids
    PROVE  ById(S) \in [S -> Nat] /\ \A r \in S : ById(S)[r] <= Cardinality(S)
<1>1. IsFiniteSet(S)
  <2>1. IsFiniteSet(Ids)
    BY FS_Interval, BoundAssumption DEF Ids
  <2> QED
    BY <2>1, FS_Subset
<1>2. ASSUME NEW r \in S
      PROVE  Cardinality({q \in S : q <= r}) \in Nat /\ Cardinality({q \in S : q <= r}) <= Cardinality(S)
  <2>1. {q \in S : q <= r} \subseteq S
    OBVIOUS
  <2> QED
    BY <1>1, <2>1, FS_Subset, FS_CardinalityType
<1> QED
  BY <1>2, Zenon DEF ById

LEMMA RankByTarget ==
    ASSUME NEW f \in Folds, NEW S \in SUBSET Ids
    PROVE  ByTarget(f, S) \in [S -> Nat] /\ \A r \in S : ByTarget(f, S)[r] <= Cardinality(S)
<1>1. IsFiniteSet(S)
  <2>1. IsFiniteSet(Ids)
    BY FS_Interval, BoundAssumption DEF Ids
  <2> QED
    BY <2>1, FS_Subset
<1>2. ASSUME NEW r \in S
      PROVE  /\ Cardinality({q \in S : Before(f, q, r)}) \in Nat
             /\ Cardinality({q \in S : Before(f, q, r)}) + 1 <= Cardinality(S)
  <2>1. ~Before(f, r, r)
    BY SMTT(30) DEF Before, Folds, Record, Ids
  <2>2. {q \in S : Before(f, q, r)} \subseteq S \ {r}
    BY <2>1
  <2>3. IsFiniteSet(S \ {r}) /\ Cardinality(S \ {r}) = Cardinality(S) - 1
    BY <1>1, FS_RemoveElement
  <2>4. Cardinality(S) \in Nat /\ Cardinality(S \ {r}) \in Nat
    BY <1>1, <2>3, FS_CardinalityType
  <2>5. /\ Cardinality({q \in S : Before(f, q, r)}) \in Nat
        /\ Cardinality({q \in S : Before(f, q, r)}) <= Cardinality(S \ {r})
    BY <2>2, <2>3, FS_Subset, FS_CardinalityType
  <2> QED
    BY <2>3, <2>4, <2>5
<1> QED
  <2>1. \A r \in S : Cardinality({q \in S : Before(f, q, r)}) + 1 \in Nat
    BY <1>2
  <2> QED
    BY <1>2, <2>1, Zenon DEF ByTarget

\* The next occurrence of a fixed-rate reminder.
LEMMA Retarget ==
    ASSUME NEW f \in Record, NEW x \in Nat
    PROVE  LET d == [f EXCEPT !.at = x, !.told = 0]
           IN  d \in Record /\ d.at = x /\ d.told = 0 /\ d.st = f.st
<1> DEFINE e == [f EXCEPT !.at = x]
           d == [f EXCEPT !.at = x, !.told = 0]
<1>1. e \in Record /\ e.at = x /\ e.st = f.st
  BY SMTT(30) DEF Record
<1>2. d = [e EXCEPT !.told = 0]
  BY SMTT(30) DEF Record
<1> HIDE DEF d, e
<1>3. d \in Record /\ d.at = e.at /\ d.told = 0 /\ d.st = e.st
  BY <1>1, <1>2, SMTT(30) DEF Record
<1> QED
  BY <1>1, <1>3, Zenon DEF d

\* What has been changed for good stays so along the log.
LEMMA AdvanceKeeps ==
    ASSUME NEW n, NEW m, NEW f, NEW g, Good(f, n), Good(g, m), Advance(f, g), NEW r \in Ids
    PROVE  /\ f[r] # Absent => g[r] # Absent
           /\ f[r].st = "deleted" => g[r].st = "deleted"
<1>1. f[r] \in Record /\ g[r] \in Record
  BY Zenon DEF Good, Folds
<1>2. f[r].st # "active" => g[r] = f[r] \/ f[r] = Absent
  BY Zenon DEF Advance, Contract!Moves, Contract!Absent, Absent
<1>3. ASSUME f[r].st = "active" PROVE g[r].st # "absent"
  <2>1. f[r] # Contract!Absent
    BY <1>3, SMTT(30) DEF Contract!Absent
  <2>2. CASE g[r] = f[r]
    BY <1>3, <2>2
  <2>3. CASE g[r] = [f[r] EXCEPT !.told = @ + 1]
    BY <1>1, <1>3, <2>3, SMTT(30) DEF Record
  <2>4. CASE g[r] = [f[r] EXCEPT !.st = "deleted"]
    BY <1>1, <1>3, <2>4, SMTT(30) DEF Record
  <2>5. CASE g[r] = [f[r] EXCEPT !.st = "dispatched"]
    BY <1>1, <1>3, <2>5, SMTT(30) DEF Record
  <2>6. CASE g[r] = [f[r] EXCEPT !.at = g[r].at, !.told = 0]
    <3>1. g[r].at \in Nat
      BY <1>1, SMTT(30) DEF Record
    <3> DEFINE x == g[r].at
               d == [f[r] EXCEPT !.at = x, !.told = 0]
    <3>2. g[r] = d
      BY <2>6, Zenon
    <3> HIDE DEF x
    <3>3. d.st = f[r].st
      BY <1>1, <3>1, Retarget, Zenon DEF x
    <3> HIDE DEF d
    <3> QED
      BY <1>3, <3>2, <3>3
  <2> QED
    BY <2>1, <2>2, <2>3, <2>4, <2>5, <2>6, Zenon DEF Advance, Contract!Moves
<1>4. Absent.st = "absent"
  BY DEF Absent
<1> QED
  BY <1>1, <1>2, <1>3, <1>4, Zenon
-------------------------------------------------------------------------------
(* The queue: the ways it changes *)

Begun == {"preflight", "delivered", "declined", "barrier"}
Waiting(st) == st \in {"queued", "preflight", "barrier"}

QueueOK(q, run, cs) ==
    /\ q \in Seq(Calls \cup {drive})
    /\ \A i, j \in 1 .. Len(q) : q[i] = q[j] => i = j
    /\ \A i \in 1 .. Len(q) :
          IF q[i] = drive THEN run \in Begun \cup {"queued"} ELSE Waiting(cs[q[i]].st)
    /\ \A c \in Calls : cs[c].st \in {"preflight", "barrier"} => q # <<>> /\ Head(q) = c
    /\ run \in Begun => q # <<>> /\ Head(q) = drive

\* What is at the head goes on, or something outside the queue changes.
LEMMA QueueStays ==
    ASSUME NEW q, NEW run, NEW cs, QueueOK(q, run, cs), NEW run2, NEW cs2,
           run \in Begun \cup {"queued"} => run2 \in Begun \cup {"queued"},
           run2 \in Begun => run \in Begun \/ (q # <<>> /\ Head(q) = drive),
           \A c \in Calls : Waiting(cs[c].st) => Waiting(cs2[c].st),
           \A c \in Calls : cs2[c].st \in {"preflight", "barrier"} =>
              cs[c].st \in {"preflight", "barrier"} \/ (q # <<>> /\ Head(q) = c)
    PROVE  QueueOK(q, run2, cs2)
<1>1. \A i \in 1 .. Len(q) : q[i] \in Calls \cup {drive}
  BY DEF QueueOK
<1> QED
  BY <1>1, Zenon DEF QueueOK

LEMMA QueueAdds ==
    ASSUME NEW q, NEW run, NEW cs, QueueOK(q, run, cs), NEW x \in Calls \cup {drive}, NEW run2, NEW cs2,
           \A c \in Calls \ {x} : cs2[c] = cs[c],
           IF x = drive THEN run \notin Begun \cup {"queued"} /\ run2 = "queued"
           ELSE run2 = run /\ ~Waiting(cs[x].st) /\ cs2[x].st = "queued"
    PROVE  QueueOK(Append(q, x), run2, cs2)
<1> DEFINE t == Append(q, x)
<1>1. q \in Seq(Calls \cup {drive}) /\ Len(q) \in Nat
  BY DEF QueueOK
<1>2. /\ t \in Seq(Calls \cup {drive}) /\ Len(t) = Len(q) + 1
      /\ \A i \in 1 .. Len(q) : t[i] = q[i]
      /\ t[Len(q) + 1] = x
  BY <1>1
<1>3. q # <<>> => Head(t) = Head(q)
  BY <1>1, <1>2
<1>4. t # <<>>
  BY <1>1
<1> HIDE DEF t
<1>5. \A i \in 1 .. Len(q) : q[i] # x /\ q[i] \in Calls \cup {drive}
  BY <1>1, DriveAssumption DEF QueueOK
<1>6. \A i \in 1 .. Len(t) : i \in 1 .. Len(q) \/ i = Len(q) + 1
  BY <1>1, <1>2
<1>7. \A i, j \in 1 .. Len(t) : t[i] = t[j] => i = j
  <2> SUFFICES ASSUME NEW i \in 1 .. Len(t), NEW j \in 1 .. Len(t), t[i] = t[j] PROVE i = j
    BY Zenon
  <2>1. CASE i \in 1 .. Len(q) /\ j \in 1 .. Len(q)
    <3>1. q[i] = q[j]
      BY <1>2, <2>1, Zenon
    <3> QED
      BY <2>1, <3>1, Zenon DEF QueueOK
  <2>2. CASE i = Len(q) + 1 /\ j \in 1 .. Len(q)
    <3>1. q[j] = x
      BY <1>2, <2>2, Zenon
    <3> QED
      BY <1>5, <2>2, <3>1, Zenon
  <2>3. CASE j = Len(q) + 1 /\ i \in 1 .. Len(q)
    <3>1. q[i] = x
      BY <1>2, <2>3, Zenon
    <3> QED
      BY <1>5, <2>3, <3>1, Zenon
  <2> QED
    BY <1>6, <2>1, <2>2, <2>3, Zenon
<1>8. ASSUME NEW i \in 1 .. Len(t)
      PROVE  IF t[i] = drive THEN run2 \in Begun \cup {"queued"} ELSE Waiting(cs2[t[i]].st)
  <2>1. CASE i \in 1 .. Len(q)
    <3>1. IF q[i] = drive THEN run \in Begun \cup {"queued"} ELSE Waiting(cs[q[i]].st)
      BY <2>1, Zenon DEF QueueOK
    <3>2. q[i] # drive => cs2[q[i]] = cs[q[i]]
      BY <1>5, <2>1, Zenon
    <3>3. t[i] = q[i]
      BY <1>2, <2>1, Zenon
    <3>4. q[i] = drive => run2 \in Begun \cup {"queued"}
      BY <1>5, <2>1, <3>1, Zenon
    <3> QED
      BY <3>1, <3>2, <3>3, <3>4, Zenon
  <2>2. CASE i = Len(q) + 1
    BY <1>2, <2>2, Zenon DEF Waiting
  <2> QED
    BY <1>6, <2>1, <2>2, Zenon
<1>9. \A c \in Calls : cs2[c].st \in {"preflight", "barrier"} => t # <<>> /\ Head(t) = c
  <2>1. SUFFICES ASSUME NEW c \in Calls, cs2[c].st \in {"preflight", "barrier"}
                 PROVE  Head(t) = c
    BY <1>4, Zenon
  <2>2. c # x
    BY <2>1, DriveAssumption
  <2>3. cs2[c] = cs[c]
    BY <2>2, Zenon
  <2>4. q # <<>> /\ Head(q) = c
    BY <2>1, <2>3, Zenon DEF QueueOK
  <2> QED
    BY <1>3, <2>4, Zenon
<1>10. run2 \in Begun => t # <<>> /\ Head(t) = drive
  <2>1. SUFFICES ASSUME run2 \in Begun PROVE Head(t) = drive
    BY <1>4, Zenon
  <2>2. x # drive /\ run2 = run
    BY <2>1 DEF Begun
  <2>3. q # <<>> /\ Head(q) = drive
    BY <2>1, <2>2, Zenon DEF QueueOK
  <2> QED
    BY <1>3, <2>3, Zenon
<1> QED
  BY <1>2, <1>7, <1>8, <1>9, <1>10, Zenon DEF QueueOK, t

LEMMA QueuePops ==
    ASSUME NEW q, NEW run, NEW cs, QueueOK(q, run, cs), q # <<>>, NEW run2, NEW cs2,
           \A c \in Calls \ {Head(q)} : cs2[c] = cs[c],
           IF Head(q) = drive THEN run2 \notin Begun
           ELSE run2 = run /\ cs2[Head(q)].st \notin {"preflight", "barrier"}
    PROVE  QueueOK(Tail(q), run2, cs2)
<1> DEFINE t == Tail(q)
           x == Head(q)
<1>1. q \in Seq(Calls \cup {drive}) /\ Len(q) \in Nat \ {0}
  BY DEF QueueOK
<1>2. /\ t \in Seq(Calls \cup {drive}) /\ Len(t) = Len(q) - 1
      /\ \A i \in 1 .. Len(t) : t[i] = q[i + 1]
      /\ x = q[1]
  BY <1>1
<1> HIDE DEF t, x
<1>3. \A i \in 1 .. Len(t) : i + 1 \in 1 .. Len(q) /\ i + 1 # 1 /\ 1 \in 1 .. Len(q)
  BY <1>1, <1>2
<1>4. \A i \in 1 .. Len(t) : t[i] # x /\ t[i] \in Calls \cup {drive}
  BY <1>1, <1>2, <1>3 DEF QueueOK
<1>5. \A i, j \in 1 .. Len(t) : t[i] = t[j] => i = j
  <2>1. SUFFICES ASSUME NEW i \in 1 .. Len(t), NEW j \in 1 .. Len(t), t[i] = t[j] PROVE i = j
    BY Zenon
  <2>2. q[i + 1] = q[j + 1]
    BY <1>2, <2>1, Zenon
  <2>3. i + 1 = j + 1
    BY <1>3, <2>2, Zenon DEF QueueOK
  <2> QED
    BY <2>3
<1>6. ASSUME NEW i \in 1 .. Len(t)
      PROVE  IF t[i] = drive THEN run2 \in Begun \cup {"queued"} ELSE Waiting(cs2[t[i]].st)
  <2>1. IF t[i] = drive THEN run \in Begun \cup {"queued"} ELSE Waiting(cs[t[i]].st)
    <3>1. i + 1 \in 1 .. Len(q) /\ t[i] = q[i + 1]
      BY <1>2, <1>3, Zenon
    <3>2. IF q[i + 1] = drive THEN run \in Begun \cup {"queued"} ELSE Waiting(cs[q[i + 1]].st)
      BY <3>1, Zenon DEF QueueOK
    <3> QED
      BY <3>1, <3>2, Zenon
  <2>2. t[i] # drive => cs2[t[i]] = cs[t[i]]
    BY <1>4, Zenon DEF x
  <2>3. t[i] = drive => run2 = run
    BY <1>4, Zenon DEF x
  <2> QED
    BY <2>1, <2>2, <2>3, Zenon
<1>7. \A c \in Calls : cs2[c].st \notin {"preflight", "barrier"}
  <2>1. SUFFICES ASSUME NEW c \in Calls, cs2[c].st \in {"preflight", "barrier"} PROVE FALSE
    BY Zenon
  <2>2. c # Head(q)
    BY <2>1, DriveAssumption
  <2>3. cs2[c] = cs[c]
    BY <2>2, Zenon
  <2> QED
    BY <2>1, <2>2, <2>3, Zenon DEF QueueOK
<1>8. run2 \notin Begun
  BY Zenon DEF QueueOK
<1> QED
  BY <1>2, <1>5, <1>6, <1>7, <1>8, Zenon DEF QueueOK, t

\* requestDrive() beside the queue.
LEMMA QueueAsked ==
    ASSUME NEW q, NEW rt \in Runtime, NEW cs, QueueOK(q, rt.run, cs)
    PROVE  QueueOK(LinedUp(rt, q), Asked(rt).run, cs)
<1>1. CASE Drivable(rt) /\ rt.run = "none"
  <2>1. LinedUp(rt, q) = Append(q, drive)
    BY <1>1, Zenon DEF LinedUp
  <2>2. Asked(rt).run = "queued"
    BY <1>1, SMTT(30) DEF Asked, Runtime
  <2>3. rt.run \notin Begun \cup {"queued"}
    BY <1>1 DEF Begun
  <2> QED
    BY <2>1, <2>2, <2>3, QueueAdds, Zenon
<1>2. CASE ~(Drivable(rt) /\ rt.run = "none")
  <2>1. LinedUp(rt, q) = q
    BY <1>2, Zenon DEF LinedUp
  <2>2. Asked(rt).run = rt.run
    BY <1>2, SMTT(30) DEF Asked, Runtime
  <2> QED
    BY <2>1, <2>2, Zenon
<1> QED
  BY <1>1, <1>2, Zenon
-------------------------------------------------------------------------------
(* The invariant *)

Types ==
    /\ clock \in 0 .. Horizon /\ lives \in 1 .. Lives
    /\ agent \in Agent /\ runtime \in Runtime /\ calls \in [Calls -> Call]

LogNow == LogSound(log, lives) /\ need \in 0 .. Len(log) - 1
QueueNow == QueueOK(queue, runtime.run, calls)

\* Nothing is appended while the preflight of a drive is under way.
Waited == runtime.run = "preflight" => need = Unsaved

\* The change a call waits for is in the last fold its flush has to store.
Held(call, f) == \A r \in call.ids :
    IF call.op = "create" THEN f[r] # Absent ELSE f[r].st = "deleted"
Awaited == \A c \in Calls : calls[c].st = "barrier" => Held(calls[c], log[need + 1])

\* What a runtime that still drives finds active it has not told itself.
Fresh == runtime.life # "down" /\ ~runtime.faulted =>
    \A r \in Ids : Live[r].st = "active" => Live[r].told < lives

\* A faulted runtime finishes its run and starts none.
Halted == runtime.faulted => runtime.run \in {"declined", "looping", "settled", "none"}

IInv ==
    /\ Types /\ LogNow /\ QueueNow
    /\ Waited /\ Awaited /\ Fresh /\ Halted /\ Confirmed /\ Covered

LEMMA LogFacts ==
    ASSUME LogNow, Types
    PROVE  /\ log \in Seq(Folds) /\ Len(log) \in Nat \ {0} /\ log # <<>> /\ Unsaved \in Nat
           /\ need \in Nat /\ need <= Unsaved /\ need + 1 \in 1 .. Len(log)
           /\ lives \in Nat \ {0} /\ clock \in Nat
           /\ Good(Live, lives) /\ Good(Stored, lives)
           /\ \A r \in Ids : Live[r] \in Record /\ Live[r].told \in Nat /\ Live[r].at \in Nat
<1>1. log \in Seq(Folds) /\ Len(log) \in Nat \ {0} /\ log # <<>>
  BY DEF LogNow, LogSound
<1>2. lives \in Nat \ {0} /\ clock \in Nat
  BY BoundAssumption DEF Types
<1>3. need \in Nat /\ need <= Unsaved /\ need + 1 \in 1 .. Len(log) /\ Unsaved \in Nat
  BY <1>1 DEF LogNow, Unsaved
<1>4. Good(Live, lives) /\ Good(Stored, lives)
  <2>1. Len(log) \in 1 .. Len(log) /\ 1 \in 1 .. Len(log)
    BY <1>1
  <2> QED
    BY <2>1, Zenon DEF LogNow, LogSound, Live, Stored
<1>5. \A r \in Ids : Live[r] \in Record
  BY <1>4, Zenon DEF Good, Folds
<1> QED
  BY <1>1, <1>2, <1>3, <1>4, <1>5 DEF Record

-------------------------------------------------------------------------------
(* What the actions append *)

LEMMA DeletionsFollow ==
    ASSUME LogNow, Types, NEW S \in SUBSET Active
    PROVE  /\ Follows(Live, Deletions(S), lives)
           /\ S # {} => /\ Deletions(S) # <<>>
                        /\ \A r \in S : Deletions(S)[Len(Deletions(S))][r].st = "deleted"
           /\ \A i \in 1 .. Len(Deletions(S)), r \in Ids :
                 /\ Deletions(S)[i][r].told = Live[r].told
                 /\ Deletions(S)[i][r].st = "active" => Live[r].st = "active"
<1> DEFINE g == [r \in Ids |-> [Live[r] EXCEPT !.st = "deleted"]]
           h == [r \in Ids |-> IF r \in S THEN [Live[r] EXCEPT !.st = "deleted"] ELSE Live[r]]
<1>1. S \in SUBSET Ids /\ \A r \in S : Live[r].st = "active"
  BY DEF Active
<1>2. \A r \in Ids : Live[r] \in Record
  BY LogFacts
<1>3. \A r \in Ids : /\ [Live[r] EXCEPT !.st = "deleted"] \in Record
                     /\ [Live[r] EXCEPT !.st = "deleted"].told = Live[r].told
                     /\ [Live[r] EXCEPT !.st = "deleted"].st = "deleted"
  BY <1>2, SMTT(30) DEF Record
<1>4. h \in Folds /\ \A r \in Ids : h[r] = IF r \in S THEN g[r] ELSE Live[r]
  BY <1>2, <1>3, Zenon DEF Folds
<1>5. \A r \in Ids : /\ h[r] = IF r \in S THEN [Live[r] EXCEPT !.st = "deleted"] ELSE Live[r]
                     /\ h[r].told = Live[r].told
                     /\ h[r].st = "active" => h[r] = Live[r]
  BY <1>3, SMTT(30)
<1> HIDE DEF h
<1>6. Good(Live, lives)
  BY LogFacts
<1>7. Good(h, lives)
  BY <1>4, <1>5, <1>6, Zenon DEF Good
<1>8. Advance(Live, h)
  BY <1>1, <1>5, Zenon DEF Advance, Contract!Moves
<1>9. ById(S) \in [S -> Nat] /\ \A r \in S : ById(S)[r] <= Cardinality(S)
  BY <1>1, RankById
<1>10. Deletions(S) = Steps(Live, g, ById(S))
  BY Zenon DEF Deletions
<1> HIDE DEF g
<1>11. lives \in Nat
  BY LogFacts
<1>12. /\ Follows(Live, Deletions(S), lives)
       /\ Len(Deletions(S)) = Cardinality(S) /\ Cardinality(S) \in Nat
       /\ \A i \in 1 .. Cardinality(S), r \in Ids : Deletions(S)[i][r] \in {h[r], Live[r]}
       /\ S # {} => Cardinality(S) > 0 /\ Deletions(S)[Cardinality(S)] = h
  <2>1. /\ Follows(Live, Deletions(S), lives)
        /\ Len(Deletions(S)) = Cardinality(S) /\ Cardinality(S) \in Nat
        /\ \A i \in 1 .. Cardinality(S), r \in Ids :
              Deletions(S)[i][r] = IF r \in S /\ ById(S)[r] <= i THEN h[r] ELSE Live[r]
        /\ S # {} => Cardinality(S) > 0 /\ Deletions(S)[Cardinality(S)] = h
    <3> DEFINE s == Steps(Live, g, ById(S))
    <3>1. /\ Follows(Live, s, lives)
          /\ Len(s) = Cardinality(S) /\ Cardinality(S) \in Nat
          /\ \A i \in 1 .. Cardinality(S), r \in Ids :
                s[i][r] = IF r \in S /\ ById(S)[r] <= i THEN h[r] ELSE Live[r]
          /\ S # {} => Cardinality(S) > 0 /\ s[Cardinality(S)] = h
      BY <1>1, <1>4, <1>6, <1>7, <1>8, <1>9, <1>11, StepsFollow
    <3> QED
      BY <1>10, <3>1, Zenon
  <2> QED
    BY <2>1, Zenon
<1>13. S # {} => Deletions(S) # <<>>
  BY <1>12
<1>14. \A r \in S : h[r].st = "deleted"
  BY <1>1, <1>3, <1>5, Zenon
<1> QED
  BY <1>5, <1>12, <1>13, <1>14, Zenon

\* The next target of a fixed-rate reminder is a later one.
LEMMA NextTarget ==
    ASSUME NEW at \in Nat, NEW now \in Nat, at <= now
    PROVE  LET next == at + Interval * ((now - at) \div Interval + 1) IN next \in Nat /\ next > at
<1> DEFINE k == (now - at) \div Interval + 1
<1>1. Interval \in Nat \ {0}
  BY BoundAssumption
<1>2. k \in Nat \ {0}
  BY <1>1
<1> HIDE DEF k
<1>3. Interval * k \in Nat /\ Interval * k > 0
  BY <1>1, <1>2
<1> QED
  BY <1>3 DEF k

\* The message, and then the dispatches, of a drive that finds its fold stored.
LEMMA DeliverFollows ==
    ASSUME LogNow, Types, Fresh, runtime.life = "live", ~runtime.faulted
    PROVE  /\ Follows(Live, <<Telling>>, lives)
           /\ Follows(Telling, Dispatches, lives)
           /\ \A r \in Ids \ Batch : Telling[r] = Live[r]
           /\ \A i \in 1 .. Len(Dispatches), r \in Ids \ Batch : Dispatches[i][r] = Live[r]
           /\ \A r \in Ids : LET last == IF Dispatches = <<>> THEN Telling
                                         ELSE Dispatches[Len(Dispatches)]
                             IN  last[r].st = "active" => last[r].told < lives
<1> DEFINE g == [r \in Ids |-> Dispatched(Telling[r], clock)]
           h == [r \in Ids |-> IF r \in Batch THEN Dispatched(Telling[r], clock) ELSE Telling[r]]
<1>1. /\ lives \in Nat \ {0} /\ clock \in Nat /\ Good(Live, lives)
      /\ \A r \in Ids : Live[r] \in Record /\ Live[r].told \in Nat /\ Live[r].at \in Nat
  BY LogFacts
<1>2. Batch \in SUBSET Ids /\ \A r \in Batch : Live[r].st = "active" /\ Live[r].at <= clock
  BY Zenon DEF Batch, OneShots, Due, Active
<1>3. \A r \in Batch : Live[r].told < lives
  BY <1>2, Zenon DEF Fresh
<1>4. /\ Telling \in Folds
      /\ \A r \in Ids : Telling[r] = IF r \in Batch THEN [Live[r] EXCEPT !.told = @ + 1] ELSE Live[r]
  <2>1. \A r \in Ids : [Live[r] EXCEPT !.told = @ + 1] \in Record
    BY <1>1, SMTT(30) DEF Record
  <2> QED
    BY <1>1, <2>1, Zenon DEF Telling, Folds
<1>5. \A r \in Batch : /\ Telling[r].st = "active" /\ Telling[r].at = Live[r].at
                       /\ Telling[r].every = Live[r].every /\ Telling[r].told = Live[r].told + 1
  <2>1. ASSUME NEW r \in Batch, NEW rec \in Record, rec.st = "active"
        PROVE  LET t == [rec EXCEPT !.told = @ + 1]
               IN  t.st = "active" /\ t.at = rec.at /\ t.every = rec.every /\ t.told = rec.told + 1
    BY <2>1, SMTT(30) DEF Record
  <2> QED
    BY <1>1, <1>2, <1>4, <2>1, Zenon
<1>6. Good(Telling, lives)
  <2>1. ASSUME NEW r \in Ids
        PROVE  Telling[r].told <= lives /\ (Telling[r].st = "active" => Telling[r].at > 0)
    <3>1. CASE r \in Batch
      <4>1. Telling[r].told <= lives
        BY <1>1, <1>3, <1>5, <3>1
      <4>2. Telling[r].at > 0
        BY <1>1, <1>2, <1>5, <3>1, Zenon DEF Good
      <4> QED
        BY <4>1, <4>2
    <3>2. CASE r \notin Batch
      BY <1>1, <1>4, <3>2, Zenon DEF Good
    <3> QED
      BY <3>1, <3>2
  <2> QED
    BY <1>4, <2>1, Zenon DEF Good
<1>7. Advance(Live, Telling)
  BY <1>2, <1>4, Zenon DEF Advance, Contract!Moves
<1>8. Follows(Live, <<Telling>>, lives)
  BY <1>1, <1>6, <1>7, Single
<1>9. ASSUME NEW r \in Batch
      PROVE  LET d == Dispatched(Telling[r], clock)
             IN  /\ d \in Record /\ d.told <= lives
                 /\ d.st = "active" => d.at > 0 /\ d.told < lives
                 /\ Contract!Moves(Telling[r], d)
  <2> DEFINE t == Telling[r]
             next == t.at + Interval * ((clock - t.at) \div Interval + 1)
  <2>1. t \in Record /\ t.st = "active" /\ t.told \in Nat /\ t.told > 0 /\ t.told <= lives
        /\ t.at \in Nat /\ t.at <= clock
    BY <1>1, <1>2, <1>4, <1>5, <1>6 DEF Folds, Good
  <2>2. next \in Nat /\ next > t.at
    BY <1>1, <2>1, NextTarget
  <2> HIDE DEF next, t
  <2>3. CASE t.every
    <3>1. Dispatched(t, clock) = [t EXCEPT !.at = next, !.told = 0]
      BY <2>3, Zenon DEF Dispatched, next
    <3> DEFINE d == [t EXCEPT !.at = next, !.told = 0]
    <3>2. d \in Record /\ d.at = next /\ d.told = 0 /\ d.st = "active"
      BY <2>1, <2>2, Retarget, Zenon
    <3>3. d = [t EXCEPT !.at = d.at, !.told = 0]
      BY <3>2, Zenon
    <3> HIDE DEF d
    <3>4. Contract!Moves(t, d)
      BY <2>1, <2>2, <2>3, <3>2, <3>3, Zenon DEF Contract!Moves
    <3>5. d.told <= lives /\ d.at > 0 /\ d.told < lives
      BY <1>1, <2>1, <2>2, <3>2
    <3> QED
      BY <3>1, <3>2, <3>4, <3>5, Zenon DEF d, t
  <2>4. CASE ~t.every
    <3>1. Dispatched(t, clock) = [t EXCEPT !.st = "dispatched"]
      BY <2>4, Zenon DEF Dispatched
    <3> DEFINE d == [t EXCEPT !.st = "dispatched"]
    <3>2. d \in Record /\ d.told = t.told /\ d.st = "dispatched"
      BY <2>1, SMTT(30) DEF Record
    <3>3. Contract!Moves(t, d)
      BY <2>1, <2>4, Zenon DEF Contract!Moves
    <3> HIDE DEF d
    <3> QED
      BY <2>1, <3>1, <3>2, <3>3, Zenon DEF d, t
  <2> QED
    BY <2>3, <2>4
<1>10. h \in Folds /\ \A r \in Ids : h[r] = IF r \in Batch THEN g[r] ELSE Telling[r]
  <2>1. \A r \in Ids : Telling[r] \in Record
    BY <1>4, Zenon DEF Folds
  <2> QED
    BY <1>2, <1>9, <2>1, Zenon DEF Folds
<1>11. \A r \in Ids : h[r] = IF r \in Batch THEN Dispatched(Telling[r], clock) ELSE Telling[r]
  OBVIOUS
<1>12. Dispatches = Steps(Telling, g, ByTarget(Live, Batch))
  BY Zenon DEF Dispatches
<1> HIDE DEF g, h
<1>13. Good(h, lives)
  BY <1>6, <1>9, <1>10, <1>11, Zenon DEF Good
<1>14. Advance(Telling, h)
  BY <1>9, <1>11, Zenon DEF Advance
<1>15. /\ ByTarget(Live, Batch) \in [Batch -> Nat]
       /\ \A r \in Batch : ByTarget(Live, Batch)[r] <= Cardinality(Batch)
  BY <1>1, <1>2, RankByTarget DEF Good
<1>16. /\ Follows(Telling, Dispatches, lives)
       /\ Len(Dispatches) = Cardinality(Batch) /\ Cardinality(Batch) \in Nat
       /\ \A i \in 1 .. Cardinality(Batch), r \in Ids : Dispatches[i][r] =
             IF r \in Batch /\ ByTarget(Live, Batch)[r] <= i THEN h[r] ELSE Telling[r]
       /\ Batch # {} => Cardinality(Batch) > 0 /\ Dispatches[Cardinality(Batch)] = h
  <2> DEFINE S == Batch
             rank == ByTarget(Live, Batch)
  <2>1. lives \in Nat /\ h \in Folds /\ S \in SUBSET Ids
    BY <1>1, <1>2, <1>10
  <2>2. \A r \in Ids : h[r] = IF r \in S THEN g[r] ELSE Telling[r]
    BY <1>10
  <2>3. rank \in [S -> Nat] /\ \A r \in S : rank[r] <= Cardinality(S)
    BY <1>15
  <2> HIDE DEF S, rank
  <2>4. /\ Follows(Telling, Steps(Telling, g, rank), lives)
        /\ Len(Steps(Telling, g, rank)) = Cardinality(S) /\ Cardinality(S) \in Nat
        /\ \A i \in 1 .. Cardinality(S), r \in Ids : Steps(Telling, g, rank)[i][r] =
              IF r \in S /\ rank[r] <= i THEN h[r] ELSE Telling[r]
        /\ S = {} => Cardinality(S) = 0
        /\ S # {} => Cardinality(S) > 0 /\ Steps(Telling, g, rank)[Cardinality(S)] = h
    BY <1>6, <1>13, <1>14, <2>1, <2>2, <2>3, StepsFollow, SMTT(60)
  <2>5. Dispatches = Steps(Telling, g, rank)
    BY <1>12, Zenon DEF rank
  <2> QED
    BY <2>4, <2>5, Zenon DEF S, rank
<1>17. \A r \in Ids : h[r].st = "active" => h[r].told < lives
  BY <1>1, <1>4, <1>9, <1>11, Zenon DEF Fresh
<1>18. ASSUME NEW r \in Ids
       PROVE  LET last == IF Dispatches = <<>> THEN Telling ELSE Dispatches[Len(Dispatches)]
              IN  last[r].st = "active" => last[r].told < lives
  <2>1. CASE Batch = {}
    <3>1. Dispatches = <<>> \/ Dispatches[Len(Dispatches)][r] = Telling[r]
      <4>1. Dispatches # <<>> => Len(Dispatches) \in 1 .. Cardinality(Batch)
        BY <1>16 DEF Follows
      <4> QED
        BY <1>16, <2>1, <4>1, Zenon
    <3>2. Telling[r] = Live[r]
      BY <1>4, <2>1, Zenon
    <3> QED
      BY <3>1, <3>2, Zenon DEF Fresh
  <2>2. CASE Batch # {}
    <3>1. Dispatches # <<>> /\ Dispatches[Len(Dispatches)] = h
      BY <1>16, <2>2
    <3> QED
      BY <1>17, <3>1, Zenon
  <2> QED
    BY <2>1, <2>2
<1>19. \A r \in Ids \ Batch : Telling[r] = Live[r]
  BY <1>4, Zenon
<1>20. \A i \in 1 .. Len(Dispatches), r \in Ids \ Batch : Dispatches[i][r] = Live[r]
  BY <1>16, <1>19, Zenon
<1> QED
  BY <1>8, <1>16, <1>18, <1>19, <1>20, Zenon
-------------------------------------------------------------------------------
(* The fields of the runtime *)

Runs == {"none", "queued", "preflight", "delivered", "declined", "barrier", "looping", "settled"}

LEMMA RunSet ==
    ASSUME NEW rt \in Runtime, NEW v \in Runs
    PROVE  LET x == [rt EXCEPT !.run = v]
           IN  /\ x \in Runtime /\ x.run = v /\ x.life = rt.life /\ x.faulted = rt.faulted
               /\ x.requested = rt.requested /\ x.timer = rt.timer
               /\ x.idleWait = rt.idleWait /\ x.failed = rt.failed
BY SMTT(30) DEF Runtime, Runs

LEMMA TimerSet ==
    ASSUME NEW rt \in Runtime, NEW v \in Nat
    PROVE  LET x == [rt EXCEPT !.timer = v]
           IN  /\ x \in Runtime /\ x.timer = v /\ x.life = rt.life /\ x.faulted = rt.faulted
               /\ x.requested = rt.requested /\ x.run = rt.run
               /\ x.idleWait = rt.idleWait /\ x.failed = rt.failed
BY SMTT(30) DEF Runtime

LEMMA FailedSet ==
    ASSUME NEW rt \in Runtime, NEW v \in BOOLEAN
    PROVE  LET x == [rt EXCEPT !.failed = v]
           IN  /\ x \in Runtime /\ x.failed = v /\ x.life = rt.life /\ x.faulted = rt.faulted
               /\ x.requested = rt.requested /\ x.run = rt.run
               /\ x.idleWait = rt.idleWait /\ x.timer = rt.timer
BY SMTT(30) DEF Runtime

LEMMA IdleWaitSet ==
    ASSUME NEW rt \in Runtime, NEW v \in BOOLEAN
    PROVE  LET x == [rt EXCEPT !.idleWait = v]
           IN  /\ x \in Runtime /\ x.idleWait = v /\ x.life = rt.life /\ x.faulted = rt.faulted
               /\ x.requested = rt.requested /\ x.run = rt.run
               /\ x.failed = rt.failed /\ x.timer = rt.timer
BY SMTT(30) DEF Runtime

LEMMA RequestedSet ==
    ASSUME NEW rt \in Runtime, NEW v \in BOOLEAN
    PROVE  LET x == [rt EXCEPT !.requested = v]
           IN  /\ x \in Runtime /\ x.requested = v /\ x.life = rt.life /\ x.faulted = rt.faulted
               /\ x.idleWait = rt.idleWait /\ x.run = rt.run
               /\ x.failed = rt.failed /\ x.timer = rt.timer
BY SMTT(30) DEF Runtime

LEMMA FaultedView ==
    ASSUME NEW rt \in Runtime
    PROVE  Faulted(rt) \in Runtime /\ Faulted(rt).faulted = TRUE
<1> DEFINE x == [rt EXCEPT !.faulted = TRUE]
<1>1. x \in Runtime /\ x.faulted = TRUE
  <2>1. x \in Runtime
    BY Zenon DEF Runtime
  <2> QED
    BY <2>1, SMTT(30) DEF Runtime
<1>2. Faulted(rt) = [x EXCEPT !.timer = 0]
  BY Zenon DEF Faulted, Off
<1> HIDE DEF x
<1>3. [x EXCEPT !.timer = 0] \in Runtime /\ [x EXCEPT !.timer = 0].faulted = x.faulted
  BY <1>1, TimerSet
<1> QED
  BY <1>1, <1>2, <1>3, Zenon

LEMMA AskedView ==
    ASSUME NEW rt \in Runtime
    PROVE  /\ Asked(rt) \in Runtime
           /\ Asked(rt).life = rt.life /\ Asked(rt).faulted = rt.faulted
           /\ Asked(rt).idleWait = rt.idleWait
           /\ rt.faulted => Asked(rt) = rt
           /\ Asked(rt).run = rt.run \/ (Asked(rt).run = "queued" /\ rt.run = "none")
           /\ Drivable(rt) => Asked(rt).requested \/ Asked(rt).run = "queued"
<1>1. CASE ~Drivable(rt)
  <2>1. Asked(rt) = rt
    BY <1>1, Zenon DEF Asked
  <2> QED
    BY <1>1, <2>1
<1>2. CASE Drivable(rt)
  <2> DEFINE a == [rt EXCEPT !.timer = 0]
             b == [a EXCEPT !.failed = FALSE]
             on == rt.run # "none"
             c == [b EXCEPT !.requested = on]
             v == IF rt.run = "none" THEN "queued" ELSE rt.run
             d == [c EXCEPT !.run = v]
  <2>1. Asked(rt) = d
    BY <1>2, Zenon DEF Asked, Off
  <2>2. v \in Runs /\ (on <=> rt.run # "none") /\ on \in BOOLEAN
    BY SMTT(30) DEF Runtime, Runs
  <2>3. ~rt.faulted
    BY <1>2, Zenon DEF Drivable
  <2>4. v = rt.run \/ (v = "queued" /\ rt.run = "none")
    OBVIOUS
  <2>5. on \/ v = "queued"
    OBVIOUS
  <2> HIDE DEF v, on
  <2>6. a \in Runtime /\ a.life = rt.life /\ a.faulted = rt.faulted /\ a.idleWait = rt.idleWait
    BY TimerSet
  <2> HIDE DEF a
  <2>7. b \in Runtime /\ b.life = rt.life /\ b.faulted = rt.faulted /\ b.idleWait = rt.idleWait
    BY <2>6, FailedSet
  <2> HIDE DEF b
  <2>8. /\ c \in Runtime /\ c.life = rt.life /\ c.faulted = rt.faulted /\ c.idleWait = rt.idleWait
        /\ c.requested = on
    BY <2>2, <2>7, RequestedSet, Zenon
  <2> HIDE DEF c
  <2>9. /\ d \in Runtime /\ d.life = rt.life /\ d.faulted = rt.faulted /\ d.idleWait = rt.idleWait
        /\ d.requested = on /\ d.run = v
    BY <2>2, <2>8, RunSet, Zenon
  <2> HIDE DEF d
  <2> QED
    BY <2>1, <2>3, <2>4, <2>5, <2>9, Zenon
<1> QED
  BY <1>1, <1>2
-------------------------------------------------------------------------------
(* What a step does to the log and to the calls *)

\* Nothing happens to either, and no preflight of a drive starts.
Quiet ==
    /\ UNCHANGED <<log, lives, need, calls>>
    /\ runtime'.run = "preflight" => runtime.run = "preflight"

\* The drive at the head goes on or ends.
DriveTurn ==
    /\ First(drive) /\ UNCHANGED <<log, lives, calls>>
    /\ need' \in {0, Unsaved}
    /\ runtime'.run = "preflight" => need' = Unsaved

\* A call changes its state: one at the head, or a new one at the tail.
CallTurn(c) ==
    /\ First(c) /\ UNCHANGED <<log, lives>>
    /\ need' \in {0, Unsaved, need}
    /\ runtime'.run = runtime.run \/ runtime'.run = "queued"
    /\ \E st \in {"preflight", "confirmed", "uncertain", "unchanged"} :
          /\ calls' = [calls EXCEPT ![c].st = st]
          /\ st = "confirmed" => calls[c].st = "barrier" /\ need = 0

CallStarts(c) ==
    /\ calls[c].st = "idle" /\ UNCHANGED <<log, lives, need, runtime>>
    /\ \E op \in {"create", "delete", "list", "stop"}, ids \in SUBSET Ids :
          calls' = [calls EXCEPT ![c] = [st |-> "queued", op |-> op, ids |-> ids]]

\* The log grows.
Grows ==
    /\ LogSound(log', lives) /\ UNCHANGED lives
    /\ Len(log) <= Len(log') /\ \A i \in 1 .. Len(log) : log'[i] = log[i]

Delivers ==
    /\ Grows /\ Preflighted /\ First(drive) /\ UNCHANGED <<need, calls>>
    /\ runtime'.run # "preflight"
    /\ runtime'.faulted \/ \A r \in Ids : Live'[r].st = "active" => Live'[r].told < lives
    /\ \A i \in Len(log) + 1 .. Len(log'), r \in Ids : log'[i][r].told > Live[r].told => r \in Due

Appending(c) ==
    /\ Grows /\ Ready(c) /\ need' = Len(log') - 1
    /\ runtime'.run = runtime.run \/ runtime'.run = "queued"
    /\ \E ids \in SUBSET Ids :
          /\ calls' = [calls EXCEPT ![c].st = "barrier", ![c].ids = ids]
          /\ Held([calls[c] EXCEPT !.st = "barrier", !.ids = ids], Live')
    /\ \A i \in Len(log) + 1 .. Len(log'), r \in Ids :
          /\ log'[i][r].told <= Live[r].told
          /\ log'[i][r].st = "active" => Live[r].st = "active" \/ log'[i][r].told = 0

Effect ==
    \/ Quiet \/ DriveTurn \/ Delivers \/ Save \/ Crash \/ Resume
    \/ \E c \in Calls : CallTurn(c) \/ CallStarts(c) \/ Appending(c)

LEMMA DeliverGrows ==
    ASSUME LogNow, Types, Fresh, runtime.life = "live", ~runtime.faulted, UNCHANGED lives,
           NEW s, s = Dispatches \/ (\E k \in 0 .. Len(Dispatches) - 1 : s = SubSeq(Dispatches, 1, k)),
           log' = Append(log, Telling) \o s
    PROVE  /\ Grows
           /\ \A i \in Len(log) + 1 .. Len(log'), r \in Ids : log'[i][r].told > Live[r].told => r \in Due
           /\ s = Dispatches => \A r \in Ids : Live'[r].st = "active" => Live'[r].told < lives
<1> DEFINE l == Append(log, Telling)
           n == Len(log)
<1>1. /\ log \in Seq(Folds) /\ n \in Nat \ {0} /\ lives \in Nat /\ Good(Live, lives)
      /\ LogSound(log, lives)
      /\ \A r \in Ids : Live[r].told \in Nat
  BY LogFacts DEF LogNow
<1>2. /\ Follows(Live, <<Telling>>, lives)
      /\ Follows(Telling, Dispatches, lives)
      /\ \A r \in Ids \ Batch : Telling[r] = Live[r]
      /\ \A i \in 1 .. Len(Dispatches), r \in Ids \ Batch : Dispatches[i][r] = Live[r]
      /\ \A r \in Ids : LET last == IF Dispatches = <<>> THEN Telling
                                    ELSE Dispatches[Len(Dispatches)]
                        IN  last[r].st = "active" => last[r].told < lives
  BY DeliverFollows
<1>3. /\ Follows(Telling, s, lives)
      /\ \A i \in 1 .. Len(s), r \in Ids \ Batch : s[i][r] = Live[r]
  <2>1. CASE s = Dispatches
    BY <1>2, <2>1
  <2>2. ASSUME NEW k \in 0 .. Len(Dispatches) - 1, s = SubSeq(Dispatches, 1, k)
        PROVE  <1>3!1 /\ <1>3!2
    <3>1. Dispatches \in Seq(Folds) /\ k \in 0 .. Len(Dispatches)
      BY <1>2 DEF Follows
    <3>2. Follows(Telling, s, lives) /\ Len(s) = k
      BY <1>1, <1>2, <2>2, <3>1, Prefix
    <3>3. \A i \in 1 .. k : s[i] = Dispatches[i] /\ i \in 1 .. Len(Dispatches)
      BY <2>2, <3>1
    <3> QED
      BY <1>2, <3>2, <3>3, Zenon
  <2> QED
    BY <2>1, <2>2
<1>4. Telling \in Folds
  BY <1>2 DEF Follows
<1>5. /\ l = log \o <<Telling>> /\ Len(l) = n + 1 /\ l[n + 1] = Telling
      /\ \A i \in 1 .. n : l[i] = log[i]
  BY <1>1, <1>4
<1>6. LogSound(l, lives)
  <2>1. log[Len(log)] = Live
    BY DEF Live
  <2>2. Follows(log[Len(log)], <<Telling>>, lives)
    BY <1>2, <2>1, Zenon
  <2>3. LogSound(log \o <<Telling>>, lives)
    BY <1>1, <2>2, Extend
  <2> QED
    BY <1>5, <2>3, Zenon
<1> HIDE DEF l
<1>7. /\ LogSound(l \o s, lives) /\ Len(l \o s) = Len(l) + Len(s)
      /\ \A i \in 1 .. Len(l) : (l \o s)[i] = l[i]
      /\ \A i \in 1 .. Len(s) : (l \o s)[Len(l) + i] = s[i]
  <2>1. l[Len(l)] = Telling
    BY <1>5
  <2> QED
    BY <1>1, <1>3, <1>6, <2>1, Extend
<1>8. log' = l \o s
  BY DEF l
<1>9. Len(s) \in Nat
  BY <1>3 DEF Follows
<1>10. Grows
  <2>1. Len(log) <= Len(log')
    BY <1>1, <1>5, <1>7, <1>8, <1>9
  <2>2. \A i \in 1 .. n : i \in 1 .. Len(l)
    BY <1>1, <1>5
  <2> QED
    BY <1>5, <1>7, <1>8, <2>1, <2>2, Zenon DEF Grows, n
<1>11. ASSUME NEW i \in n + 1 .. Len(log'), NEW r \in Ids, log'[i][r].told > Live[r].told
       PROVE  r \in Due
  <2>1. CASE r \in Batch
    BY <2>1, Zenon DEF Batch, OneShots
  <2>2. CASE r \notin Batch
    <3>1. log'[i][r] = Live[r]
      <4>1. CASE i = n + 1
        <5>1. i \in 1 .. Len(l)
          BY <1>1, <1>5, <4>1
        <5>2. log'[i] = Telling
          BY <1>5, <1>7, <1>8, <4>1, <5>1, Zenon
        <5> QED
          BY <1>2, <2>2, <5>2, Zenon
      <4>2. CASE i # n + 1
        <5>1. i - Len(l) \in 1 .. Len(s) /\ i = Len(l) + (i - Len(l))
          BY <1>1, <1>5, <1>7, <1>8, <1>9, <4>2
        <5>2. log'[i] = s[i - Len(l)]
          BY <1>7, <1>8, <5>1, Zenon
        <5> QED
          BY <1>3, <2>2, <5>1, <5>2, Zenon
      <4> QED
        BY <4>1, <4>2
    <3> QED
      BY <1>1, <1>11, <3>1
  <2> QED
    BY <2>1, <2>2
<1>12. ASSUME s = Dispatches, NEW r \in Ids, Live'[r].st = "active"
       PROVE  Live'[r].told < lives
  <2>1. CASE s = <<>>
    <3>1. Len(log') = Len(l) /\ Len(l) \in 1 .. Len(l)
      BY <1>1, <1>5, <1>7, <1>8, <2>1
    <3>2. Live' = Telling
      BY <1>5, <1>7, <1>8, <3>1, Zenon DEF Live
    <3> QED
      BY <1>2, <1>12, <2>1, <3>2, Zenon
  <2>2. CASE s # <<>>
    <3>1. Len(s) \in 1 .. Len(s)
      BY <1>3, <2>2 DEF Follows
    <3>2. Live' = s[Len(s)]
      BY <1>7, <1>8, <3>1, Zenon DEF Live
    <3> QED
      BY <1>2, <1>12, <2>2, <3>2, Zenon
  <2> QED
    BY <2>1, <2>2
<1> QED
  BY <1>10, <1>11, <1>12, Zenon DEF n
LEMMA CallAppends ==
    ASSUME LogNow, Types, NEW c \in Calls, Ready(c), NEW ids \in SUBSET Ids, NEW s,
           Appends(c, ids, s), Follows(Live, s, lives),
           s = <<>> => ids = {},
           s # <<>> => \A r \in ids :
              IF calls[c].op = "create" THEN s[Len(s)][r] # Absent ELSE s[Len(s)][r].st = "deleted",
           \A i \in 1 .. Len(s), r \in Ids :
              s[i][r].told <= Live[r].told
              /\ (s[i][r].st = "active" => Live[r].st = "active" \/ s[i][r].told = 0),
           runtime'.run = runtime.run \/ runtime'.run = "queued"
    PROVE  Appending(c)
<1> DEFINE n == Len(log)
           call == [calls[c] EXCEPT !.st = "barrier", !.ids = ids]
<1>1. /\ log \in Seq(Folds) /\ n \in Nat \ {0} /\ lives \in Nat /\ LogSound(log, lives)
      /\ calls[c] \in Call
  BY LogFacts, Zenon DEF LogNow, Types
<1>2. log' = log \o s /\ need' = Unsaved + Len(s) /\ lives' = lives
      /\ calls' = [calls EXCEPT ![c].st = "barrier", ![c].ids = ids]
  BY DEF Appends
<1>3. Len(s) \in Nat /\ s \in Seq(Folds)
  BY DEF Follows
<1>4. /\ LogSound(log', lives) /\ Len(log') = n + Len(s)
      /\ \A i \in 1 .. n : log'[i] = log[i]
      /\ \A i \in 1 .. Len(s) : log'[n + i] = s[i]
  <2>1. log[Len(log)] = Live
    BY DEF Live
  <2>2. Follows(log[Len(log)], s, lives)
    BY <2>1, Zenon
  <2> QED
    BY <1>1, <1>2, <2>2, Extend
<1>5. Grows
  BY <1>1, <1>2, <1>3, <1>4 DEF Grows
<1>6. need' = Len(log') - 1
  BY <1>1, <1>2, <1>3, <1>4 DEF Unsaved
<1>7. call.ids = ids /\ call.op = calls[c].op
  BY <1>1, SMTT(30) DEF Call
<1> HIDE DEF call
<1>8. Held(call, Live')
  <2>1. CASE s = <<>>
    BY <1>7, <2>1 DEF Held
  <2>2. CASE s # <<>>
    <3>1. Len(s) \in 1 .. Len(s)
      BY <1>3, <2>2
    <3>2. Live' = s[Len(s)]
      BY <1>4, <3>1, Zenon DEF Live
    <3> QED
      BY <1>7, <2>2, <3>2, Zenon DEF Held
  <2> QED
    BY <2>1, <2>2
<1>9. ASSUME NEW i \in n + 1 .. Len(log'), NEW r \in Ids
      PROVE  /\ log'[i][r].told <= Live[r].told
             /\ log'[i][r].st = "active" => Live[r].st = "active" \/ log'[i][r].told = 0
  <2>1. i - n \in 1 .. Len(s) /\ i = n + (i - n)
    BY <1>1, <1>3, <1>4
  <2>2. log'[i] = s[i - n]
    BY <1>4, <2>1, Zenon
  <2> QED
    BY <2>1, <2>2, Zenon
<1> QED
  BY <1>2, <1>5, <1>6, <1>8, <1>9, Zenon DEF Appending, call, n

LEMMA CreateAppends ==
    ASSUME LogNow, Types, NEW c \in Calls, Create(c),
           runtime'.run = runtime.run \/ runtime'.run = "queued"
    PROVE  Appending(c)
<1>1. PICK r \in Ids, rec \in {Pending(TRUE, clock + Interval)}
                              \cup {Pending(FALSE, clock + d) : d \in Delays} :
         Live[r] = Absent /\ Appends(c, {r}, <<[Live EXCEPT ![r] = rec]>>)
  BY Zenon DEF Create
<1> DEFINE g == [Live EXCEPT ![r] = rec]
<1>2. /\ lives \in Nat \ {0} /\ clock \in Nat /\ Good(Live, lives)
      /\ \A q \in Ids : Live[q] \in Record /\ Live[q].told \in Nat
  BY LogFacts
<1>3. PICK every \in BOOLEAN, at \in Nat : rec = Pending(every, at) /\ at > 0
  <2>1. \A d \in Delays \cup {Interval} : clock + d \in Nat /\ clock + d > 0
    BY <1>2, BoundAssumption
  <2> QED
    BY <2>1, Zenon
<1>4. rec \in Record /\ rec.st = "active" /\ rec.told = 0 /\ rec.at = at /\ rec.every = every
  <2> DEFINE a == [Absent EXCEPT !.st = "active"]
             b == [a EXCEPT !.every = every]
             d == [b EXCEPT !.at = at]
  <2>1. rec = d
    BY <1>3, Zenon DEF Pending
  <2>2. Absent \in Record /\ Absent.told = 0
    BY DEF Absent, Record
  <2>3. a \in Record /\ a.st = "active" /\ a.told = 0
    BY <2>2, SMTT(30) DEF Record
  <2> HIDE DEF a
  <2>4. b \in Record
    BY <2>3, Zenon DEF Record
  <2>5. b.st = "active" /\ b.told = 0 /\ b.every = every
    BY <2>3, SMTT(30) DEF Record
  <2> HIDE DEF b
  <2>6. d \in Record /\ d.st = "active" /\ d.told = 0 /\ d.at = at /\ d.every = b.every
    BY <2>4, <2>5, SMTT(30) DEF Record
  <2> QED
    BY <2>1, <2>5, <2>6, Zenon
<1>5. g \in Folds /\ g[r] = rec /\ \A q \in Ids \ {r} : g[q] = Live[q]
  <2>1. Live \in Folds
    BY <1>2, Zenon DEF Good
  <2> QED
    BY <1>4, <2>1, Zenon DEF Folds
<1> HIDE DEF g
<1>6. Good(g, lives)
  <2>1. 0 <= lives /\ (rec.at > 0)
    BY <1>2, <1>3, <1>4
  <2>2. g[r].told <= lives /\ g[r].at > 0
    BY <1>4, <1>5, <2>1, Zenon
  <2> QED
    BY <1>2, <1>5, <2>2, Zenon DEF Good
<1>7. Advance(Live, g)
  <2>1. Contract!Moves(Live[r], g[r])
    <3>1. Live[r] = Contract!Absent
      BY <1>1, Zenon DEF Absent, Contract!Absent
    <3>2. rec = Contract!Pending(rec.every, rec.at)
      BY <1>3, <1>4, Zenon DEF Pending, Absent, Contract!Absent, Contract!Pending
    <3> QED
      BY <1>5, <3>1, <3>2, Zenon DEF Contract!Moves
  <2> QED
    BY <1>5, <2>1, Zenon DEF Advance
<1>8. Follows(Live, <<g>>, lives)
  BY <1>2, <1>6, <1>7, Single
<1>9. \A q \in Ids : /\ g[q].told <= Live[q].told
                     /\ g[q].st = "active" => Live[q].st = "active" \/ g[q].told = 0
  <2>1. g[r].told <= Live[r].told /\ g[r].told = 0
    BY <1>2, <1>4, <1>5
  <2>2. \A q \in Ids : Live[q].told <= Live[q].told
    BY <1>2
  <2> QED
    BY <1>5, <2>1, <2>2, Zenon
<1>10. g[r] # Absent
  <2>1. Absent.st # "active"
    BY DEF Absent
  <2> QED
    BY <1>4, <1>5, <2>1, Zenon
<1> DEFINE s == <<g>>
<1>11. s # <<>> /\ Len(s) = 1 /\ s[1] = g /\ \A i \in 1 .. Len(s) : s[i] = g
  OBVIOUS
<1>12. Appends(c, {r}, s) /\ Ready(c) /\ calls[c].op = "create"
  BY <1>1, Zenon DEF Create, g
<1>13. Follows(Live, s, lives)
  BY <1>8
<1> HIDE DEF s
<1> QED
  BY <1>9, <1>10, <1>11, <1>12, <1>13, CallAppends

LEMMA DeleteAppends ==
    ASSUME LogNow, Types, NEW c \in Calls, Ready(c), NEW S \in SUBSET Active,
           Appends(c, S, Deletions(S)), calls[c].op # "create",
           runtime'.run = runtime.run \/ runtime'.run = "queued"
    PROVE  Appending(c)
<1> DEFINE s == Deletions(S)
<1>1. /\ Follows(Live, s, lives)
      /\ S # {} => s # <<>> /\ \A r \in S : s[Len(s)][r].st = "deleted"
      /\ \A i \in 1 .. Len(s), r \in Ids :
            /\ s[i][r].told = Live[r].told
            /\ s[i][r].st = "active" => Live[r].st = "active"
  BY DeletionsFollow
<1>2. Appends(c, S, s) /\ S \in SUBSET Ids
  BY DEF Active
<1> HIDE DEF s
<1>3. \A r \in Ids : Live[r].told \in Nat
  BY LogFacts
<1>4. \A i \in 1 .. Len(s), r \in Ids :
         /\ s[i][r].told <= Live[r].told
         /\ s[i][r].st = "active" => Live[r].st = "active" \/ s[i][r].told = 0
  BY <1>1, <1>3
<1>5. s # <<>> => \A r \in S :
         IF calls[c].op = "create" THEN s[Len(s)][r] # Absent ELSE s[Len(s)][r].st = "deleted"
  BY <1>1, Zenon
<1> QED
  BY <1>1, <1>2, <1>4, <1>5, CallAppends
\* What is at the head has the queue to itself.
LEMMA Heads ==
    ASSUME IInv
    PROVE  /\ \A c \in Calls : First(c) => runtime.run \notin Begun
           /\ First(drive) => \A c \in Calls : calls[c].st \notin {"preflight", "barrier"}
           /\ \A c, d \in Calls : First(c) /\ d # c => calls[d].st \notin {"preflight", "barrier"}
BY DriveAssumption, Zenon DEF IInv, QueueNow, QueueOK, First

LEMMA EffectStep ==
    ASSUME IInv, Next
    PROVE  Effect
<1> runtime \in Runtime /\ calls \in [Calls -> Call] /\ LogNow /\ Types /\ Fresh
  BY DEF IInv, Types
<1>0. runtime.run \in Runs /\ Off \in Nat
  BY SMTT(30) DEF Runtime, Runs, Off
<1>1. ASSUME NEW rt \in Runtime PROVE [rt EXCEPT !.run = "looping"].run # "preflight"
  BY <1>1, RunSet DEF Runs
<1>2. ASSUME RequestDrive PROVE runtime'.run = runtime.run \/ runtime'.run = "queued"
  BY <1>2, AskedView, Zenon DEF RequestDrive
<1>3. CASE Enter
  <2>1. CASE runtime.life = "live"
    BY <1>3, <2>1, Zenon DEF Enter, Effect, DriveTurn, Drives
  <2>2. CASE runtime.life # "live"
    <3>1. [runtime EXCEPT !.timer = Off] \in Runtime
      BY <1>0, TimerSet
    <3>2. runtime'.run # "preflight"
      BY <1>1, <1>3, <2>2, <3>1, Zenon DEF Enter, Leaves
    <3> QED
      BY <1>3, <2>2, <3>2, Zenon DEF Enter, Effect, DriveTurn, Drives, Leaves
  <2> QED
    BY <2>1, <2>2
<1>4. CASE DriveFails \/ Stopped \/ Arm \/ Busy \/ Barrier
  <2>1. ASSUME NEW rt \in Runtime, Leaves(rt), First(drive), UNCHANGED <<log, calls, lives>>
        PROVE  Effect
    <3>1. runtime'.run # "preflight"
      BY <1>1, <2>1, Zenon DEF Leaves
    <3> QED
      BY <2>1, <3>1, Zenon DEF Effect, DriveTurn, Leaves
  <2>2. CASE DriveFails
    <3>1. [runtime EXCEPT !.failed = TRUE] \in Runtime
      BY FailedSet
    <3> QED
      BY <2>1, <2>2, <3>1, Zenon DEF DriveFails, Drives
  <2>3. CASE Stopped
    BY <2>1, <2>3, Zenon DEF Stopped, Drives
  <2>4. CASE Arm
    <3>1. ASSUME NEW r \in Active
          PROVE  [runtime EXCEPT !.timer = Earlier(Live[r].at, clock + MaxDelay)] \in Runtime
      <4>1. Live[r].at \in Nat /\ clock + MaxDelay \in Nat
        BY LogFacts, BoundAssumption DEF Active
      <4>2. Earlier(Live[r].at, clock + MaxDelay) \in Nat
        BY <4>1, Zenon DEF Earlier
      <4> QED
        BY <4>2, TimerSet
    <3> QED
      BY <2>1, <2>4, <3>1, Zenon DEF Arm, Preflighted, Drives
  <2>5. CASE Busy
    <3>1. [runtime EXCEPT !.idleWait = TRUE] \in Runtime
      BY IdleWaitSet
    <3> QED
      BY <2>1, <2>5, <3>1, Zenon DEF Busy, Preflighted, Drives
  <2>6. CASE Barrier
    BY <2>1, <2>6, AskedView, Zenon DEF Barrier, Drives
  <2> QED
    BY <1>4, <2>2, <2>3, <2>4, <2>5, <2>6
<1>5. CASE Deliver
  <2>1. runtime.life = "live" /\ runtime.run = "preflight" /\ UNCHANGED lives
    BY <1>5, Zenon DEF Deliver, Claims, Preflighted, Drives
  <2>2. ~runtime.faulted
    BY <2>1 DEF IInv, Halted
  <2>3. log' = Append(log, Telling) \o Dispatches
    BY <1>5 DEF Deliver
  <2>4. /\ Grows
        /\ \A i \in Len(log) + 1 .. Len(log'), r \in Ids : log'[i][r].told > Live[r].told => r \in Due
        /\ \A r \in Ids : Live'[r].st = "active" => Live'[r].told < lives
    BY <2>1, <2>2, <2>3, DeliverGrows
  <2>5. runtime'.run # "preflight"
    <3>1. runtime' = [runtime EXCEPT !.run = "delivered"]
      BY <1>5, Zenon DEF Deliver, Claims
    <3> QED
      BY <3>1, RunSet DEF Runs
  <2> QED
    BY <1>5, <2>4, <2>5, Zenon DEF Deliver, Claims, Preflighted, Drives, Effect, Delivers
<1>6. CASE AppendFails
  <2>1. runtime.life = "live" /\ runtime.run = "preflight" /\ UNCHANGED lives
    BY <1>6, Zenon DEF AppendFails, Claims, Preflighted, Drives
  <2>2. ~runtime.faulted
    BY <2>1 DEF IInv, Halted
  <2>3. PICK k \in 0 .. Len(Dispatches) - 1 :
          log' = Append(log, Telling) \o SubSeq(Dispatches, 1, k)
    BY <1>6 DEF AppendFails
  <2>4. /\ Grows
        /\ \A i \in Len(log) + 1 .. Len(log'), r \in Ids : log'[i][r].told > Live[r].told => r \in Due
    BY <2>1, <2>2, <2>3, DeliverGrows
  <2>5. runtime'.run # "preflight" /\ runtime'.faulted
    <3>1. runtime' = [Faulted(runtime) EXCEPT !.run = "declined"]
      BY <1>6, Zenon DEF AppendFails, Claims
    <3>2. Faulted(runtime) \in Runtime /\ Faulted(runtime).faulted
      BY FaultedView
    <3>3. runtime'.run = "declined" /\ runtime'.faulted = Faulted(runtime).faulted
      BY <3>1, <3>2, RunSet DEF Runs
    <3> QED
      BY <3>2, <3>3
  <2> QED
    BY <1>6, <2>4, <2>5, Zenon DEF AppendFails, Claims, Preflighted, Drives, Effect, Delivers
<1>7. CASE FollowupFails
  <2>1. runtime' = [[runtime EXCEPT !.failed = TRUE] EXCEPT !.run = "declined"]
    BY <1>7, Zenon DEF FollowupFails, Claims
  <2>2. [runtime EXCEPT !.failed = TRUE] \in Runtime
    BY FailedSet
  <2>3. runtime'.run # "preflight"
    BY <2>1, <2>2, RunSet DEF Runs
  <2> QED
    BY <1>7, <2>3, Zenon DEF FollowupFails, Claims, Effect, Quiet
<1>8. CASE Release
  <2>1. CASE Drives("delivered") /\ runtime' = [runtime EXCEPT !.run = "barrier"] /\ need' = Unsaved
    <3>1. runtime'.run # "preflight"
      BY <2>1, RunSet DEF Runs
    <3> QED
      BY <1>8, <2>1, <3>1, Zenon DEF Release, Effect, DriveTurn, Drives
  <2>2. CASE Drives("declined") /\ Leaves(runtime)
    <3>1. runtime'.run # "preflight"
      BY <1>1, <2>2, Zenon DEF Leaves
    <3> QED
      BY <1>8, <2>2, <3>1, Zenon DEF Release, Effect, DriveTurn, Drives, Leaves
  <2> QED
    BY <1>8, <2>1, <2>2 DEF Release
<1>9. ASSUME NEW c \in Calls, Begin(c) \/ CallFails(c) \/ Look(c) \/ Confirm(c)
                              \/ (Stop(c) /\ ~(Drivable(runtime) /\ Active # {}))
      PROVE  Effect
  <2>1. First(c) /\ UNCHANGED <<log, lives>> /\ need' \in {0, Unsaved, need}
    <3>1. CASE Begin(c)
      BY <3>1, Zenon DEF Begin
    <3>2. CASE CallFails(c)
      BY <3>2, Zenon DEF CallFails, Answers
    <3>3. CASE Look(c)
      BY <3>3, Zenon DEF Look, Ready, Answers
    <3>4. CASE Confirm(c)
      BY <3>4, Zenon DEF Confirm, Answers
    <3>5. CASE Stop(c) /\ ~(Drivable(runtime) /\ Active # {})
      BY <3>5, Zenon DEF Stop, Ready, Answers
    <3> QED
      BY <1>9, <3>1, <3>2, <3>3, <3>4, <3>5, Zenon
  <2>2. runtime'.run = runtime.run \/ runtime'.run = "queued"
    <3>1. runtime' = runtime \/ runtime' = Asked(runtime)
      BY <1>9, Zenon DEF Begin, CallFails, Look, Confirm, Stop
    <3>2. Asked(runtime).run = runtime.run \/ Asked(runtime).run = "queued"
      BY AskedView, Zenon
    <3> QED
      BY <3>1, <3>2, Zenon
  <2>3. \E st \in {"preflight", "confirmed", "uncertain", "unchanged"} :
          /\ calls' = [calls EXCEPT ![c].st = st]
          /\ st = "confirmed" => calls[c].st = "barrier" /\ need = 0
    <3>1. CASE Confirm(c)
      BY <3>1, Zenon DEF Confirm, Answers, Flushed
    <3>2. CASE ~Confirm(c)
      <4>1. PICK st \in {"preflight", "uncertain", "unchanged"} : calls' = [calls EXCEPT ![c].st = st]
        BY <1>9, <3>2, Zenon DEF Begin, CallFails, Look, Stop, Answers
      <4> QED
        BY <4>1
    <3> QED
      BY <3>1, <3>2
  <2> QED
    BY <2>1, <2>2, <2>3, Zenon DEF Effect, CallTurn
<1>10. ASSUME NEW c \in Calls, Create(c) PROVE Effect
  <2>1. Appending(c)
    BY <1>2, <1>10, CreateAppends DEF Create
  <2> QED
    BY <2>1, Zenon DEF Effect
<1>11. ASSUME NEW c \in Calls, Delete(c) \/ (Stop(c) /\ Drivable(runtime) /\ Active # {})
       PROVE  Effect
  <2>1. PICK S \in SUBSET Active :
          RequestDrive /\ Appends(c, S, Deletions(S)) /\ Ready(c) /\ calls[c].op # "create"
    BY <1>11 DEF Delete, Stop
  <2>2. Appending(c)
    BY <1>2, <2>1, DeleteAppends
  <2> QED
    BY <2>2, Zenon DEF Effect
<1>12. CASE Loop
  <2>1. CASE runtime.requested /\ Drivable(runtime)
    <3>1. runtime'.run = "queued"
      <4>1. runtime' = [runtime EXCEPT !.run = "queued", !.requested = FALSE, !.failed = FALSE]
        BY <1>12, <2>1, Zenon DEF Loop
      <4> QED
        BY <4>1, SMTT(30) DEF Runtime
    <3> QED
      BY <1>12, <3>1, Zenon DEF Loop, Effect, Quiet
  <2>2. CASE ~(runtime.requested /\ Drivable(runtime))
    <3>1. runtime'.run # "preflight"
      <4>1. runtime' = [runtime EXCEPT !.run = "settled"]
        BY <1>12, <2>2, Zenon DEF Loop
      <4> QED
        BY <4>1, RunSet DEF Runs
    <3> QED
      BY <1>12, <3>1, Zenon DEF Loop, Effect, Quiet
  <2> QED
    BY <2>1, <2>2
<1>13. CASE Retire
  <2> DEFINE retired == [runtime EXCEPT !.run = "none"]
  <2>1. retired \in Runtime /\ retired.run = "none"
    BY RunSet DEF Runs
  <2>2. runtime' = Asked(retired) \/ runtime' = retired
    BY <1>13, Zenon DEF Retire
  <2> HIDE DEF retired
  <2>3. runtime'.run # "preflight"
    BY <2>1, <2>2, AskedView
  <2> QED
    BY <1>13, <2>3, Zenon DEF Retire, Effect, Quiet
<1>14. CASE Fire
  BY <1>2, <1>14 DEF Fire, Effect, Quiet
<1>15. CASE IdleHeard
  <2> DEFINE heard == [runtime EXCEPT !.idleWait = FALSE]
  <2>1. heard \in Runtime /\ heard.run = runtime.run
    BY IdleWaitSet
  <2>2. runtime' = Asked(heard)
    BY <1>15, Zenon DEF IdleHeard
  <2> HIDE DEF heard
  <2>3. runtime'.run = runtime.run \/ runtime'.run = "queued"
    BY <2>1, <2>2, AskedView, Zenon
  <2> QED
    BY <1>15, <2>3 DEF IdleHeard, Effect, Quiet
<1>16. CASE Requests
  <2>1. ASSUME NEW c \in Calls, NEW op \in {"create", "delete", "list", "stop"},
               NEW ids \in SUBSET Ids, Ask(c, op, ids)
        PROVE  Effect
    BY <2>1, Zenon DEF Ask, Effect, CallStarts
  <2>2. CASE \E phase \in {"running", "other"} : StartOther(phase)
    BY <2>2, Zenon DEF StartOther, Effect, Quiet
  <2>3. ASSUME NEW c \in Calls, NEW op \in {"create", "list", "stop"}, Ask(c, op, {})
        PROVE  Effect
    BY <2>1, <2>3
  <2>4. ASSUME NEW c \in Calls, NEW r \in Ids, Ask(c, "delete", {r})
        PROVE  Effect
    BY <2>1, <2>4
  <2> QED
    BY <1>16, <2>2, <2>3, <2>4, Zenon DEF Requests
<1>17. CASE EndTurn
  <2>1. runtime'.run = runtime.run \/ runtime'.run = "queued"
    BY <1>2, <1>17, Zenon DEF EndTurn
  <2> QED
    BY <1>17, <2>1 DEF EndTurn, Effect, Quiet
<1>18. CASE EndMaintenance \/ Cancel \/ Tick
  BY <1>18, Zenon DEF EndMaintenance, Cancel, Tick, Effect, Quiet
<1>19. CASE Dispose
  <2>1. runtime'.run = runtime.run
    BY <1>19, SMTT(30) DEF Dispose, Runtime
  <2> QED
    BY <1>19, <2>1, Zenon DEF Dispose, Effect, Quiet
<1>20. CASE Disposed
  <2>1. Down.run = "none"
    BY DEF Down, Started
  <2> QED
    BY <1>20, <2>1, Zenon DEF Disposed, Effect, Quiet
<1>21. CASE Save \/ Crash \/ Resume
  BY <1>21 DEF Effect
<1> QED
  BY <1>3, <1>4, <1>5, <1>6, <1>7, <1>8, <1>9, <1>10, <1>11, <1>12, <1>13, <1>14, <1>15,
     <1>16, <1>17, <1>18, <1>19, <1>20, <1>21, Zenon DEF Next, Transaction
-------------------------------------------------------------------------------
(* The parts of the invariant that the effect of a step decides *)

LEMMA CallView ==
    ASSUME Types, NEW c \in Calls, NEW st,
           calls' = [calls EXCEPT ![c].st = st]
    PROVE  /\ calls'[c].st = st /\ calls'[c].op = calls[c].op /\ calls'[c].ids = calls[c].ids
           /\ \A d \in Calls \ {c} : calls'[d] = calls[d]
<1>1. calls \in [Calls -> Call] /\ calls[c] \in Call
  BY DEF Types
<1>2. calls'[c] = [calls[c] EXCEPT !.st = st] /\ \A d \in Calls \ {c} : calls'[d] = calls[d]
  BY <1>1, Zenon
<1>3. [calls[c] EXCEPT !.st = st].st = st
      /\ [calls[c] EXCEPT !.st = st].op = calls[c].op
      /\ [calls[c] EXCEPT !.st = st].ids = calls[c].ids
  BY <1>1, SMTT(30) DEF Call
<1> QED
  BY <1>2, <1>3, Zenon

\* A step of the stored log is a step of the contract, and keeps what was confirmed.
LEMMA StoredStep ==
    ASSUME IInv, Effect
    PROVE  Stored' = Stored \/ Advance(Stored, Stored')
<1>1. /\ log \in Seq(Folds) /\ Len(log) \in Nat \ {0} /\ log # <<>>
  BY LogFacts DEF IInv
<1>2. CASE log' = log
  BY <1>2 DEF Stored
<1>3. CASE Grows
  <2>1. 1 \in 1 .. Len(log)
    BY <1>1
  <2> QED
    BY <1>3, <2>1, Zenon DEF Grows, Stored
<1>4. CASE Save
  <2>1. 1 \in 1 .. Len(log) - 1 /\ log'[1] = log[1 + 1]
    BY <1>1, <1>4 DEF Save
  <2>2. Advance(log[1], log[1 + 1])
    BY <2>1, Zenon DEF IInv, LogNow, LogSound
  <2> QED
    BY <2>1, <2>2, Zenon DEF Stored
<1>5. CASE log' = <<Stored>>
  BY <1>5 DEF Stored
<1> QED
  BY <1>2, <1>3, <1>4, <1>5, Zenon
     DEF Effect, Quiet, DriveTurn, Delivers, Crash, Resume, CallTurn, CallStarts, Appending

LEMMA LogStep ==
    ASSUME IInv, Effect, lives' \in 1 .. Lives
    PROVE  LogNow'
<1>1. /\ log \in Seq(Folds) /\ Len(log) \in Nat \ {0} /\ log # <<>> /\ LogSound(log, lives)
      /\ need \in Nat /\ need \in 0 .. Len(log) - 1 /\ lives \in Nat /\ Good(Stored, lives)
  BY LogFacts DEF IInv, LogNow
<1>2. CASE UNCHANGED <<log, lives>> /\ need' \in {0, Unsaved, need}
  <2>1. need' \in 0 .. Len(log) - 1
    BY <1>1, <1>2 DEF Unsaved
  <2> QED
    BY <1>1, <1>2, <2>1, Zenon DEF LogNow
<1>3. CASE Grows /\ need' \in {need, Len(log') - 1}
  <2>1. Len(log) <= Len(log') /\ log' \in Seq(Folds) /\ lives' = lives /\ LogSound(log', lives)
    BY <1>3 DEF Grows, LogSound
  <2>2. need' \in 0 .. Len(log') - 1
    BY <1>1, <1>3, <2>1
  <2> QED
    BY <2>1, <2>2, Zenon DEF LogNow
<1>4. CASE Save
  <2>1. /\ log' \in Seq(Folds) /\ Len(log') = Len(log) - 1 /\ log' # <<>> /\ Len(log) > 1
        /\ \A i \in 1 .. Len(log') : log'[i] = log[i + 1]
    BY <1>1, <1>4 DEF Save
  <2>2. /\ \A i \in 1 .. Len(log') : i + 1 \in 1 .. Len(log)
        /\ \A i \in 1 .. Len(log') - 1 : i \in 1 .. Len(log') /\ i + 1 \in 1 .. Len(log')
                                         /\ i + 1 \in 1 .. Len(log) - 1
    BY <1>1, <2>1
  <2>3. LogSound(log', lives)
    BY <1>1, <2>1, <2>2, Zenon DEF LogSound
  <2>4. need' \in 0 .. Len(log') - 1
    <3>1. need' = IF need = 0 THEN 0 ELSE need - 1
      BY <1>4 DEF Save
    <3> QED
      BY <1>1, <2>1, <3>1
  <2>5. lives' = lives
    BY <1>4 DEF Save
  <2> QED
    BY <2>3, <2>4, <2>5, Zenon DEF LogNow
<1>5. CASE log' = <<Stored>> /\ need' = 0 /\ lives' \in {lives, lives + 1}
  <2>1. Good(Stored, lives')
    <3>1. \A r \in Ids : Stored[r].told \in Nat
      BY <1>1 DEF Good, Folds, Record
    <3>2. \A r \in Ids : Stored[r].told <= lives'
      BY <1>1, <1>5, <3>1 DEF Good
    <3> QED
      BY <1>1, <3>2, Zenon DEF Good
  <2>2. lives' \in Nat
    BY <1>1, <1>5
  <2>3. Advance(Stored, Stored)
    BY Zenon DEF Advance
  <2>4. LogSound(<<Stored>>, lives')
    BY <2>1, <2>2, <2>3, Single
  <2>5. need' \in 0 .. Len(log') - 1
    BY <1>5
  <2> QED
    BY <1>5, <2>4, <2>5, Zenon DEF LogNow
<1>6. CASE Delivers
  BY <1>3, <1>6, Zenon DEF Delivers
<1>7. ASSUME NEW c \in Calls, Appending(c) PROVE LogNow'
  BY <1>3, <1>7, Zenon DEF Appending
<1>8. CASE Crash \/ Resume
  BY <1>5, <1>8, Zenon DEF Crash, Resume
<1> QED
  BY <1>2, <1>4, <1>6, <1>7, <1>8, Zenon
     DEF Effect, Quiet, DriveTurn, CallTurn, CallStarts

LEMMA WaitedStep ==
    ASSUME IInv, Effect
    PROVE  Waited'
<1>1. /\ log \in Seq(Folds) /\ Len(log) \in Nat \ {0} /\ need \in Nat /\ need <= Unsaved
  BY LogFacts DEF IInv
<1>2. Waited
  BY DEF IInv
<1>3. CASE Quiet
  BY <1>2, <1>3, Zenon DEF Quiet, Waited, Unsaved
<1>4. CASE DriveTurn
  BY <1>4, Zenon DEF DriveTurn, Waited, Unsaved
<1>5. CASE runtime'.run # "preflight"
  BY <1>5 DEF Waited
<1>6. CASE Save
  <2>1. Len(log') = Len(log) - 1 /\ runtime' = runtime /\ need' = (IF need = 0 THEN 0 ELSE need - 1)
        /\ Len(log) > 1
    BY <1>1, <1>6 DEF Save
  <2> QED
    BY <1>1, <1>2, <2>1 DEF Waited, Unsaved
<1>7. CASE Crash \/ Resume
  <2>1. runtime'.run # "preflight"
    <3>1. Down.run # "preflight" /\ Started.run # "preflight"
      BY DEF Down, Started
    <3> QED
      BY <1>7, <3>1, Zenon DEF Crash, Resume
  <2> QED
    BY <1>5, <2>1
<1>8. ASSUME NEW c \in Calls, First(c), runtime'.run = runtime.run \/ runtime'.run = "queued"
      PROVE  Waited'
  <2>1. runtime.run # "preflight"
    BY <1>8, Heads DEF Begun
  <2>2. runtime'.run # "preflight"
    BY <1>8, <2>1
  <2> QED
    BY <1>5, <2>2
<1>9. ASSUME NEW c \in Calls, CallStarts(c) PROVE Waited'
  BY <1>2, <1>9, Zenon DEF CallStarts, Waited, Unsaved
<1> QED
  BY <1>3, <1>4, <1>5, <1>6, <1>7, <1>8, <1>9, Zenon
     DEF Effect, Delivers, CallTurn, Appending, Ready
\* The mutation of an appending call, whose other calls are untouched.
LEMMA AppendingView ==
    ASSUME Types, NEW c \in Calls, NEW ids \in SUBSET Ids,
           calls' = [calls EXCEPT ![c].st = "barrier", ![c].ids = ids]
    PROVE  /\ calls'[c] = [calls[c] EXCEPT !.st = "barrier", !.ids = ids]
           /\ calls'[c].st = "barrier" /\ calls'[c] \in Call
           /\ \A d \in Calls \ {c} : calls'[d] = calls[d]
<1>1. calls \in [Calls -> Call] /\ calls[c] \in Call
  BY DEF Types
<1>2. /\ calls'[c] = [calls[c] EXCEPT !.st = "barrier", !.ids = ids]
      /\ \A d \in Calls \ {c} : calls'[d] = calls[d]
  BY <1>1, SMTT(30) DEF Call
<1> DEFINE a == [calls[c] EXCEPT !.st = "barrier"]
<1>3. a \in Call /\ a.st = "barrier"
  BY <1>1, SMTT(30) DEF Call
<1>4. [calls[c] EXCEPT !.st = "barrier", !.ids = ids] = [a EXCEPT !.ids = ids]
  BY Zenon
<1> HIDE DEF a
<1>5. [a EXCEPT !.ids = ids] \in Call /\ [a EXCEPT !.ids = ids].st = a.st
  BY <1>3, SMTT(30) DEF Call
<1> QED
  BY <1>2, <1>3, <1>4, <1>5, Zenon

LEMMA HeldKeeps ==
    ASSUME NEW n, NEW m, NEW f, NEW g, Good(f, n), Good(g, m), Advance(f, g),
           NEW call \in Call, Held(call, f)
    PROVE  Held(call, g)
<1>1. ASSUME NEW r \in call.ids
      PROVE  (f[r] # Absent => g[r] # Absent) /\ (f[r].st = "deleted" => g[r].st = "deleted")
  <2>1. r \in Ids
    BY SMTT(30) DEF Call
  <2> QED
    BY <2>1, AdvanceKeeps
<1> QED
  BY <1>1, Zenon DEF Held

LEMMA AwaitedStep ==
    ASSUME IInv, Effect
    PROVE  Awaited'
<1>1. Types /\ Awaited /\ LogNow /\ calls \in [Calls -> Call]
  BY DEF IInv, Types
<1>2. CASE UNCHANGED <<log, need, calls>>
  BY <1>1, <1>2, Zenon DEF Awaited, Held
<1>3. CASE First(drive) /\ UNCHANGED calls
  BY <1>3, Heads, Zenon DEF Awaited
<1>4. ASSUME NEW c \in Calls, CallTurn(c) PROVE Awaited'
  <2>1. PICK st \in {"preflight", "confirmed", "uncertain", "unchanged"} :
          calls' = [calls EXCEPT ![c].st = st]
    BY <1>4, Zenon DEF CallTurn
  <2>2. calls'[c].st # "barrier" /\ \A d \in Calls \ {c} : calls'[d] = calls[d]
    BY <1>1, <2>1, CallView
  <2>3. \A d \in Calls \ {c} : calls[d].st # "barrier"
    BY <1>4, Heads, Zenon DEF CallTurn
  <2> QED
    BY <2>2, <2>3, Zenon DEF Awaited
<1>5. ASSUME NEW c \in Calls, CallStarts(c) PROVE Awaited'
  <2>1. PICK op \in {"create", "delete", "list", "stop"}, ids \in SUBSET Ids :
          calls' = [calls EXCEPT ![c] = [st |-> "queued", op |-> op, ids |-> ids]]
    BY <1>5, Zenon DEF CallStarts
  <2>2. calls'[c] = [st |-> "queued", op |-> op, ids |-> ids]
        /\ \A d \in Calls \ {c} : calls'[d] = calls[d]
    BY <1>1, <2>1, Zenon
  <2>3. calls'[c].st # "barrier"
    BY <2>2
  <2>4. \A d \in Calls \ {c} : calls'[d].st = "barrier" => Held(calls'[d], log'[need' + 1])
    BY <1>1, <1>5, <2>2, Zenon DEF CallStarts, Awaited
  <2> QED
    BY <2>3, <2>4, Zenon DEF Awaited, Held
<1>6. ASSUME NEW c \in Calls, Appending(c) PROVE Awaited'
  <2>1. PICK ids \in SUBSET Ids :
          /\ calls' = [calls EXCEPT ![c].st = "barrier", ![c].ids = ids]
          /\ Held([calls[c] EXCEPT !.st = "barrier", !.ids = ids], Live')
    BY <1>6, Zenon DEF Appending
  <2>2. /\ calls'[c] = [calls[c] EXCEPT !.st = "barrier", !.ids = ids]
        /\ \A d \in Calls \ {c} : calls'[d] = calls[d]
    BY <1>1, <2>1, AppendingView
  <2>3. \A d \in Calls \ {c} : calls[d].st # "barrier"
    BY <1>6, Heads, Zenon DEF Appending, Ready
  <2>4. need' + 1 = Len(log')
    <3>1. Len(log') \in Nat
      BY <1>6 DEF Appending, Grows, LogSound
    <3> QED
      BY <1>6, <3>1 DEF Appending
  <2>5. Held(calls'[c], log'[need' + 1])
    BY <2>1, <2>2, <2>4, Zenon DEF Live
  <2> QED
    BY <2>2, <2>3, <2>5, Zenon DEF Awaited, Held
<1>7. CASE Save
  <2>1. /\ log \in Seq(Folds) /\ Len(log) \in Nat \ {0} /\ need \in Nat /\ need + 1 \in 1 .. Len(log)
        /\ LogSound(log, lives) /\ Good(Stored, lives)
    BY <1>1, LogFacts DEF LogNow
  <2>2. /\ Len(log) > 1 /\ calls' = calls /\ need' = (IF need = 0 THEN 0 ELSE need - 1)
        /\ \A i \in 1 .. Len(log) - 1 : log'[i] = log[i + 1]
    BY <1>7, <2>1 DEF Save
  <2>3. CASE need = 0
    <3>1. log'[need' + 1] = log[2]
      BY <2>1, <2>2, <2>3
    <3>2. Good(log[1], lives) /\ Good(log[2], lives) /\ Advance(log[1], log[2])
      <4>1. 1 \in 1 .. Len(log) - 1 /\ 1 \in 1 .. Len(log) /\ 2 \in 1 .. Len(log) /\ 1 + 1 = 2
        BY <2>1, <2>2
      <4> QED
        BY <2>1, <4>1, Zenon DEF LogSound
    <3>3. need + 1 = 1
      BY <2>3
    <3>4. ASSUME NEW c \in Calls, calls[c].st = "barrier" PROVE Held(calls[c], log[2])
      <4>1. Held(calls[c], log[1]) /\ calls[c] \in Call
        BY <1>1, <3>3, <3>4, Zenon DEF Awaited
      <4> QED
        BY <3>2, <4>1, HeldKeeps
    <3> QED
      BY <2>2, <3>1, <3>4, Zenon DEF Awaited, Held
  <2>4. CASE need # 0
    <3>1. need \in 1 .. Len(log) - 1 /\ need' + 1 = need
      BY <2>1, <2>2, <2>4
    <3>2. log'[need' + 1] = log[need + 1]
      BY <2>2, <3>1, Zenon
    <3> QED
      BY <1>1, <2>2, <3>2, Zenon DEF Awaited, Held
  <2> QED
    BY <2>3, <2>4
<1>8. CASE Crash
  <2>1. ASSUME NEW c \in Calls PROVE calls'[c].st # "barrier"
    <3>1. calls'[c] = IF InFlight(c) THEN [calls[c] EXCEPT !.st = "lost"] ELSE calls[c]
      BY <1>8, Zenon DEF Crash
    <3>2. [calls[c] EXCEPT !.st = "lost"].st = "lost"
      BY <1>1, SMTT(30) DEF Call
    <3>3. ~InFlight(c) => calls[c].st # "barrier"
      BY DEF InFlight
    <3> QED
      BY <3>1, <3>2, <3>3
  <2> QED
    BY <2>1, Zenon DEF Awaited
<1>9. CASE Resume
  <2>1. \A c \in Calls : calls'[c].st # "barrier"
    BY <1>9, Zenon DEF Resume, InFlight
  <2> QED
    BY <2>1, Zenon DEF Awaited
<1> QED
  BY <1>2, <1>3, <1>4, <1>5, <1>6, <1>7, <1>8, <1>9, Zenon
     DEF Effect, Quiet, DriveTurn, Delivers

\* A confirmed call was at its barrier with its flush done, and nothing stored is undone.
LEMMA ConfirmedStep ==
    ASSUME IInv, Effect, LogNow'
    PROVE  Confirmed'
<1>1. /\ Types /\ LogNow /\ calls \in [Calls -> Call]
      /\ \A c \in Calls : calls[c].st = "confirmed" => Held(calls[c], Stored)
      /\ Good(Stored, lives)
  BY LogFacts, Zenon DEF IInv, Types, Confirmed, Held
<1>2. ASSUME NEW call \in Call, Held(call, Stored) PROVE Held(call, Stored')
  <2>1. Good(Stored', lives')
    <3>1. 1 \in 1 .. Len(log') /\ LogSound(log', lives')
      BY DEF LogNow, LogSound
    <3> QED
      BY <3>1, Zenon DEF LogSound, Stored
  <2>2. CASE Stored' = Stored
    BY <1>2, <2>2, Zenon DEF Held
  <2>3. CASE Advance(Stored, Stored')
    <3> DEFINE f == Stored
               g == Stored'
    <3>1. Good(f, lives) /\ Good(g, lives') /\ Advance(f, g) /\ Held(call, f)
      BY <1>1, <1>2, <2>1, <2>3
    <3> HIDE DEF f, g
    <3>2. Held(call, g)
      BY <3>1, HeldKeeps
    <3> QED
      BY <3>2 DEF g
  <2> QED
    BY <2>2, <2>3, StoredStep
<1>3. ASSUME NEW c \in Calls, calls'[c] = calls[c], calls'[c].st = "confirmed"
      PROVE  Held(calls'[c], Stored')
  BY <1>1, <1>2, <1>3, Zenon
<1>4. SUFFICES ASSUME NEW c \in Calls, calls'[c].st = "confirmed" PROVE Held(calls'[c], Stored')
  BY Zenon DEF Confirmed, Held
<1>5. CASE UNCHANGED calls
  BY <1>3, <1>4, <1>5, Zenon
<1>6. ASSUME NEW d \in Calls, CallTurn(d) PROVE Held(calls'[c], Stored')
  <2>1. PICK st \in {"preflight", "confirmed", "uncertain", "unchanged"} :
          /\ calls' = [calls EXCEPT ![d].st = st]
          /\ st = "confirmed" => calls[d].st = "barrier" /\ need = 0
    BY <1>6, Zenon DEF CallTurn
  <2>2. /\ calls'[d].st = st /\ calls'[d].op = calls[d].op /\ calls'[d].ids = calls[d].ids
        /\ \A e \in Calls \ {d} : calls'[e] = calls[e]
    BY <1>1, <2>1, CallView
  <2>3. CASE c = d
    <3>1. calls[c].st = "barrier" /\ need = 0
      BY <1>4, <2>1, <2>2, <2>3, Zenon
    <3>2. need + 1 = 1
      BY <3>1
    <3>3. Held(calls[c], Stored)
      BY <3>1, <3>2, Zenon DEF IInv, Awaited, Stored
    <3>4. Held(calls[c], Stored')
      BY <1>1, <1>2, <3>3, Zenon
    <3> QED
      BY <2>2, <2>3, <3>4, Zenon DEF Held
  <2>4. CASE c # d
    BY <1>3, <1>4, <2>2, <2>4, Zenon
  <2> QED
    BY <2>3, <2>4
<1>7. ASSUME NEW d \in Calls, CallStarts(d) PROVE Held(calls'[c], Stored')
  <2>1. PICK op \in {"create", "delete", "list", "stop"}, ids \in SUBSET Ids :
          calls' = [calls EXCEPT ![d] = [st |-> "queued", op |-> op, ids |-> ids]]
    BY <1>7, Zenon DEF CallStarts
  <2>2. calls'[d] = [st |-> "queued", op |-> op, ids |-> ids]
        /\ \A e \in Calls \ {d} : calls'[e] = calls[e]
    BY <1>1, <2>1, Zenon
  <2>3. calls'[d].st # "confirmed"
    BY <2>2
  <2> QED
    BY <1>3, <1>4, <2>2, <2>3, Zenon
<1>8. ASSUME NEW d \in Calls, Appending(d) PROVE Held(calls'[c], Stored')
  <2>1. PICK ids \in SUBSET Ids : calls' = [calls EXCEPT ![d].st = "barrier", ![d].ids = ids]
    BY <1>8, Zenon DEF Appending
  <2>2. calls'[d].st = "barrier" /\ \A e \in Calls \ {d} : calls'[e] = calls[e]
    BY <1>1, <2>1, AppendingView
  <2>3. c # d
    BY <1>4, <2>2
  <2> QED
    BY <1>3, <1>4, <2>2, <2>3, Zenon
<1>9. CASE Crash
  <2>1. calls'[c] = IF InFlight(c) THEN [calls[c] EXCEPT !.st = "lost"] ELSE calls[c]
    BY <1>9, Zenon DEF Crash
  <2>2. [calls[c] EXCEPT !.st = "lost"].st = "lost"
    BY <1>1, SMTT(30) DEF Call
  <2>3. calls'[c] = calls[c]
    BY <1>4, <2>1, <2>2
  <2> QED
    BY <1>3, <1>4, <2>3, Zenon
<1> QED
  BY <1>5, <1>6, <1>7, <1>8, <1>9, Zenon
     DEF Effect, Quiet, DriveTurn, Delivers, Save, Resume
-------------------------------------------------------------------------------
(* The parts that are about the runtime *)

Settling == {"declined", "looping", "settled", "none"}
Driving == {"queued", "preflight", "delivered", "barrier"}

\* A runtime that is up and has no fault was so before, unless it is a new one.
RuntimeGoes ==
    /\ runtime' \in Runtime /\ Halted' /\ Covered'
    /\ Resume \/ runtime'.life = "down" \/ runtime'.faulted
       \/ (runtime.life # "down" /\ ~runtime.faulted)

LEMMA AskedGoes ==
    ASSUME NEW rt \in Runtime, rt.life = runtime.life, rt.faulted = runtime.faulted,
           rt.faulted => rt.run \in Settling,
           runtime' = Asked(rt)
    PROVE  RuntimeGoes
<1>1. /\ runtime' \in Runtime
      /\ runtime'.life = rt.life /\ runtime'.faulted = rt.faulted
      /\ rt.faulted => runtime' = rt
      /\ Drivable(rt) => runtime'.requested \/ runtime'.run = "queued"
  BY AskedView, Zenon
<1>2. Halted'
  BY <1>1, Zenon DEF Halted, Settling
<1>3. Drivable(runtime)' => Drivable(rt)
  BY <1>1, Zenon DEF Drivable
<1>4. Covered'
  BY <1>1, <1>3 DEF Covered
<1> QED
  BY <1>1, <1>2, <1>4, Zenon DEF RuntimeGoes

LEMMA RunGoes ==
    ASSUME NEW rt \in Runtime, rt.life = runtime.life, runtime.faulted => rt.faulted,
           NEW v \in Runs, rt.faulted => v \in Settling,
           runtime' = [rt EXCEPT !.run = v],
           \/ rt.requested \/ rt.idleWait \/ rt.failed \/ v \in Driving \/ ~Drivable(rt)
           \/ Covered'
    PROVE  RuntimeGoes
<1>1. /\ runtime' \in Runtime /\ runtime'.run = v
      /\ runtime'.life = rt.life /\ runtime'.faulted = rt.faulted
      /\ runtime'.requested = rt.requested /\ runtime'.idleWait = rt.idleWait
      /\ runtime'.failed = rt.failed
  BY RunSet, Zenon
<1>2. Halted'
  BY <1>1, Zenon DEF Halted, Settling
<1>3. Drivable(runtime)' => Drivable(rt)
  BY <1>1, Zenon DEF Drivable
<1>4. Covered'
  BY <1>1, <1>3 DEF Covered, Driving
<1> QED
  BY <1>1, <1>2, <1>4, Zenon DEF RuntimeGoes

LEMMA StaysGoes ==
    ASSUME IInv, UNCHANGED runtime, Live' = Live,
           agent.phase = "running" => agent'.phase = "running"
    PROVE  RuntimeGoes
<1>1. runtime \in Runtime /\ Halted /\ Covered
  BY DEF IInv, Types
<1>2. Active' = Active
  BY DEF Active
<1>3. Covered'
  BY <1>1, <1>2, Zenon DEF Covered, Drivable
<1> QED
  BY <1>1, <1>3, Zenon DEF RuntimeGoes, Halted

\* The run retires from a stage that covers nothing by itself.
LEMMA CarryGoes ==
    ASSUME IInv, NEW v \in Settling, runtime' = [runtime EXCEPT !.run = v],
           runtime.run \notin Driving, Live' = Live,
           agent.phase = "running" => agent'.phase = "running"
    PROVE  RuntimeGoes
<1>1. runtime \in Runtime /\ Covered
  BY DEF IInv, Types
<1>2. Active' = Active
  BY DEF Active
<1>3. v \in Runs
  BY DEF Runs, Settling
<1>4. /\ runtime'.life = runtime.life /\ runtime'.faulted = runtime.faulted
      /\ runtime'.requested = runtime.requested /\ runtime'.idleWait = runtime.idleWait
      /\ runtime'.failed = runtime.failed /\ runtime'.timer = runtime.timer
  BY <1>1, <1>3, RunSet, Zenon
<1>5. Covered'
  BY <1>1, <1>2, <1>4, Zenon DEF Covered, Drivable, Driving
<1> QED
  BY <1>1, <1>3, <1>5, RunGoes, Zenon

LEMMA RuntimeStep ==
    ASSUME IInv, Next
    PROVE  RuntimeGoes
<1> runtime \in Runtime /\ LogNow /\ Types /\ Covered /\ (runtime.faulted => runtime.run \in Settling)
  BY Zenon DEF IInv, Types, Halted, Settling
<1>0. /\ Off \in Nat /\ TRUE \in BOOLEAN /\ FALSE \in BOOLEAN
      /\ "looping" \in Runs \cap Settling /\ "declined" \in Runs \cap Settling
      /\ "none" \in Runs \cap Settling /\ "settled" \in Runs \cap Settling
      /\ Driving \subseteq Runs /\ Driving \cap Settling = {}
  BY DEF Off, Runs, Settling, Driving
<1>1. log' = log => Live' = Live
  BY DEF Live
<1>2. CASE RequestDrive
  BY <1>2, AskedGoes, Zenon DEF RequestDrive
<1>3. CASE Enter
  <2>1. runtime.run = "queued" /\ ~runtime.faulted
    BY <1>3, Zenon DEF Enter, Drives, Settling
  <2>2. CASE runtime.life = "live"
    <3> DEFINE rt == [runtime EXCEPT !.run = "preflight"]
    <3>1. /\ rt \in Runtime /\ rt.run = "preflight" /\ rt.life = runtime.life
          /\ rt.faulted = runtime.faulted
      BY RunSet DEF Runs
    <3>2. runtime' = [rt EXCEPT !.timer = Off]
      BY <1>3, <2>2, Zenon DEF Enter
    <3> HIDE DEF rt
    <3>3. /\ runtime' \in Runtime /\ runtime'.run = "preflight" /\ runtime'.life = runtime.life
          /\ ~runtime'.faulted
      BY <1>0, <2>1, <3>1, <3>2, TimerSet, Zenon
    <3>4. Covered'
      BY <3>3, Zenon DEF Covered
    <3> QED
      BY <2>1, <2>2, <3>3, <3>4 DEF RuntimeGoes, Halted
  <2>3. CASE runtime.life # "live"
    <3> DEFINE rt == [runtime EXCEPT !.timer = Off]
    <3>1. rt \in Runtime /\ rt.life = runtime.life /\ rt.faulted = runtime.faulted
      BY <1>0, TimerSet, Zenon
    <3>2. runtime' = [rt EXCEPT !.run = "looping"]
      BY <1>3, <2>3, Zenon DEF Enter, Leaves
    <3> HIDE DEF rt
    <3>3. ~Drivable(rt)
      BY <2>3, <3>1, Zenon DEF Drivable
    <3> QED
      BY <1>0, <3>1, <3>2, <3>3, RunGoes
  <2> QED
    BY <2>2, <2>3
<1>4. CASE DriveFails
  <2> DEFINE rt == [runtime EXCEPT !.failed = TRUE]
  <2>1. rt \in Runtime /\ rt.life = runtime.life /\ rt.faulted = runtime.faulted /\ rt.failed
    BY <1>0, FailedSet
  <2>2. runtime' = [rt EXCEPT !.run = "looping"]
    BY <1>4, Zenon DEF DriveFails, Leaves
  <2> HIDE DEF rt
  <2> QED
    BY <1>0, <2>1, <2>2, RunGoes
<1>5. CASE Stopped
  <2>1. runtime' = [runtime EXCEPT !.run = "looping"] /\ ~Drivable(runtime)
    BY <1>5, Zenon DEF Stopped, Leaves, Drivable
  <2> QED
    BY <1>0, <2>1, RunGoes
<1>6. CASE Arm
  <2>1. CASE Active = {} /\ Leaves(runtime)
    <3>1. runtime' = [runtime EXCEPT !.run = "looping"]
      BY <2>1, Zenon DEF Leaves
    <3>2. Active' = {}
      BY <1>1, <1>6, <2>1, Zenon DEF Active, Arm
    <3>3. Covered'
      BY <3>2, Zenon DEF Covered
    <3> QED
      BY <1>0, <3>1, <3>3, RunGoes
  <2>2. ASSUME NEW r \in Active, \A q \in Active : Live[r].at <= Live[q].at,
               Leaves([runtime EXCEPT !.timer = Earlier(Live[r].at, clock + MaxDelay)])
        PROVE  RuntimeGoes
    <3> DEFINE t == Earlier(Live[r].at, clock + MaxDelay)
               rt == [runtime EXCEPT !.timer = t]
    <3>1. t \in Nat /\ t > 0 /\ t <= Live[r].at
      <4>1. Live[r].at \in Nat /\ Live[r].at > 0
        BY LogFacts DEF Active, Good
      <4>2. clock + MaxDelay \in Nat /\ clock + MaxDelay > 0
        BY LogFacts, BoundAssumption
      <4> QED
        BY <4>1, <4>2 DEF Earlier
    <3>2. \A q \in Active : t <= Live[q].at
      <4>1. \A q \in Active : Live[q].at \in Nat
        BY LogFacts DEF Active
      <4> QED
        BY <2>2, <3>1, <4>1
    <3> HIDE DEF t
    <3>3. rt \in Runtime /\ rt.life = runtime.life /\ rt.faulted = runtime.faulted /\ rt.timer = t
      BY <3>1, TimerSet, Zenon
    <3>4. runtime' = [rt EXCEPT !.run = "looping"]
      BY <2>2, Zenon DEF Leaves, t
    <3> HIDE DEF rt
    <3>5. runtime'.timer = t
      BY <1>0, <3>3, <3>4, RunSet
    <3>6. Active' = Active /\ Live' = Live
      BY <1>1, <1>6, Zenon DEF Active, Arm
    <3>7. Covered'
      BY <3>1, <3>2, <3>5, <3>6 DEF Covered, Off
    <3> QED
      BY <1>0, <3>3, <3>4, <3>7, RunGoes
  <2> QED
    BY <1>6, <2>1, <2>2, Zenon DEF Arm
<1>7. CASE Busy
  <2> DEFINE rt == [runtime EXCEPT !.idleWait = TRUE]
  <2>1. rt \in Runtime /\ rt.life = runtime.life /\ rt.faulted = runtime.faulted /\ rt.idleWait
    BY <1>0, IdleWaitSet
  <2>2. runtime' = [rt EXCEPT !.run = "looping"]
    BY <1>7, Zenon DEF Busy, Leaves
  <2> HIDE DEF rt
  <2> QED
    BY <1>0, <2>1, <2>2, RunGoes
<1>8. CASE Deliver
  <2>1. runtime.run = "preflight" /\ runtime' = [runtime EXCEPT !.run = "delivered"]
    BY <1>8, Zenon DEF Deliver, Claims, Preflighted, Drives
  <2>2. "delivered" \in Driving /\ "delivered" \in Runs /\ ~runtime.faulted
    BY <2>1 DEF Driving, Settling, Runs
  <2> QED
    BY <2>1, <2>2, RunGoes
<1>9. CASE FollowupFails
  <2> DEFINE rt == [runtime EXCEPT !.failed = TRUE]
  <2>1. rt \in Runtime /\ rt.life = runtime.life /\ rt.faulted = runtime.faulted /\ rt.failed
    BY <1>0, FailedSet
  <2>2. runtime' = [rt EXCEPT !.run = "declined"]
    BY <1>9, Zenon DEF FollowupFails, Claims
  <2> HIDE DEF rt
  <2> QED
    BY <1>0, <2>1, <2>2, RunGoes
<1>10. CASE AppendFails
  <2> DEFINE rt == Faulted(runtime)
  <2>1. rt \in Runtime /\ rt.faulted
    BY FaultedView
  <2>2. rt.life = runtime.life
    BY SMTT(30) DEF Faulted, Runtime
  <2>3. runtime' = [rt EXCEPT !.run = "declined"]
    BY <1>10, Zenon DEF AppendFails, Claims
  <2> HIDE DEF rt
  <2>4. ~Drivable(rt)
    BY <2>1, Zenon DEF Drivable
  <2> QED
    BY <1>0, <2>1, <2>2, <2>3, <2>4, RunGoes
<1>11. CASE Release
  <2>1. CASE Drives("delivered") /\ runtime' = [runtime EXCEPT !.run = "barrier"]
    <3>1. "barrier" \in Driving /\ "barrier" \in Runs /\ ~runtime.faulted
      BY <2>1 DEF Driving, Settling, Runs, Drives
    <3> QED
      BY <2>1, <3>1, RunGoes
  <2>2. CASE Drives("declined") /\ Leaves(runtime)
    <3>1. runtime' = [runtime EXCEPT !.run = "looping"] /\ runtime.run \notin Driving
      BY <2>2 DEF Leaves, Drives, Driving
    <3>2. Live' = Live /\ agent.phase # "running"
      BY <1>1, <1>11 DEF Release
    <3> QED
      BY <1>0, <3>1, <3>2, CarryGoes
  <2> QED
    BY <1>11, <2>1, <2>2 DEF Release
<1>12. CASE Barrier
  <2> DEFINE rt == Asked(runtime)
  <2>1. /\ rt \in Runtime /\ rt.life = runtime.life /\ rt.faulted = runtime.faulted
        /\ rt.run = runtime.run \/ runtime.run = "none"
        /\ Drivable(runtime) => rt.requested \/ rt.run = "queued"
    BY AskedView, Zenon
  <2>2. runtime' = [rt EXCEPT !.run = "looping"] /\ runtime.run = "barrier"
    BY <1>12, Zenon DEF Barrier, Leaves, Drives
  <2> HIDE DEF rt
  <2>3. rt.requested \/ ~Drivable(rt)
    BY <2>1, <2>2 DEF Drivable
  <2> QED
    BY <1>0, <2>1, <2>2, <2>3, RunGoes
<1>13. CASE Loop
  <2>1. CASE runtime.requested /\ Drivable(runtime)
    <3> DEFINE a == [runtime EXCEPT !.run = "queued"]
               b == [a EXCEPT !.requested = FALSE]
    <3>1. a \in Runtime /\ a.run = "queued" /\ a.life = runtime.life /\ a.faulted = runtime.faulted
      BY RunSet DEF Runs
    <3>2. runtime' = [b EXCEPT !.failed = FALSE]
      BY <1>13, <2>1, Zenon DEF Loop
    <3> HIDE DEF a
    <3>3. b \in Runtime /\ b.run = "queued" /\ b.life = runtime.life /\ b.faulted = runtime.faulted
      BY <1>0, <3>1, RequestedSet, Zenon
    <3> HIDE DEF b
    <3>4. /\ runtime' \in Runtime /\ runtime'.run = "queued" /\ runtime'.life = runtime.life
          /\ runtime'.faulted = runtime.faulted
      BY <1>0, <3>2, <3>3, FailedSet, Zenon
    <3>5. Covered'
      BY <3>4, Zenon DEF Covered
    <3> QED
      BY <2>1, <3>4, <3>5, Zenon DEF RuntimeGoes, Halted, Drivable
  <2>2. CASE ~(runtime.requested /\ Drivable(runtime))
    <3>1. runtime' = [runtime EXCEPT !.run = "settled"] /\ runtime.run = "looping"
      BY <1>13, <2>2, Zenon DEF Loop
    <3>2. Live' = Live /\ agent' = agent /\ runtime.run \notin Driving
      BY <1>1, <1>13, <3>1 DEF Loop, Driving
    <3> QED
      BY <1>0, <3>1, <3>2, CarryGoes
  <2> QED
    BY <2>1, <2>2
<1>14. CASE Retire
  <2> DEFINE retired == [runtime EXCEPT !.run = "none"]
  <2>1. /\ retired \in Runtime /\ retired.run = "none" /\ retired.life = runtime.life
        /\ retired.faulted = runtime.faulted
    BY <1>0, RunSet
  <2>2. CASE runtime' = Asked(retired)
    BY <1>0, <2>1, <2>2, AskedGoes
  <2>3. CASE runtime' = retired
    <3>1. Live' = Live /\ agent' = agent /\ runtime.run \notin Driving
      BY <1>1, <1>14 DEF Retire, Driving
    <3> QED
      BY <1>0, <2>3, <3>1, CarryGoes
  <2> QED
    BY <1>14, <2>2, <2>3, Zenon DEF Retire
<1>15. CASE Fire
  BY <1>2, <1>15 DEF Fire
<1>16. CASE IdleHeard
  <2> DEFINE heard == [runtime EXCEPT !.idleWait = FALSE]
  <2>1. /\ heard \in Runtime /\ heard.run = runtime.run /\ heard.life = runtime.life
        /\ heard.faulted = runtime.faulted
    BY <1>0, IdleWaitSet
  <2>2. runtime' = Asked(heard)
    BY <1>16, Zenon DEF IdleHeard
  <2> HIDE DEF heard
  <2> QED
    BY <2>1, <2>2, AskedGoes
<1>17. ASSUME NEW c \in Calls,
              Begin(c) \/ CallFails(c) \/ Look(c) \/ Create(c) \/ Delete(c) \/ Stop(c) \/ Confirm(c)
       PROVE  RuntimeGoes
  <2>1. runtime' = Asked(runtime) \/ (UNCHANGED <<runtime, log, agent>>)
    BY <1>17, Zenon
       DEF Begin, CallFails, Look, Create, Delete, Stop, Confirm, RequestDrive
  <2>2. CASE runtime' = Asked(runtime)
    BY <2>2, AskedGoes
  <2>3. CASE UNCHANGED <<runtime, log, agent>>
    BY <1>1, <2>3, StaysGoes
  <2> QED
    BY <2>1, <2>2, <2>3
<1>18. CASE Requests \/ EndMaintenance \/ Cancel \/ Tick
  <2>1. /\ UNCHANGED <<runtime, log>>
        /\ agent.phase = "running" => agent' = agent
    BY <1>18 DEF Requests, StartOther, Ask, EndMaintenance, Cancel, Tick
  <2> QED
    BY <1>1, <2>1, StaysGoes
<1>19. CASE Save
  <2>1. Live' = Live
    <3>1. Len(log) > 1 /\ log' = Tail(log) /\ log \in Seq(Folds) /\ Len(log) \in Nat
      BY <1>19, LogFacts DEF Save
    <3>2. log'[Len(log')] = log[Len(log)]
      BY <3>1
    <3> QED
      BY <3>2 DEF Live
  <2> QED
    BY <1>19, <2>1, StaysGoes DEF Save
<1>20. CASE EndTurn
  <2>1. CASE ~(\E r \in Ids : Live[r].st # "absent")
    <3>1. Active' = {}
      BY <1>1, <1>20, <2>1 DEF Active, EndTurn
    <3>2. runtime' = runtime /\ Covered'
      BY <1>20, <2>1, <3>1, Zenon DEF Covered, EndTurn
    <3> QED
      BY <3>2, Zenon DEF RuntimeGoes, Halted, IInv
  <2> QED
    BY <1>2, <1>20, <2>1, Zenon DEF EndTurn
<1>21. CASE Dispose
  <2> DEFINE a == [runtime EXCEPT !.life = "disposing"]
             b == [a EXCEPT !.requested = FALSE]
             d == [b EXCEPT !.timer = Off]
  <2>1. a \in Runtime /\ a.run = runtime.run /\ a.life = "disposing" /\ a.faulted = runtime.faulted
    BY SMTT(30) DEF Runtime
  <2>2. runtime' = [d EXCEPT !.idleWait = FALSE] /\ runtime.life = "live"
    BY <1>21, Zenon DEF Dispose
  <2> HIDE DEF a
  <2>3. b \in Runtime /\ b.run = runtime.run /\ b.life = "disposing" /\ b.faulted = runtime.faulted
    BY <1>0, <2>1, RequestedSet, Zenon
  <2> HIDE DEF b
  <2>4. d \in Runtime /\ d.run = runtime.run /\ d.life = "disposing" /\ d.faulted = runtime.faulted
    <3>1. b \in Runtime /\ Off \in Nat
      BY <1>0, <2>3
    <3>2. d \in Runtime /\ d.life = b.life /\ d.faulted = b.faulted /\ d.run = b.run
      BY <3>1, TimerSet, Zenon
    <3> QED
      BY <2>3, <3>2, Zenon
  <2> HIDE DEF d
  <2>5. /\ runtime' \in Runtime /\ runtime'.run = runtime.run /\ runtime'.life = "disposing"
        /\ runtime'.faulted = runtime.faulted
    BY <1>0, <2>2, <2>4, IdleWaitSet, Zenon
  <2>6. Covered'
    BY <2>5 DEF Covered, Drivable
  <2> QED
    BY <2>2, <2>5, <2>6 DEF RuntimeGoes, Halted, Settling
<1>22. CASE Disposed \/ Crash
  <2>1. Down \in Runtime /\ Down.life = "down" /\ ~Down.faulted
    BY DEF Down, Started, Runtime, Off
  <2>2. runtime' = Down
    BY <1>22, Zenon DEF Disposed, Crash
  <2>3. Covered'
    BY <2>1, <2>2 DEF Covered, Drivable
  <2> QED
    BY <2>1, <2>2, <2>3, Zenon DEF RuntimeGoes, Halted
<1>23. CASE Resume
  <2>1. Started \in Runtime /\ Started.run = "queued" /\ ~Started.faulted
    BY DEF Started, Runtime, Off
  <2>2. runtime' = Started
    BY <1>23, Zenon DEF Resume
  <2>3. Covered'
    BY <2>1, <2>2, Zenon DEF Covered
  <2> QED
    BY <1>23, <2>1, <2>2, <2>3, Zenon DEF RuntimeGoes, Halted
<1> QED
  BY <1>3, <1>4, <1>5, <1>6, <1>7, <1>8, <1>9, <1>10, <1>11, <1>12, <1>13, <1>14, <1>15,
     <1>16, <1>17, <1>18, <1>19, <1>20, <1>21, <1>22, <1>23, Zenon DEF Next, Transaction
LEMMA FreshStep ==
    ASSUME IInv, Effect, RuntimeGoes
    PROVE  Fresh'
<1> SUFFICES ASSUME runtime'.life # "down", ~runtime'.faulted,
                    NEW r \in Ids, Live'[r].st = "active"
             PROVE  Live'[r].told < lives'
  BY Zenon DEF Fresh
<1>1. /\ log \in Seq(Folds) /\ Len(log) \in Nat \ {0} /\ lives \in Nat \ {0} /\ Good(Stored, lives)
      /\ \A q \in Ids : Live[q].told \in Nat
  BY LogFacts DEF IInv
<1>2. CASE Resume
  <2>1. log' = <<Stored>> /\ lives' = lives + 1
    BY <1>2 DEF Resume
  <2>2. Live' = Stored
    BY <2>1 DEF Live
  <2>3. Stored[r].told \in Nat /\ Stored[r].told <= lives
    BY <1>1 DEF Good, Folds, Record
  <2> QED
    BY <1>1, <2>1, <2>2, <2>3
<1>3. CASE ~Resume
  <2>1. \A q \in Ids : Live[q].st = "active" => Live[q].told < lives
    BY <1>3, Zenon DEF RuntimeGoes, IInv, Fresh
  <2>2. CASE Live' = Live /\ lives' = lives
    BY <2>1, <2>2, Zenon
  <2>3. CASE Save
    <3>1. Len(log) > 1 /\ log' = Tail(log) /\ lives' = lives
      BY <2>3 DEF Save
    <3>2. log'[Len(log')] = log[Len(log)]
      BY <1>1, <3>1
    <3> QED
      BY <2>2, <3>1, <3>2 DEF Live
  <2>4. CASE Delivers
    BY <2>4, Zenon DEF Delivers, Grows
  <2>5. ASSUME NEW c \in Calls, Appending(c) PROVE Live'[r].told < lives'
    <3>1. lives' = lives /\ Len(log) <= Len(log') /\ log' \in Seq(Folds) /\ LogSound(log', lives)
      BY <2>5 DEF Appending, Grows, LogSound
    <3>2. CASE Len(log') = Len(log)
      <4>1. Len(log) \in 1 .. Len(log)
        BY <1>1
      <4>2. Live' = Live
        BY <2>5, <3>2, <4>1, Zenon DEF Appending, Grows, Live
      <4> QED
        BY <2>2, <3>1, <4>2
    <3>3. CASE Len(log') # Len(log)
      <4>1. Len(log') \in Len(log) + 1 .. Len(log') /\ Len(log') \in 1 .. Len(log')
        BY <1>1, <3>1, <3>3
      <4>2. Live'[r].told <= Live[r].told /\ (Live[r].st = "active" \/ Live'[r].told = 0)
        BY <2>5, <4>1, Zenon DEF Appending, Live
      <4>3. Live'[r].told \in Nat
        BY <3>1, <4>1 DEF Live, Folds, Record
      <4> QED
        BY <1>1, <2>1, <3>1, <4>2, <4>3
    <3> QED
      BY <3>2, <3>3
  <2>6. CASE UNCHANGED <<log, lives>>
    BY <2>2, <2>6 DEF Live
  <2>7. ~Crash
    <3>1. Down.life = "down"
      BY DEF Down
    <3> QED
      BY <3>1, Zenon DEF Crash
  <2> QED
    BY <1>3, <2>3, <2>4, <2>5, <2>6, <2>7, Zenon DEF Effect, Quiet, DriveTurn, CallTurn, CallStarts
<1> QED
  BY <1>2, <1>3

LEMMA TypesStep ==
    ASSUME IInv, Next, Effect, RuntimeGoes
    PROVE  Types'
<1>1. /\ clock \in 0 .. Horizon /\ lives \in 1 .. Lives /\ clock \in Nat /\ lives \in Nat
      /\ agent \in Agent /\ calls \in [Calls -> Call] /\ runtime' \in Runtime
  BY LogFacts DEF IInv, Types, RuntimeGoes
<1>2. clock' \in 0 .. Horizon
  <2>1. clock' = clock \/ (clock < Horizon /\ clock' = clock + 1)
    BY Zenon DEF Next, Transaction, Requests, Save, Enter, DriveFails, Stopped, Arm, Busy, Claims,
       Deliver, FollowupFails, AppendFails, Release, Barrier, Begin, CallFails, Look, Create,
       Delete, Stop, Confirm, Appends, Loop, Retire, Fire, IdleHeard, StartOther, Ask, EndTurn,
       EndMaintenance, Cancel, Tick, Dispose, Disposed, Crash, Resume
  <2> QED
    BY <1>1, <2>1, BoundAssumption
<1>3. lives' \in 1 .. Lives
  <2>1. lives' = lives \/ (lives < Lives /\ lives' = lives + 1)
    BY Zenon DEF Effect, Quiet, DriveTurn, Delivers, Grows, Save, Crash, Resume, CallTurn,
       CallStarts, Appending
  <2> QED
    BY <1>1, <2>1, BoundAssumption
<1>4. agent' \in Agent
  <2>1. ASSUME NEW a \in Agent, NEW phase \in {"idle", "running", "other", "ours"}
        PROVE  [a EXCEPT !.phase = phase] \in Agent
    BY SMTT(30) DEF Agent
  <2>2. ASSUME NEW a \in Agent, NEW woken \in BOOLEAN PROVE [a EXCEPT !.woken = woken] \in Agent
    BY Zenon DEF Agent
  <2>3. ASSUME NEW a \in Agent, a.spent < Turns PROVE [a EXCEPT !.spent = @ + 1] \in Agent
    <3>1. a.spent + 1 \in 0 .. Turns
      BY <2>3, BoundAssumption DEF Agent
    <3> QED
      BY <3>1, SMTT(30) DEF Agent
  <2>4. ASSUME NEW phase \in {"idle", "running", "other", "ours"}, NEW woken \in BOOLEAN
        PROVE  [agent EXCEPT !.phase = phase, !.woken = woken] \in Agent
    <3> DEFINE a == [agent EXCEPT !.phase = phase]
    <3>1. a \in Agent
      BY <1>1, <2>1
    <3>2. [agent EXCEPT !.phase = phase, !.woken = woken] = [a EXCEPT !.woken = woken]
      BY Zenon
    <3> HIDE DEF a
    <3> QED
      BY <2>2, <3>1, <3>2, Zenon
  <2>5. ASSUME NEW stage, NEW told \in BOOLEAN, NEW rt, Claims(stage, told, rt)
        PROVE  agent' \in Agent
    BY <2>4, <2>5 DEF Claims
  <2>6. CASE Deliver \/ FollowupFails \/ AppendFails
    BY <2>5, <2>6 DEF Deliver, FollowupFails, AppendFails
  <2>7. CASE Release
    <3>1. (IF agent.woken THEN "running" ELSE "idle") \in {"idle", "running", "other", "ours"}
      OBVIOUS
    <3> QED
      BY <2>4, <2>7, <3>1 DEF Release
  <2>8. ASSUME NEW phase \in {"running", "other"}, StartOther(phase)
        PROVE  agent' \in Agent
    <3> DEFINE a == [agent EXCEPT !.phase = phase]
    <3>1. a \in Agent
      BY <1>1, <2>1
    <3>2. a.spent = agent.spent
      BY <1>1, SMTT(30) DEF Agent
    <3>3. agent' = [a EXCEPT !.spent = @ + 1] /\ agent.spent < Turns
      BY <2>8, Zenon DEF StartOther
    <3> HIDE DEF a
    <3> QED
      BY <2>3, <3>1, <3>2, <3>3
  <2>9. CASE EndTurn \/ EndMaintenance
    BY <1>1, <2>1, <2>9 DEF EndTurn, EndMaintenance
  <2>10. CASE Cancel
    BY <1>1, <2>2, <2>10 DEF Cancel
  <2>11. CASE Crash
    BY <2>4, <2>11 DEF Crash
  <2>12. CASE UNCHANGED agent
    BY <1>1, <2>12
  <2> QED
    BY <2>6, <2>7, <2>8, <2>9, <2>10, <2>11, <2>12, Zenon
       DEF Next, Transaction, Requests, Save, Enter, DriveFails, Stopped, Arm, Busy,
       Barrier, Begin, CallFails, Look, Create, Delete, Stop, Confirm, Appends, Loop, Retire,
       Fire, IdleHeard, Ask, Tick, Dispose, Disposed, Resume
<1>5. calls' \in [Calls -> Call]
  <2>1. ASSUME NEW c \in Calls, NEW call \in Call, calls' = [calls EXCEPT ![c] = call]
        PROVE  calls' \in [Calls -> Call]
    BY <1>1, <2>1, Zenon
  <2>2. ASSUME NEW c \in Calls,
               NEW st \in {"preflight", "confirmed", "uncertain", "unchanged", "lost"}
        PROVE  [calls[c] EXCEPT !.st = st] \in Call
    BY <1>1, SMTT(30) DEF Call
  <2>3. ASSUME NEW c \in Calls, CallTurn(c) PROVE calls' \in [Calls -> Call]
    <3>1. PICK st \in {"preflight", "confirmed", "uncertain", "unchanged"} :
            calls' = [calls EXCEPT ![c].st = st]
      BY <2>3, Zenon DEF CallTurn
    <3>2. calls' = [calls EXCEPT ![c] = [calls[c] EXCEPT !.st = st]]
      BY <1>1, <3>1, Zenon
    <3>3. [calls[c] EXCEPT !.st = st] \in Call
      BY <2>2
    <3> QED
      BY <1>1, <3>2, <3>3, Zenon
  <2>4. ASSUME NEW c \in Calls, CallStarts(c) PROVE calls' \in [Calls -> Call]
    <3>1. PICK op \in {"create", "delete", "list", "stop"}, ids \in SUBSET Ids :
            calls' = [calls EXCEPT ![c] = [st |-> "queued", op |-> op, ids |-> ids]]
      BY <2>4, Zenon DEF CallStarts
    <3>2. [st |-> "queued", op |-> op, ids |-> ids] \in Call
      BY DEF Call
    <3> QED
      BY <1>1, <3>1, <3>2, Zenon
  <2>5. ASSUME NEW c \in Calls, Appending(c) PROVE calls' \in [Calls -> Call]
    <3>1. PICK ids \in SUBSET Ids : calls' = [calls EXCEPT ![c].st = "barrier", ![c].ids = ids]
      BY <2>5, Zenon DEF Appending
    <3>2. calls'[c] \in Call /\ \A d \in Calls \ {c} : calls'[d] = calls[d]
      BY <3>1, AppendingView DEF IInv
    <3>3. calls' = [d \in Calls |-> calls'[d]]
      BY <1>1, <3>1, Zenon
    <3>4. \A d \in Calls : calls'[d] \in Call
      BY <1>1, <3>2, Zenon
    <3> QED
      BY <3>3, <3>4, Zenon
  <2>6. CASE Crash
    <3>1. \A c \in Calls : (IF InFlight(c) THEN [calls[c] EXCEPT !.st = "lost"] ELSE calls[c]) \in Call
      BY <1>1, <2>2
    <3> QED
      BY <2>6, <3>1, Zenon DEF Crash
  <2>7. CASE UNCHANGED calls
    BY <1>1, <2>7
  <2> QED
    BY <2>3, <2>4, <2>5, <2>6, <2>7, Zenon
       DEF Effect, Quiet, DriveTurn, Delivers, Save, Resume
<1> QED
  BY <1>1, <1>2, <1>3, <1>4, <1>5, Zenon DEF Types
-------------------------------------------------------------------------------
(* The queue in a step *)

LEMMA QueueStep ==
    ASSUME IInv, Next, RuntimeGoes
    PROVE  QueueNow'
<1> runtime \in Runtime /\ Types /\ QueueOK(queue, runtime.run, calls) /\ calls \in [Calls -> Call]
  BY DEF IInv, Types, QueueNow
<1>0. runtime.run \in Runs /\ drive \notin Calls
  BY DriveAssumption, SMTT(30) DEF Runtime, Runs
<1>1. ASSUME UNCHANGED <<queue, calls>>,
             runtime.run \in Begun \cup {"queued"} => runtime'.run \in Begun \cup {"queued"},
             runtime'.run \in Begun => First(drive) \/ runtime.run \in Begun
      PROVE  QueueNow'
  BY <1>1, QueueStays, Zenon DEF QueueNow, First
<1>2. ASSUME NEW rt \in Runtime, First(drive), Leaves(rt), UNCHANGED calls PROVE QueueNow'
  <2>1. runtime'.run = "looping"
    BY <1>2, RunSet DEF Leaves, Runs
  <2>2. runtime'.run \notin Begun
    BY <2>1 DEF Begun
  <2>3. QueueOK(Tail(queue), runtime'.run, calls)
    BY <1>2, <2>2, QueuePops DEF First
  <2> QED
    BY <1>2, <2>3, Zenon DEF QueueNow, Leaves
<1>3. ASSUME RequestDrive PROVE QueueOK(queue', runtime'.run, calls)
  BY <1>3, QueueAsked, Zenon DEF RequestDrive
<1>4. CASE Enter
  <2>1. CASE runtime.life = "live"
    <3>1. runtime' = [runtime EXCEPT !.run = "preflight", !.timer = Off]
          /\ UNCHANGED <<queue, calls>> /\ First(drive)
      BY <1>4, <2>1, Zenon DEF Enter, Drives
    <3>2. runtime'.run = "preflight"
      BY <3>1, SMTT(30) DEF Runtime
    <3> QED
      BY <1>1, <3>1, <3>2 DEF Begun
  <2>2. CASE runtime.life # "live"
    <3>1. [runtime EXCEPT !.timer = Off] \in Runtime
      BY TimerSet DEF Off
    <3> QED
      BY <1>2, <1>4, <2>2, <3>1, Zenon DEF Enter, Drives
  <2> QED
    BY <2>1, <2>2
<1>5. CASE DriveFails
  <2>1. [runtime EXCEPT !.failed = TRUE] \in Runtime
    BY FailedSet
  <2> QED
    BY <1>2, <1>5, <2>1, Zenon DEF DriveFails, Drives
<1>6. CASE Stopped
  BY <1>2, <1>6, Zenon DEF Stopped, Drives
<1>7. CASE Arm
  <2>1. ASSUME NEW r \in Active
        PROVE  [runtime EXCEPT !.timer = Earlier(Live[r].at, clock + MaxDelay)] \in Runtime
    <3>1. Live[r].at \in Nat /\ clock + MaxDelay \in Nat
      BY LogFacts, BoundAssumption DEF Active, IInv
    <3>2. Earlier(Live[r].at, clock + MaxDelay) \in Nat
      BY <3>1, Zenon DEF Earlier
    <3> QED
      BY <3>2, TimerSet
  <2> QED
    BY <1>2, <1>7, <2>1, Zenon DEF Arm, Preflighted, Drives
<1>8. CASE Busy
  <2>1. [runtime EXCEPT !.idleWait = TRUE] \in Runtime
    BY IdleWaitSet
  <2> QED
    BY <1>2, <1>8, <2>1, Zenon DEF Busy, Preflighted, Drives
<1>9. CASE Barrier
  BY <1>2, <1>9, AskedView, Zenon DEF Barrier, Drives
<1>10. CASE Deliver \/ FollowupFails \/ AppendFails
  <2>1. PICK rt \in Runtime, stage \in {"delivered", "declined"} :
          runtime' = [rt EXCEPT !.run = stage]
    <3>1. [runtime EXCEPT !.failed = TRUE] \in Runtime /\ Faulted(runtime) \in Runtime
      BY FailedSet, FaultedView
    <3> QED
      BY <1>10, <3>1, Zenon DEF Deliver, FollowupFails, AppendFails, Claims
  <2>2. runtime'.run = stage
    BY <2>1, RunSet DEF Runs
  <2>3. First(drive) /\ UNCHANGED <<queue, calls>>
    BY <1>10, Zenon DEF Deliver, FollowupFails, AppendFails, Claims, Preflighted, Drives
  <2> QED
    BY <1>1, <2>2, <2>3 DEF Begun
<1>11. CASE Release
  <2>1. CASE Drives("delivered") /\ runtime' = [runtime EXCEPT !.run = "barrier"] /\ UNCHANGED queue
    <3>1. runtime'.run = "barrier"
      BY <2>1, RunSet DEF Runs
    <3> QED
      BY <1>1, <1>11, <2>1, <3>1 DEF Begun, Release, Drives
  <2>2. CASE Drives("declined") /\ Leaves(runtime)
    BY <1>2, <1>11, <2>2, Zenon DEF Release, Drives
  <2> QED
    BY <1>11, <2>1, <2>2, Zenon DEF Release
<1>12. CASE Loop
  <2>1. runtime.run \notin Begun \cup {"queued"}
    BY <1>12 DEF Loop, Begun
  <2>2. CASE runtime.requested /\ Drivable(runtime)
    <3>1. runtime' = [runtime EXCEPT !.run = "queued", !.requested = FALSE, !.failed = FALSE]
          /\ queue' = Append(queue, drive) /\ calls' = calls
      BY <1>12, <2>2, Zenon DEF Loop
    <3>2. runtime'.run = "queued"
      BY <3>1, SMTT(30) DEF Runtime
    <3>3. QueueOK(Append(queue, drive), "queued", calls)
      BY <2>1, QueueAdds, Zenon
    <3> QED
      BY <3>1, <3>2, <3>3, Zenon DEF QueueNow
  <2>3. CASE ~(runtime.requested /\ Drivable(runtime))
    <3>1. runtime' = [runtime EXCEPT !.run = "settled"] /\ UNCHANGED <<queue, calls>>
      BY <1>12, <2>3, Zenon DEF Loop
    <3>2. runtime'.run = "settled"
      BY <3>1, RunSet DEF Runs
    <3> QED
      BY <1>1, <2>1, <3>1, <3>2 DEF Begun
  <2> QED
    BY <2>2, <2>3
<1>13. CASE Retire
  <2> DEFINE retired == [runtime EXCEPT !.run = "none"]
  <2>1. retired \in Runtime /\ retired.run = "none"
    BY RunSet DEF Runs
  <2>2. runtime.run \notin Begun \cup {"queued"} /\ retired.run \notin Begun /\ calls' = calls
    BY <1>13, <2>1 DEF Retire, Begun
  <2>3. QueueOK(queue, retired.run, calls)
    BY <2>2, QueueStays, Zenon
  <2>4. \/ runtime' = Asked(retired) /\ queue' = LinedUp(retired, queue)
        \/ runtime' = retired /\ queue' = queue
    BY <1>13, Zenon DEF Retire
  <2> HIDE DEF retired
  <2>5. CASE runtime' = Asked(retired) /\ queue' = LinedUp(retired, queue)
    BY <2>1, <2>2, <2>3, <2>5, QueueAsked, Zenon DEF QueueNow
  <2>6. CASE runtime' = retired /\ queue' = queue
    BY <2>2, <2>3, <2>6, Zenon DEF QueueNow
  <2> QED
    BY <2>4, <2>5, <2>6
<1>14. CASE Fire
  BY <1>3, <1>14, Zenon DEF Fire, QueueNow
<1>15. CASE IdleHeard
  <2> DEFINE heard == [runtime EXCEPT !.idleWait = FALSE]
  <2>1. /\ heard \in Runtime /\ heard.run = runtime.run /\ heard.life = runtime.life
        /\ heard.faulted = runtime.faulted
    BY IdleWaitSet
  <2>2. runtime' = Asked(heard) /\ queue' = LinedUp(runtime, queue) /\ calls' = calls
    BY <1>15, Zenon DEF IdleHeard
  <2> HIDE DEF heard
  <2>3. LinedUp(runtime, queue) = LinedUp(heard, queue)
    BY <2>1, Zenon DEF LinedUp, Drivable
  <2>4. QueueOK(queue, heard.run, calls)
    BY <2>1, Zenon
  <2> QED
    BY <2>1, <2>2, <2>3, <2>4, QueueAsked, Zenon DEF QueueNow
<1>16. ASSUME NEW c \in Calls, First(c), queue' = Tail(queue), runtime' = runtime,
              NEW st \in {"confirmed", "uncertain", "unchanged"}, calls' = [calls EXCEPT ![c].st = st]
       PROVE  QueueNow'
  <2>1. calls'[c].st = st /\ \A d \in Calls \ {c} : calls'[d] = calls[d]
    BY <1>16, CallView
  <2>2. queue # <<>> /\ Head(queue) = c /\ c # drive
    BY <1>0, <1>16 DEF First
  <2>3. QueueOK(Tail(queue), runtime.run, calls')
    BY <1>16, <2>1, <2>2, QueuePops
  <2> QED
    BY <1>16, <2>3, Zenon DEF QueueNow
<1>17. ASSUME NEW c \in Calls, First(c), queue' = Tail(LinedUp(runtime, queue)),
              runtime' = Asked(runtime),
              NEW st \in {"confirmed", "uncertain", "unchanged"}, calls' = [calls EXCEPT ![c].st = st]
       PROVE  QueueNow'
  <2> DEFINE q == LinedUp(runtime, queue)
             run == Asked(runtime).run
  <2>1. calls'[c].st = st /\ \A d \in Calls \ {c} : calls'[d] = calls[d]
    BY <1>17, CallView
  <2>2. QueueOK(q, run, calls)
    BY QueueAsked, Zenon
  <2>3. q # <<>> /\ Head(q) = c /\ c # drive
    <3>1. queue \in Seq(Calls \cup {drive})
      BY DEF QueueOK
    <3> QED
      BY <1>0, <1>17, <3>1 DEF First, LinedUp
  <2> HIDE DEF q, run
  <2>4. QueueOK(Tail(q), run, calls')
    BY <1>17, <2>1, <2>2, <2>3, QueuePops
  <2> QED
    BY <1>17, <2>4, Zenon DEF QueueNow, q, run
<1>18. ASSUME NEW c \in Calls, Begin(c) PROVE QueueNow'
  <2>1. CASE calls' = [calls EXCEPT ![c].st = "preflight"] /\ UNCHANGED queue
    <3>1. calls'[c].st = "preflight" /\ \A d \in Calls \ {c} : calls'[d] = calls[d]
      BY <2>1, CallView
    <3>2. First(c) /\ runtime' = runtime
      BY <1>18 DEF Begin
    <3>3. \A d \in Calls : Waiting(calls[d].st) => Waiting(calls'[d].st)
      BY <3>1, Zenon DEF Waiting
    <3>4. \A d \in Calls : calls'[d].st \in {"preflight", "barrier"} =>
             calls[d].st \in {"preflight", "barrier"} \/ (queue # <<>> /\ Head(queue) = d)
      BY <3>1, <3>2, Zenon DEF First
    <3>5. runtime.run \in Begun => runtime.run \in Begun \/ (queue # <<>> /\ Head(queue) = drive)
      OBVIOUS
    <3>6. QueueOK(queue, runtime.run, calls')
      BY <3>3, <3>4, QueueStays, Zenon
    <3> QED
      BY <2>1, <3>2, <3>6, Zenon DEF QueueNow
  <2>2. CASE calls' = [calls EXCEPT ![c].st = "unchanged"] /\ queue' = Tail(queue)
    <3>1. First(c) /\ runtime' = runtime
      BY <1>18 DEF Begin
    <3> QED
      BY <1>16, <2>2, <3>1, Zenon
  <2> QED
    BY <1>18, <2>1, <2>2, Zenon DEF Begin
<1>19. ASSUME NEW c \in Calls, CallFails(c) PROVE QueueNow'
  <2>1. /\ First(c) /\ queue' = Tail(queue) /\ runtime' = runtime
        /\ calls' = [calls EXCEPT ![c].st = "uncertain"]
    BY <1>19, Zenon DEF CallFails, Answers
  <2> QED
    BY <1>16, <2>1, Zenon
<1>20. ASSUME NEW c \in Calls, Look(c) PROVE QueueNow'
  <2>1. /\ First(c) /\ queue' = Tail(LinedUp(runtime, queue)) /\ runtime' = Asked(runtime)
        /\ calls' = [calls EXCEPT ![c].st = "unchanged"]
    BY <1>20, Zenon DEF Look, Ready, Answers
  <2> QED
    BY <1>17, <2>1, Zenon
<1>21. ASSUME NEW c \in Calls, Confirm(c) PROVE QueueNow'
  <2>1. First(c) /\ calls' = [calls EXCEPT ![c].st = "confirmed"]
    BY <1>21, Zenon DEF Confirm, Answers
  <2>2. CASE runtime' = runtime /\ queue' = Tail(queue)
    BY <1>16, <2>1, <2>2, Zenon
  <2>3. CASE runtime' = Asked(runtime) /\ queue' = Tail(LinedUp(runtime, queue))
    BY <1>17, <2>1, <2>3, Zenon
  <2> QED
    BY <1>21, <2>2, <2>3, Zenon DEF Confirm
<1>22. ASSUME NEW c \in Calls, NEW ids \in SUBSET Ids, NEW s,
              Ready(c), RequestDrive, Appends(c, ids, s)
       PROVE  QueueNow'
  <2>1. calls' = [calls EXCEPT ![c].st = "barrier", ![c].ids = ids]
    BY <1>22, Zenon DEF Appends
  <2>2. calls'[c].st = "barrier" /\ \A d \in Calls \ {c} : calls'[d] = calls[d]
    BY <2>1, AppendingView
  <2>3. \A d \in Calls : Waiting(calls[d].st) => Waiting(calls'[d].st)
    BY <2>2, Zenon DEF Waiting
  <2>4. \A d \in Calls : calls'[d].st \in {"preflight", "barrier"} =>
           calls[d].st \in {"preflight", "barrier"}
    BY <1>22, <2>2, Zenon DEF Ready
  <2>5. QueueOK(queue', runtime'.run, calls)
    BY <1>3, <1>22
  <2>6. QueueOK(queue', runtime'.run, calls')
    BY <2>3, <2>4, <2>5, QueueStays, Zenon
  <2> QED
    BY <2>6, Zenon DEF QueueNow
<1>23. ASSUME NEW c \in Calls, Create(c) PROVE QueueNow'
  <2>1. Ready(c) /\ RequestDrive /\ \E r \in Ids : \E s : Appends(c, {r}, s)
    BY <1>23, Zenon DEF Create
  <2>2. PICK r \in Ids : \E s : Appends(c, {r}, s)
    BY <2>1, Zenon
  <2>3. PICK s : Appends(c, {r}, s)
    BY <2>2, Zenon
  <2> QED
    BY <1>22, <2>1, <2>3
<1>24. ASSUME NEW c \in Calls, Delete(c) PROVE QueueNow'
  <2>1. Ready(c) /\ RequestDrive /\ Appends(c, calls[c].ids, Deletions(calls[c].ids))
    BY <1>24, Zenon DEF Delete
  <2>2. calls[c].ids \in SUBSET Ids
    BY SMTT(30) DEF Call
  <2> QED
    BY <1>22, <2>1, <2>2
<1>25. ASSUME NEW c \in Calls, Stop(c) PROVE QueueNow'
  <2>1. CASE Drivable(runtime) /\ Active # {}
    <3>1. Ready(c) /\ RequestDrive /\ Appends(c, Active, Deletions(Active))
      BY <1>25, <2>1, Zenon DEF Stop
    <3>2. Active \in SUBSET Ids
      BY DEF Active
    <3> QED
      BY <1>22, <3>1, <3>2
  <2>2. CASE ~(Drivable(runtime) /\ Active # {})
    <3>1. /\ First(c) /\ queue' = Tail(queue) /\ runtime' = runtime
          /\ calls' = [calls EXCEPT ![c].st = "unchanged"]
      BY <1>25, <2>2, Zenon DEF Stop, Ready, Answers
    <3> QED
      BY <1>16, <3>1, Zenon
  <2> QED
    BY <2>1, <2>2
<1>26. ASSUME NEW c \in Calls, NEW op, NEW ids, Ask(c, op, ids) PROVE QueueNow'
  <2>1. /\ calls[c].st = "idle" /\ runtime' = runtime /\ queue' = Append(queue, c)
        /\ calls' = [calls EXCEPT ![c] = [st |-> "queued", op |-> op, ids |-> ids]]
    BY <1>26, Zenon DEF Ask
  <2>2. calls'[c] = [st |-> "queued", op |-> op, ids |-> ids]
        /\ \A d \in Calls \ {c} : calls'[d] = calls[d]
    BY <2>1, Zenon
  <2>3. calls'[c].st = "queued" /\ ~Waiting(calls[c].st) /\ c # drive
    BY <1>0, <2>1, <2>2 DEF Waiting
  <2>4. QueueOK(Append(queue, c), runtime.run, calls')
    BY <2>2, <2>3, QueueAdds
  <2> QED
    BY <2>1, <2>4, Zenon DEF QueueNow
<1>27. CASE Requests
  <2>1. CASE \E phase \in {"running", "other"} : StartOther(phase)
    <3>1. UNCHANGED <<queue, calls, runtime>>
      BY <2>1 DEF StartOther
    <3> QED
      BY <1>1, <3>1
  <2> QED
    BY <1>26, <1>27, <2>1, Zenon DEF Requests
<1>28. CASE EndTurn
  <2>1. CASE RequestDrive
    BY <1>3, <1>28, <2>1, Zenon DEF EndTurn, QueueNow
  <2>2. CASE UNCHANGED <<runtime, queue>>
    BY <1>1, <1>28, <2>2 DEF EndTurn
  <2> QED
    BY <1>28, <2>1, <2>2, Zenon DEF EndTurn
<1>29. CASE Save \/ EndMaintenance \/ Cancel \/ Tick
  <2>1. UNCHANGED <<queue, calls, runtime>>
    BY <1>29 DEF Save, EndMaintenance, Cancel, Tick
  <2> QED
    BY <1>1, <2>1
<1>30. CASE Dispose
  <2>1. runtime'.run = runtime.run
    <3>1. runtime' = [runtime EXCEPT !.life = "disposing", !.requested = FALSE,
                                     !.timer = Off, !.idleWait = FALSE]
      BY <1>30 DEF Dispose
    <3> QED
      BY <3>1, SMTT(30) DEF Runtime
  <2> QED
    BY <1>1, <1>30, <2>1 DEF Dispose
<1>31. CASE Disposed
  <2>1. Down.run = "none"
    BY DEF Down
  <2>2. runtime.run \notin Begun \cup {"queued"} /\ runtime'.run \notin Begun
    BY <1>31, <2>1 DEF Disposed, Begun
  <2> QED
    BY <1>1, <1>31, <2>2 DEF Disposed
<1>32. ASSUME \A c \in Calls : ~Waiting(calls'[c].st),
              \/ queue' = <<>> /\ runtime'.run = "none"
              \/ queue' = <<drive>> /\ runtime'.run = "queued"
       PROVE  QueueNow'
  <2>1. \A c \in Calls : calls'[c].st \notin {"preflight", "barrier"}
    BY <1>32 DEF Waiting
  <2>2. runtime'.run \notin Begun
    BY <1>32 DEF Begun
  <2>3. /\ queue' \in Seq(Calls \cup {drive})
        /\ \A i \in 1 .. Len(queue') : i = 1 /\ queue'[i] = drive /\ runtime'.run = "queued"
    <3>1. CASE queue' = <<>>
      <4>1. Len(queue') = 0
        BY <3>1
      <4> QED
        BY <3>1, <4>1
    <3>2. CASE queue' = <<drive>> /\ runtime'.run = "queued"
      <4>1. Len(queue') = 1 /\ queue'[1] = drive
        BY <3>2
      <4>2. \A i \in 1 .. Len(queue') : i = 1
        BY <4>1
      <4>3. queue' \in Seq(Calls \cup {drive})
        BY <3>2
      <4> QED
        BY <3>2, <4>1, <4>2, <4>3, Zenon
    <3> QED
      BY <1>32, <3>1, <3>2
  <2> QED
    BY <2>1, <2>2, <2>3 DEF QueueNow, QueueOK
<1>33. CASE Crash
  <2>1. ASSUME NEW c \in Calls PROVE ~Waiting(calls'[c].st)
    <3>1. calls'[c] = IF InFlight(c) THEN [calls[c] EXCEPT !.st = "lost"] ELSE calls[c]
      BY <1>33, Zenon DEF Crash
    <3>2. [calls[c] EXCEPT !.st = "lost"].st = "lost"
      BY SMTT(30) DEF Call
    <3> QED
      BY <3>1, <3>2 DEF InFlight, Waiting
  <2>2. Down.run = "none"
    BY DEF Down
  <2> QED
    BY <1>32, <1>33, <2>1, <2>2, Zenon DEF Crash
<1>34. CASE Resume
  <2>1. \A c \in Calls : ~Waiting(calls'[c].st)
    BY <1>34, Zenon DEF Resume, InFlight, Waiting
  <2>2. Started.run = "queued"
    BY DEF Started
  <2> QED
    BY <1>32, <1>34, <2>1, <2>2, Zenon DEF Resume
<1> QED
  BY <1>4, <1>5, <1>6, <1>7, <1>8, <1>9, <1>10, <1>11, <1>12, <1>13, <1>14, <1>15, <1>18,
     <1>19, <1>20, <1>21, <1>23, <1>24, <1>25, <1>27, <1>28, <1>29, <1>30, <1>31, <1>33, <1>34,
     Zenon DEF Next, Transaction
-------------------------------------------------------------------------------
(* The theorems *)

LEMMA InitInv == Init => IInv
<1> SUFFICES ASSUME Init PROVE IInv
  OBVIOUS
<1>1. PICK f \in Restored : log = <<f>>
  BY DEF Init
<1>2. /\ need = 0 /\ clock = 0 /\ lives = 1 /\ runtime = Started /\ queue = <<drive>>
      /\ agent = [phase |-> "idle", woken |-> FALSE, spent |-> 0]
      /\ calls = [c \in Calls |-> [st |-> "idle", op |-> "list", ids |-> {}]]
  BY DEF Init
<1>3. /\ Started \in Runtime /\ Started.run = "queued" /\ ~Started.faulted
  BY DEF Started, Runtime, Off
<1>4. [st |-> "idle", op |-> "list", ids |-> {}] \in Call
  BY DEF Call
<1>5. Types
  <2>1. calls \in [Calls -> Call]
    BY <1>2, <1>4, Zenon
  <2>2. agent \in Agent /\ clock \in 0 .. Horizon /\ lives \in 1 .. Lives
    BY <1>2, BoundAssumption DEF Agent
  <2> QED
    BY <1>2, <1>3, <2>1, <2>2, Zenon DEF Types
<1>6. f \in Folds /\ \A r \in Ids : f[r].told = 0 /\ (f[r].st = "active" => f[r].at > 0)
  <2>1. \A rec \in {Absent} \cup {Pending(every, 1) : every \in BOOLEAN} :
           rec \in Record /\ rec.told = 0 /\ (rec.st = "active" => rec.at > 0)
    <3>1. Absent \in Record /\ Absent.told = 0 /\ Absent.st # "active"
      BY DEF Absent, Record
    <3>2. ASSUME NEW every \in BOOLEAN
          PROVE  LET rec == Pending(every, 1) IN rec \in Record /\ rec.told = 0 /\ rec.at > 0
      <4> DEFINE a == [Absent EXCEPT !.st = "active"]
                 b == [a EXCEPT !.every = every]
                 d == [b EXCEPT !.at = 1]
      <4>1. Pending(every, 1) = d
        BY Zenon DEF Pending
      <4>2. a \in Record /\ a.told = 0
        BY <3>1, SMTT(30) DEF Record
      <4> HIDE DEF a
      <4>3. b \in Record
        BY <4>2, Zenon DEF Record
      <4>4. b.told = 0
        BY <4>2, SMTT(30) DEF Record
      <4> HIDE DEF b
      <4>5. d \in Record /\ d.told = 0 /\ d.at > 0
        BY <4>3, <4>4, SMTT(30) DEF Record
      <4> QED
        BY <4>1, <4>5, Zenon
    <3>3. ASSUME NEW rec \in {Absent} \cup {Pending(every, 1) : every \in BOOLEAN}
          PROVE  rec \in Record /\ rec.told = 0 /\ (rec.st = "active" => rec.at > 0)
      <4>1. CASE rec = Absent
        BY <3>1, <4>1, Zenon
      <4>2. ASSUME NEW every \in BOOLEAN, rec = Pending(every, 1)
            PROVE  rec \in Record /\ rec.told = 0 /\ rec.at > 0
        BY <3>2, <4>2, Zenon
      <4> QED
        BY <3>3, <4>1, <4>2, Zenon
    <3> QED
      BY <3>3, Zenon
  <2>2. f \in [Ids -> {Absent} \cup {Pending(every, 1) : every \in BOOLEAN}]
    BY Zenon DEF Restored
  <2> QED
    BY <2>1, <2>2, Zenon DEF Folds
<1>7. LogNow /\ Waited /\ Live = f
  <2>1. Good(f, 1)
    BY <1>6 DEF Good
  <2>2. Advance(f, f)
    BY Zenon DEF Advance
  <2>3. LogSound(log, lives)
    BY <1>1, <1>2, <2>1, <2>2, Single
  <2> QED
    BY <1>1, <1>2, <1>3, <2>3 DEF LogNow, Waited, Live
<1>8. \A c \in Calls : calls[c].st = "idle"
  BY <1>2
<1>9. QueueNow
  <2>1. queue \in Seq(Calls \cup {drive}) /\ Len(queue) = 1 /\ queue[1] = drive
    BY <1>2
  <2>2. \A i \in 1 .. Len(queue) : i = 1
    BY <2>1
  <2>3. runtime.run \in Begun \cup {"queued"} /\ runtime.run \notin Begun
    BY <1>2, <1>3 DEF Begun
  <2>4. \A c \in Calls : calls[c].st \notin {"preflight", "barrier"}
    BY <1>8
  <2> QED
    BY <2>1, <2>2, <2>3, <2>4, Zenon DEF QueueNow, QueueOK
<1>10. Awaited /\ Confirmed
  BY <1>8 DEF Awaited, Confirmed
<1>11. Fresh
  BY <1>2, <1>6, <1>7 DEF Fresh
<1>12. Halted /\ Covered
  BY <1>2, <1>3, Zenon DEF Halted, Covered
<1> QED
  BY <1>5, <1>7, <1>9, <1>10, <1>11, <1>12, Zenon DEF IInv

LEMMA InvStep == IInv /\ [Next]_vars => IInv'
<1> SUFFICES ASSUME IInv, [Next]_vars PROVE IInv'
  OBVIOUS
<1>1. CASE Next
  <2>1. Effect /\ RuntimeGoes
    BY <1>1, EffectStep, RuntimeStep
  <2>2. Types'
    BY <1>1, <2>1, TypesStep
  <2>3. LogNow'
    BY <2>1, <2>2, LogStep, Zenon DEF Types
  <2>4. QueueNow'
    BY <1>1, <2>1, QueueStep
  <2>5. Waited' /\ Awaited' /\ Confirmed' /\ Fresh'
    BY <2>1, <2>3, WaitedStep, AwaitedStep, ConfirmedStep, FreshStep
  <2>6. Halted' /\ Covered'
    BY <2>1 DEF RuntimeGoes
  <2> QED
    BY <2>2, <2>3, <2>4, <2>5, <2>6, Zenon DEF IInv
<1>2. CASE UNCHANGED vars
  BY <1>2 DEF vars, IInv, Types, LogNow, QueueNow, Waited, Awaited, Held, Fresh, Halted, Confirmed,
     Covered, Drivable, Active, Live, Stored, Unsaved
<1> QED
  BY <1>1, <1>2

LEMMA Invariant == Spec => []IInv
<1> QED
  BY InitInv, InvStep, PTL DEF Spec

\* Every variable stays in its type and a transaction is queued once: the
\* queue never holds the drive or a call twice (transaction.ts, runtime.ts).
THEOREM TypeCorrect == Spec => []TypeOK
<1>1. IInv => TypeOK
  <2> SUFFICES ASSUME IInv PROVE TypeOK
    OBVIOUS
  <2>1. log \in Seq([Ids -> Record]) /\ log # <<>> /\ need \in 0 .. Unsaved
    BY DEF IInv, LogNow, LogSound, Folds, Unsaved
  <2>2. queue \in Seq(Calls \cup {drive})
        /\ \A i, j \in 1 .. Len(queue) : queue[i] = queue[j] => i = j
    BY DEF IInv, QueueNow, QueueOK
  <2> QED
    BY <2>1, <2>2, Zenon DEF TypeOK, IInv, Types
<1> QED
  BY Invariant, <1>1, PTL

\* What schedule_create, schedule_delete and the archive stop confirmed is in
\* the stored log, across failed flushes and crashes (tools.ts, index.ts).
THEOREM ConfirmedStored == Spec => []Confirmed
<1>1. IInv => Confirmed
  BY DEF IInv
<1> QED
  BY Invariant, <1>1, PTL

\* One runtime never tells an occurrence twice, whatever fails on the way
\* (runtime.ts, the fault after a followup without its dispatches).
THEOREM ToldOnce == Spec => []ToldOncePerLife
<1>1. IInv => ToldOncePerLife
  BY DEF IInv, LogNow, LogSound, Good, ToldOncePerLife
<1> QED
  BY Invariant, <1>1, PTL

\* An active reminder of a runtime that drives is never left without something
\* that will wake it (runtime.ts, requestDrive and retire).
THEOREM CoveredAlways == Spec => []Covered
<1>1. IInv => Covered
  BY DEF IInv
<1> QED
  BY Invariant, <1>1, PTL

\* A message tells only what the preflight has stored, at or after its time
\* (runtime.ts, driveOnce).
THEOREM ToldStored == Spec => ToldFromStored
<1> DEFINE Ripe == \A r \in Ids :
      (\E i \in Len(log) + 1 .. Len(log') : log'[i][r].told > Live[r].told) =>
          Stored[r].st = "active" /\ Stored[r].at = Live[r].at /\ Live[r].at <= clock
<1>1. IInv /\ [Next]_vars => Ripe
  <2> SUFFICES ASSUME IInv, [Next]_vars PROVE Ripe
    OBVIOUS
  <2>1. /\ log \in Seq(Folds) /\ Len(log) \in Nat \ {0} /\ need \in Nat
        /\ \A r \in Ids : Live[r].told \in Nat
    BY LogFacts DEF IInv
  <2>2. CASE \A i \in Len(log) + 1 .. Len(log') : FALSE
    BY <2>2, Zenon
  <2>3. CASE log' = log
    BY <2>1, <2>2, <2>3
  <2>4. CASE Save
    <3>1. Len(log') = Len(log) - 1
      BY <2>1, <2>4 DEF Save
    <3> QED
      BY <2>1, <2>2, <3>1
  <2>5. CASE log' = <<Stored>>
    <3>1. Len(log') = 1
      BY <2>5
    <3> QED
      BY <2>1, <2>2, <3>1
  <2>6. CASE Delivers
    <3>1. runtime.run = "preflight" /\ need = 0
      BY <2>6 DEF Delivers, Preflighted, Drives, Flushed
    <3>2. Len(log) = 1
      BY <2>1, <3>1 DEF IInv, Waited, Unsaved
    <3>3. Stored = Live
      BY <3>2 DEF Stored, Live
    <3> QED
      BY <2>6, <3>3, Zenon DEF Delivers, Due, Active
  <2>7. ASSUME NEW c \in Calls, Appending(c) PROVE Ripe
    <3>1. ASSUME NEW r \in Ids, NEW i \in Len(log) + 1 .. Len(log'), log'[i][r].told > Live[r].told
          PROVE  FALSE
      <4>1. log'[i][r].told <= Live[r].told
        BY <2>7, <3>1 DEF Appending
      <4>2. log' \in Seq(Folds) /\ i \in 1 .. Len(log')
        BY <2>1, <2>7 DEF Appending, Grows, LogSound
      <4>3. log'[i][r].told \in Nat
        BY <4>2 DEF Folds, Record
      <4> QED
        BY <2>1, <3>1, <4>1, <4>3
    <3> QED
      BY <3>1, Zenon
  <2>8. CASE Next
    <3>1. Effect
      BY <2>8, EffectStep
    <3> QED
      BY <2>3, <2>4, <2>5, <2>6, <2>7, <3>1, Zenon
         DEF Effect, Quiet, DriveTurn, Crash, Resume, CallTurn, CallStarts
  <2>9. CASE UNCHANGED vars
    BY <2>3, <2>9, Zenon DEF vars
  <2> QED
    BY <2>8, <2>9
<1>2. Ripe => [Ripe]_vars
  OBVIOUS
<1> QED
  BY Invariant, <1>1, PTL DEF Spec, ToldFromStored

\* Across crashes and restarts the stored log keeps ReminderContract: nothing
\* is closed before it is told, and nothing closed comes back (domain.ts).
THEOREM ContractHolds == Spec => ContractKept
<1>1. Init => Contract!Init
  <2> SUFFICES ASSUME Init PROVE Contract!Init
    OBVIOUS
  <2>1. PICK f \in Restored : log = <<f>>
    BY DEF Init
  <2>2. Stored = f
    BY <2>1 DEF Stored
  <2>3. f \in [Ids -> {Absent} \cup {Pending(every, 1) : every \in BOOLEAN}]
    BY Zenon DEF Restored
  <2>4. ASSUME NEW every \in BOOLEAN
        PROVE  LET rec == Pending(every, 1) IN rec = Contract!Pending(rec.every, rec.at)
    <3>1. Pending(every, 1).every = every /\ Pending(every, 1).at = 1
      BY DEF Pending, Absent
    <3> QED
      BY <3>1, Zenon DEF Pending, Absent, Contract!Pending, Contract!Absent
  <2>5. Absent = Contract!Absent
    BY Zenon DEF Absent, Contract!Absent
  <2> QED
    BY <2>2, <2>3, <2>4, <2>5, Zenon DEF Contract!Init
<1>2. IInv /\ [Next]_vars => [Contract!Next]_Stored
  <2> SUFFICES ASSUME IInv, [Next]_vars PROVE Contract!Next \/ Stored' = Stored
    OBVIOUS
  <2>1. CASE Next
    <3>1. Stored' = Stored \/ Advance(Stored, Stored')
      BY <2>1, EffectStep, StoredStep
    <3> QED
      BY <3>1, Zenon DEF Advance, Contract!Next
  <2>2. CASE UNCHANGED vars
    BY <2>2 DEF vars, Stored
  <2> QED
    BY <2>1, <2>2
<1> QED
  BY Invariant, <1>1, <1>2, PTL DEF Spec, ContractKept, Contract!Spec
===============================================================================
