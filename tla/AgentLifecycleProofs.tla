------------------------ MODULE AgentLifecycleProofs ------------------------
(***************************************************************************)
(* Theorems about AgentLifecycle, for any number of starts and ids.        *)
(***************************************************************************)
EXTENDS AgentLifecycle, TLAPS

USE NoneAssumption
USE DEF pc, Id

\* The parts of the type invariant.
Matched(r) == (r.pc = "idle" <=> r.id = none) /\ (r.machine = "none" <=> r.scope = "none")
TypeLife == life \in [Starts -> Lives]
TypeShared ==
    /\ backed \in BOOLEAN
    /\ claim \in [Ids -> Starts \cup {none}]
    /\ sessions \in [Ids -> Starts \cup {none}]
    /\ agents \in [Ids -> Starts \cup {none}]
    /\ owner \in [Starts -> {"active", "unloading", "gone"}]
    /\ factory \in {"active", "unloading", "gone"}
    /\ joined \subseteq Starts
Types == TypeLife /\ TypeShared /\ \A a \in Starts : Matched(life[a])

IInv == Types /\ Sound

\* The type invariant, in parts.
LEMMA TypesAre == TypeOK <=> Types
BY Zenon DEF TypeOK, Types, TypeLife, TypeShared, Matched

\* A field of a start may take any value of its own.
LEMMA Updates ==
    ASSUME NEW r \in Lives
    PROVE  /\ \A v \in Starting \cup {"idle", "closing", "leaving", "rollback", "live", "failed", "left"} :
                 [r EXCEPT !.pc = v] \in Lives
           /\ \A v \in Ids : [r EXCEPT !.id = v] \in Lives
           /\ \A v \in {"create", "resume"} : [r EXCEPT !.kind = v] \in Lives
           /\ \A v \in {"none", "opening", "open", "closing", "closed"} : [r EXCEPT !.handle = v] \in Lives
           /\ \A v \in {"none", "maintenance", "idle", "running"} : [r EXCEPT !.machine = v] \in Lives
           /\ \A v \in {"none", "live", "unwinding", "gone"} : [r EXCEPT !.scope = v] \in Lives
           /\ \A v \in {"no", "publication", "drain", "scope", "close", "unfollow", "done", "failed"} :
                 [r EXCEPT !.disp = v] \in Lives
           /\ \A v \in BOOLEAN : /\ [r EXCEPT !.caller = v] \in Lives /\ [r EXCEPT !.signal = v] \in Lives
                                 /\ [r EXCEPT !.byOwner = v] \in Lives /\ [r EXCEPT !.failed = v] \in Lives
                                 /\ [r EXCEPT !.tracked = v] \in Lives /\ [r EXCEPT !.followed = v] \in Lives
                                 /\ [r EXCEPT !.announced = v] \in Lives /\ [r EXCEPT !.created = v] \in Lives
           /\ \A v \in 0 .. 1 : [r EXCEPT !.disposed = v] \in Lives
<1>1. \A v \in Starting \cup {"idle", "closing", "leaving", "rollback", "live", "failed", "left"} :
         [r EXCEPT !.pc = v] \in Lives
  BY DEF Lives
<1>2. \A v \in Ids : [r EXCEPT !.id = v] \in Lives
  BY DEF Lives
<1>3. \A v \in {"create", "resume"} : [r EXCEPT !.kind = v] \in Lives
  BY DEF Lives
<1>4. \A v \in {"none", "opening", "open", "closing", "closed"} : [r EXCEPT !.handle = v] \in Lives
  BY DEF Lives
<1>5. \A v \in {"none", "maintenance", "idle", "running"} : [r EXCEPT !.machine = v] \in Lives
  BY DEF Lives
<1>6. \A v \in {"none", "live", "unwinding", "gone"} : [r EXCEPT !.scope = v] \in Lives
  BY DEF Lives
<1>7. \A v \in {"no", "publication", "drain", "scope", "close", "unfollow", "done", "failed"} :
         [r EXCEPT !.disp = v] \in Lives
  BY DEF Lives
<1>8. \A v \in BOOLEAN : /\ [r EXCEPT !.caller = v] \in Lives /\ [r EXCEPT !.signal = v] \in Lives
                          /\ [r EXCEPT !.byOwner = v] \in Lives /\ [r EXCEPT !.failed = v] \in Lives
  BY DEF Lives
<1>9. \A v \in BOOLEAN : /\ [r EXCEPT !.tracked = v] \in Lives /\ [r EXCEPT !.followed = v] \in Lives
                          /\ [r EXCEPT !.announced = v] \in Lives /\ [r EXCEPT !.created = v] \in Lives
  BY DEF Lives
<1>10. \A v \in 0 .. 1 : [r EXCEPT !.disposed = v] \in Lives
  BY DEF Lives
<1> QED
  BY <1>1, <1>2, <1>3, <1>4, <1>5, <1>6, <1>7, <1>8, <1>9, <1>10

\* A start that has not begun is well typed.
LEMMA FreshType == Fresh \in Lives
BY DEF Fresh, Lives, Starting

-----------------------------------------------------------------------------
(* What a step of one start leaves to the others                           *)

\* What has ended stays so, and nothing new is built in an unloading factory.
Lasting(a) ==
    /\ factory # "active" => /\ life'[a].scope = "live" => life[a].scope = "live"
                             /\ life'[a].machine # "none" => life[a].machine # "none"
                             /\ Answered(a) => Answered(a)'
    /\ Released(a) => Released(a)'
    /\ Ended(a) => Ended(a)'
    /\ life[a].disp = "failed" => life'[a].disp = "failed"

\* Only a's own record changes.
Local(a) ==
    /\ life' = [life EXCEPT ![a] = life'[a]]
    /\ UNCHANGED <<backed, claim, sessions, agents, fibers>>

\* It keeps what the backend, the registries and the factory know of it.
Kept(a) ==
    /\ pc(a) = "idle" \/ Id(a)' = Id(a)
    /\ life'[a].handle \in {"open", "closing"} <=> life[a].handle \in {"open", "closing"}
    /\ life[a].tracked => life'[a].tracked
    /\ life'[a].announced /\ ~Released(a)' => life[a].announced /\ ~Released(a)
    /\ Lasting(a)

\* Where a start stands depends on its own record, and on the backend alone.
LEMMA Frame ==
    ASSUME NEW b \in Starts, life'[b] = life[b], backed' = backed, Placed(b), Disposed(b)
    PROVE  Placed(b)' /\ Disposed(b)'
BY DEF Placed, Disposed, Ended, Released

\* A step that changes one record leaves the others and the factory's view.
LEMMA RecordStep ==
    ASSUME NEW a \in Starts, IInv, life' = [life EXCEPT ![a] = life'[a]],
           backed' = backed, factory' = factory, joined' = joined, TypeShared',
           life'[a] \in Lives, Matched(life'[a]), Placed(a)', Disposed(a)', Lasting(a),
           \A b \in Starts : Entered(b)'
    PROVE  IInv'
<1>1. \A b \in Starts : b # a => life'[b] = life[b]
  BY DEF IInv, Types, TypeLife
<1>2. Types'
  <2>1. TypeLife'
    BY DEF IInv, Types, TypeLife
  <2>2. \A b \in Starts : Matched(life'[b])
    BY <1>1, Zenon DEF IInv, Types
  <2> QED
    BY <2>1, <2>2, Zenon DEF Types
<1>3. \A b \in Starts : Placed(b)' /\ Disposed(b)'
  <2> SUFFICES ASSUME NEW b \in Starts, b # a PROVE Placed(b)' /\ Disposed(b)'
    BY Zenon
  <2> QED
    BY <1>1, Frame DEF IInv, Sound
<1>4. \A b \in Starts : Reached(b)'
  <2>1. \A b \in Starts : /\ Released(b) => Released(b)'
                          /\ Ended(b) => Ended(b)'
                          /\ life[b].disp = "failed" => life'[b].disp = "failed"
                          /\ factory # "active" /\ Answered(b) => Answered(b)'
                          /\ factory # "active" /\ life'[b].scope = "live" => life[b].scope = "live"
                          /\ factory # "active" /\ life'[b].machine # "none" => life[b].machine # "none"
    BY <1>1, Zenon DEF Lasting, Released, Ended, Answered
  <2>2. \A b \in Starts : Reached(b)
    BY DEF IInv, Sound
  <2>3. joined \subseteq Starts
    BY DEF IInv, Types, TypeShared
  <2> QED
    BY <2>1, <2>2, <2>3 DEF Reached
<1> QED
  BY <1>2, <1>3, <1>4, Zenon DEF IInv, Sound

\* A start whose entries stay where they are stays well entered.
LEMMA OthersEntered ==
    ASSUME NEW b \in Starts, life'[b] = life[b], Entered(b), Placed(b), life[b] \in Lives, Matched(life[b]),
           \A i \in Ids : /\ claim'[i] = b <=> claim[i] = b
                          /\ sessions'[i] = b <=> sessions[i] = b
                          /\ agents'[i] = b <=> agents[i] = b
    PROVE  Entered(b)'
<1>1. life[b].announced => Id(b) \in Ids
  BY DEF Placed, Matched, Lives, Before
<1>2. Released(b)' <=> Released(b)
  BY Zenon DEF Released, Ended
<1> QED
  BY <1>1, <1>2 DEF Entered

\* A step that changes one record and none of the entries: it is enough to look
\* at that record.
LEMMA LocalStep ==
    ASSUME NEW a \in Starts, IInv, Local(a), Kept(a), life'[a] \in Lives,
           Matched(life'[a]), Placed(a)', Disposed(a)'
    PROVE  IInv'
<1>1. TypeShared'
  BY DEF IInv, Types, TypeShared, Local, fibers
<1>2. \A b \in Starts : Entered(b)'
  <2> TAKE b \in Starts
  <2>1. claim' = claim /\ sessions' = sessions /\ agents' = agents
    BY DEF Local
  <2>2. CASE b # a
    <3>1. life'[b] = life[b]
      BY <2>2 DEF IInv, Types, TypeLife, Local
    <3>2. Entered(b)
      BY DEF IInv, Sound
    <3> QED
      BY <2>1, <3>1, <3>2, Zenon DEF Entered, Released, Ended
  <2>3. CASE b = a
    <3>1. Entered(a) /\ Placed(a) /\ Matched(life[a])
      BY DEF IInv, Sound, Types
    <3>2. CASE pc(a) = "idle"
      <4>1. \A i \in Ids : claim[i] # a /\ sessions[i] # a /\ agents[i] # a
        BY <3>1, <3>2 DEF Entered, Matched
      <4>2. life[a].handle = "none" /\ ~life[a].announced
        BY <3>1, <3>2 DEF Placed, Before
      <4>3. life'[a].handle \notin {"open", "closing"} /\ (Released(a)' \/ ~life'[a].announced)
        BY <4>2 DEF Kept
      <4> QED
        BY <4>1, <4>3, <2>1, <2>3 DEF Entered
    <3>3. CASE Id(a)' = Id(a)
      BY <3>1, <2>1, <3>3, <2>3 DEF Entered, Kept
    <3> QED
      BY <3>2, <3>3 DEF Kept
  <2> QED
    BY <2>2, <2>3
<1> QED
  BY <1>1, <1>2, RecordStep DEF Local, Kept, fibers

\* What the invariant says of one start.
LEMMA Facts ==
    ASSUME NEW a \in Starts, IInv
    PROVE  /\ life[a] \in Lives /\ Matched(life[a])
           /\ Placed(a) /\ Disposed(a) /\ Entered(a) /\ Reached(a)
           /\ life \in [Starts -> Lives]
           /\ backed \in BOOLEAN
BY DEF IInv, Types, TypeLife, TypeShared, Sound

\* How the actions say that only one record changes.
LEMMA LocalIs ==
    ASSUME NEW a \in Starts, IInv, NEW r, life' = [life EXCEPT ![a] = r],
           UNCHANGED <<backed, claim, sessions, agents, fibers>>
    PROVE  Local(a) /\ life'[a] = r /\ backed' = backed /\ factory' = factory
BY Facts DEF Local, fibers

\* The changes the actions are made of keep a record well typed.
LEMMA ShapeTypes ==
    ASSUME NEW r \in Lives
    PROVE  /\ Unwound(r) \in Lives /\ Closing(r) \in Lives /\ Dropped(r) \in Lives
           /\ Prepared(r) \in Lives /\ Finish(r) \in Lives /\ RolledBack(r) \in Lives
           /\ \A b \in BOOLEAN : Torn(r, b) \in Lives
<1>1. \A q \in Lives : Unwound(q) \in Lives
  <2> TAKE q \in Lives
  <2>1. CASE q.scope = "live"
    BY <2>1, Updates DEF Unwound
  <2>2. CASE q.scope # "live"
    <3>1. [q EXCEPT !.scope = q.scope] = q
      BY DEF Lives
    <3> QED
      BY <2>2, <3>1 DEF Unwound
  <2> QED
    BY <2>1, <2>2
<1>2. \A q \in Lives : Closing(q) \in Lives
  <2> TAKE q \in Lives
  <2>1. CASE q.handle = "open"
    BY <2>1, Updates DEF Closing
  <2>2. CASE q.handle # "open"
    <3>1. [q EXCEPT !.handle = q.handle] = q
      BY DEF Lives
    <3> QED
      BY <2>2, <3>1 DEF Closing
  <2> QED
    BY <2>1, <2>2
<1>3. \A q \in Lives : \A b \in BOOLEAN : Torn(q, b) \in Lives
  BY Updates DEF Torn
<1>4. Dropped(r) \in Lives
  BY <1>2, Updates DEF Dropped
<1>5. Prepared(r) \in Lives
  BY Updates DEF Prepared, Starting
<1>6. Finish(r) \in Lives
  BY Updates DEF Finish
<1>7. RolledBack(r) \in Lives
  BY <1>3, Updates DEF RolledBack
<1> QED
  BY <1>1, <1>2, <1>3, <1>4, <1>5, <1>6, <1>7

-----------------------------------------------------------------------------
(* Steps of one start that touch only its record *)

USE DEF Matched, Placed, Disposed, Kept, Lasting, Ended, Released, Answered, Before, Initializing, Late

\* One lemma per action: the record it leaves is well typed (2), satisfies what
\* is said of one start and keeps what the others rely on (3).
LEMMA HandleDisposeStep == ASSUME NEW a \in Starts, IInv, HandleDispose(a) PROVE IInv'
<1> DEFINE r == life[a]
           s == Torn(r, FALSE)
<1>1. Local(a) /\ life'[a] = s /\ backed' = backed
  BY LocalIs, Zenon DEF HandleDispose
<1>2. s \in Lives
  BY Facts, Updates, ShapeTypes DEF Starting
<1>3. Matched(s) /\ Placed(a)' /\ Disposed(a)' /\ Kept(a)
  BY SMTT(30), <1>1, Facts DEF HandleDispose, Torn, Lives
<1> HIDE DEF s
<1> QED
  BY <1>1, <1>2, <1>3, LocalStep

LEMMA DrainedStep == ASSUME NEW a \in Starts, IInv, Drained(a) PROVE IInv'
<1> DEFINE r == life[a]
           s == Unwound([r EXCEPT !.disp = "scope"])
<1>1. Local(a) /\ life'[a] = s /\ backed' = backed
  BY LocalIs, Zenon DEF Drained
<1>2. s \in Lives
  BY Facts, Updates, ShapeTypes DEF Starting
<1>3. Matched(s) /\ Placed(a)' /\ Disposed(a)' /\ Kept(a)
  BY SMTT(30), <1>1, Facts DEF Drained, Unwound, Lives
<1> HIDE DEF s
<1> QED
  BY <1>1, <1>2, <1>3, LocalStep

LEMMA ScopeEndsStep == ASSUME NEW a \in Starts, IInv, ScopeEnds(a) PROVE IInv'
<1> DEFINE r == life[a]
           s == [r EXCEPT !.scope = "gone"]
<1>1. Local(a) /\ life'[a] = s /\ backed' = backed
  BY LocalIs, Zenon DEF ScopeEnds
<1>2. s \in Lives
  BY Facts, Updates, ShapeTypes DEF Starting
<1>3. Matched(s) /\ Placed(a)' /\ Disposed(a)' /\ Kept(a)
  BY SMTT(30), <1>1, Facts DEF ScopeEnds, Lives
<1> HIDE DEF s
<1> QED
  BY <1>1, <1>2, <1>3, LocalStep

LEMMA ScopeOverStep == ASSUME NEW a \in Starts, IInv, ScopeOver(a) PROVE IInv'
<1> DEFINE r == life[a]
           s == Closing([r EXCEPT !.disp = "close"])
<1>1. Local(a) /\ life'[a] = s /\ backed' = backed
  BY LocalIs, Zenon DEF ScopeOver
<1>2. s \in Lives
  BY Facts, Updates, ShapeTypes DEF Starting
<1>3. Matched(s) /\ Placed(a)' /\ Disposed(a)' /\ Kept(a)
  BY SMTT(30), <1>1, Facts DEF ScopeOver, Closing, Lives
<1> HIDE DEF s
<1> QED
  BY <1>1, <1>2, <1>3, LocalStep

LEMMA UnfollowedStep == ASSUME NEW a \in Starts, IInv, Unfollowed(a) PROVE IInv'
<1> DEFINE r == life[a]
           s == Finish([r EXCEPT !.followed = FALSE])
<1>1. Local(a) /\ life'[a] = s /\ backed' = backed
  BY LocalIs, Zenon DEF Unfollowed
<1>2. s \in Lives
  BY Facts, Updates, ShapeTypes DEF Starting
<1>3. Matched(s) /\ Placed(a)' /\ Disposed(a)' /\ Kept(a)
  BY SMTT(30), <1>1, Facts DEF Unfollowed, Finish, Lives
<1> HIDE DEF s
<1> QED
  BY <1>1, <1>2, <1>3, LocalStep

LEMMA AcquireAbortsStep == ASSUME NEW a \in Starts, IInv, AcquireAborts(a) PROVE IInv'
<1> DEFINE r == life[a]
           s == [r EXCEPT !.pc = "failed"]
<1>1. Local(a) /\ life'[a] = s /\ backed' = backed
  BY LocalIs, Zenon DEF AcquireAborts
<1>2. s \in Lives
  BY Facts, Updates, ShapeTypes DEF Starting
<1>3. Matched(s) /\ Placed(a)' /\ Disposed(a)' /\ Kept(a)
  BY SMTT(30), <1>1, Facts DEF AcquireAborts, Lives
<1> HIDE DEF s
<1> QED
  BY <1>1, <1>2, <1>3, LocalStep

LEMMA OpenedStep == ASSUME NEW a \in Starts, IInv, Opened(a) PROVE IInv'
<1> DEFINE r == life[a]
           s == [r EXCEPT !.pc = "loading"]
<1>1. Local(a) /\ life'[a] = s /\ backed' = backed
  BY LocalIs, Zenon DEF Opened
<1>2. s \in Lives
  BY Facts, Updates, ShapeTypes DEF Starting
<1>3. Matched(s) /\ Placed(a)' /\ Disposed(a)' /\ Kept(a)
  BY SMTT(30), <1>1, Facts DEF Opened, Lives
<1> HIDE DEF s
<1> QED
  BY <1>1, <1>2, <1>3, LocalStep

LEMMA ResumeFailsStep == ASSUME NEW a \in Starts, IInv, ResumeFails(a) PROVE IInv'
<1> DEFINE r == life[a]
           s == Dropped(r)
<1>1. Local(a) /\ life'[a] = s /\ backed' = backed
  BY LocalIs, Zenon DEF ResumeFails
<1>2. s \in Lives
  BY Facts, Updates, ShapeTypes DEF Starting
<1>3. Matched(s) /\ Placed(a)' /\ Disposed(a)' /\ Kept(a)
  BY SMTT(30), <1>1, Facts DEF ResumeFails, Dropped, Closing, Lives
<1> HIDE DEF s
<1> QED
  BY <1>1, <1>2, <1>3, LocalStep

LEMMA SetupAbortsStep == ASSUME NEW a \in Starts, IInv, SetupAborts(a) PROVE IInv'
<1> DEFINE r == life[a]
           s == RolledBack(r)
<1>1. Local(a) /\ life'[a] = s /\ backed' = backed
  BY LocalIs, Zenon DEF SetupAborts
<1>2. s \in Lives
  BY Facts, Updates, ShapeTypes DEF Starting
<1>3. Matched(s) /\ Placed(a)' /\ Disposed(a)' /\ Kept(a)
  BY SMTT(30), <1>1, Facts DEF SetupAborts, RolledBack, Torn, Lives
<1> HIDE DEF s
<1> QED
  BY <1>1, <1>2, <1>3, LocalStep

LEMMA InitializeFailsStep == ASSUME NEW a \in Starts, IInv, InitializeFails(a) PROVE IInv'
<1> DEFINE r == life[a]
           s == RolledBack(r)
<1>1. Local(a) /\ life'[a] = s /\ backed' = backed
  BY LocalIs, Zenon DEF InitializeFails
<1>2. s \in Lives
  BY Facts, Updates, ShapeTypes DEF Starting
<1>3. Matched(s) /\ Placed(a)' /\ Disposed(a)' /\ Kept(a)
  BY SMTT(30), <1>1, Facts DEF InitializeFails, RolledBack, Torn, Lives
<1> HIDE DEF s
<1> QED
  BY <1>1, <1>2, <1>3, LocalStep

LEMMA AnnounceFailsStep == ASSUME NEW a \in Starts, IInv, AnnounceFails(a) PROVE IInv'
<1> DEFINE r == life[a]
           s == RolledBack(r)
<1>1. Local(a) /\ life'[a] = s /\ backed' = backed
  BY LocalIs, Zenon DEF AnnounceFails
<1>2. s \in Lives
  BY Facts, Updates, ShapeTypes DEF Starting
<1>3. Matched(s) /\ Placed(a)' /\ Disposed(a)' /\ Kept(a)
  BY SMTT(30), <1>1, Facts DEF AnnounceFails, RolledBack, Torn, Lives
<1> HIDE DEF s
<1> QED
  BY <1>1, <1>2, <1>3, LocalStep

LEMMA RolledBackEndsStep == ASSUME NEW a \in Starts, IInv, RolledBackEnds(a) PROVE IInv'
<1> DEFINE r == life[a]
           s == [r EXCEPT !.pc = "failed"]
<1>1. Local(a) /\ life'[a] = s /\ backed' = backed
  BY LocalIs, Zenon DEF RolledBackEnds
<1>2. s \in Lives
  BY Facts, Updates, ShapeTypes DEF Starting
<1>3. Matched(s) /\ Placed(a)' /\ Disposed(a)' /\ Kept(a)
  BY SMTT(30), <1>1, Facts DEF RolledBackEnds, Lives
<1> HIDE DEF s
<1> QED
  BY <1>1, <1>2, <1>3, LocalStep

LEMMA RunStep == ASSUME NEW a \in Starts, IInv, Run(a) PROVE IInv'
<1> DEFINE r == life[a]
           s == [r EXCEPT !.machine = "running"]
<1>1. Local(a) /\ life'[a] = s /\ backed' = backed
  BY LocalIs, Zenon DEF Run
<1>2. s \in Lives
  BY Facts, Updates, ShapeTypes DEF Starting
<1>3. Matched(s) /\ Placed(a)' /\ Disposed(a)' /\ Kept(a)
  BY SMTT(30), <1>1, Facts DEF Run, Lives
<1> HIDE DEF s
<1> QED
  BY <1>1, <1>2, <1>3, LocalStep

LEMMA RestStep == ASSUME NEW a \in Starts, IInv, Rest(a) PROVE IInv'
<1> DEFINE r == life[a]
           s == [r EXCEPT !.machine = "idle"]
<1>1. Local(a) /\ life'[a] = s /\ backed' = backed
  BY LocalIs, Zenon DEF Rest
<1>2. s \in Lives
  BY Facts, Updates, ShapeTypes DEF Starting
<1>3. Matched(s) /\ Placed(a)' /\ Disposed(a)' /\ Kept(a)
  BY SMTT(30), <1>1, Facts DEF Rest, Lives
<1> HIDE DEF s
<1> QED
  BY <1>1, <1>2, <1>3, LocalStep

LEMMA DropEndsStep == ASSUME NEW a \in Starts, IInv, DropEnds(a) PROVE IInv'
<1> DEFINE r == life[a]
           s == [r EXCEPT !.pc = IF @ = "closing" THEN "failed" ELSE "left"]
<1>1. Local(a) /\ life'[a] = s /\ backed' = backed
  BY LocalIs, Zenon DEF DropEnds
<1>2. s \in Lives
  BY Facts, Updates, ShapeTypes DEF Starting
<1>3. Matched(s) /\ Placed(a)' /\ Disposed(a)' /\ Kept(a)
  BY SMTT(30), <1>1, Facts DEF DropEnds, Lives
<1> HIDE DEF s
<1> QED
  BY <1>1, <1>2, <1>3, LocalStep

LEMMA RefusedStep == ASSUME NEW a \in Starts, IInv, Refused(a) PROVE IInv'
<1> DEFINE r == life[a]
           s == [r EXCEPT !.handle = "none", !.pc = IF r.pc = "acquiring" THEN "failed" ELSE r.pc]
<1>1. Local(a) /\ life'[a] = s /\ backed' = backed
  BY LocalIs, Zenon DEF Refused
<1>2. s \in Lives
  BY ZenonT(60), Facts, Updates, ShapeTypes DEF Starting
<1>3. Matched(s) /\ Placed(a)' /\ Disposed(a)' /\ Kept(a)
  BY SMTT(30), <1>1, Facts DEF Refused, Lives
<1> HIDE DEF s
<1> QED
  BY <1>1, <1>2, <1>3, LocalStep

LEMMA CallerAbortsStep == ASSUME NEW a \in Starts, IInv, CallerAborts(a) PROVE IInv'
<1> DEFINE r == life[a]
           s == [r EXCEPT !.caller = TRUE, !.signal = r.signal \/ r.machine # "none"]
<1>1. Local(a) /\ life'[a] = s /\ backed' = backed
  BY LocalIs, Zenon DEF CallerAborts
<1>2. s \in Lives
  BY Facts, Updates, ShapeTypes DEF Starting
<1>3. Matched(s) /\ Placed(a)' /\ Disposed(a)' /\ Kept(a)
  BY SMTT(30), <1>1, Facts DEF CallerAborts, Lives
<1> HIDE DEF s
<1> QED
  BY <1>1, <1>2, <1>3, LocalStep

LEMMA LoadedStep == ASSUME NEW a \in Starts, IInv, Loaded(a) PROVE IInv'
<1> DEFINE r == life[a]
           s == IF Raced(a) THEN Dropped(r) ELSE [r EXCEPT !.pc = "mending"]
<1>1. Local(a) /\ life'[a] = s /\ backed' = backed
  BY LocalIs, Zenon DEF Loaded
<1>2. s \in Lives
  BY Facts, Updates, ShapeTypes DEF Starting
<1>3. Matched(s) /\ Placed(a)' /\ Disposed(a)' /\ Kept(a)
  BY SMTT(30), <1>1, Facts DEF Loaded, Dropped, Closing, Lives
<1> HIDE DEF s
<1> QED
  BY <1>1, <1>2, <1>3, LocalStep

LEMMA PublicationOverStep == ASSUME NEW a \in Starts, IInv, PublicationOver(a) PROVE IInv'
<1> DEFINE r == life[a]
<1>1. CASE factory = "active"
  <2> DEFINE s == [r EXCEPT !.disp = "drain"]
  <2>1. Local(a) /\ life'[a] = s /\ backed' = backed
    BY <1>1, LocalIs DEF PublicationOver
  <2>2. s \in Lives
    BY Facts, Updates, ShapeTypes
  <2>3. Matched(s) /\ Placed(a)' /\ Disposed(a)' /\ Kept(a)
    BY <1>1, <2>1, Facts DEF Reached, PublicationOver, Closing, Lives
  <2> QED
    BY <2>1, <2>2, <2>3, LocalStep
<1>2. CASE ~(factory = "active")
  <2> DEFINE s == Closing([r EXCEPT !.disp = "close", !.failed = TRUE])
  <2>1. Local(a) /\ life'[a] = s /\ backed' = backed
    BY <1>2, LocalIs DEF PublicationOver
  <2>2. s \in Lives
    BY Facts, Updates, ShapeTypes
  <2>3. Matched(s) /\ Placed(a)' /\ Disposed(a)' /\ Kept(a)
    BY <1>2, <2>1, Facts DEF Reached, PublicationOver, Closing, Lives
  <2> QED
    BY <2>1, <2>2, <2>3, LocalStep
<1> QED
  BY <1>1, <1>2

\* A start takes an id and, with a backend, asks for its handle.
LEMMA StartStep ==
    ASSUME NEW a \in Starts, NEW i \in Ids, NEW kind \in {"create", "resume"}, IInv, Start(a, i, kind)
    PROVE  IInv'
<1>0. PICK h \in {"opening", "none"} :
         life' = [life EXCEPT ![a] = [Fresh EXCEPT !.pc = "acquiring", !.id = i, !.kind = kind, !.handle = h]]
  BY DEF Start
<1> DEFINE s == [Fresh EXCEPT !.pc = "acquiring", !.id = i, !.kind = kind, !.handle = h]
<1>1. Local(a) /\ life'[a] = s /\ backed' = backed
  BY <1>0, LocalIs, Zenon DEF Start
<1>2. s \in Lives
  BY FreshType, Updates DEF Starting
<1>3. s.pc = "acquiring" /\ s.id = i /\ s.handle = h /\ s.machine = "none" /\ s.scope = "none"
      /\ s.disp = "no" /\ s.tracked = FALSE /\ s.followed = FALSE /\ s.announced = FALSE
      /\ s.created = s.announced /\ s.disposed = 0
  BY DEF Fresh
<1>4. i # none /\ life[a].pc = "idle" /\ factory = "active"
  BY DEF Start
<1>5. life[a].machine = "none" /\ life[a].handle = "none" /\ life[a].disp = "no" /\ ~life[a].tracked
  BY <1>4, Facts
<1>6. Matched(s) /\ Placed(a)'
  BY <1>1, <1>3, <1>4
<1>7. Disposed(a)'
  BY <1>1, <1>3
<1>8. Kept(a)
  BY <1>1, <1>3, <1>4, <1>5
<1> QED
  BY ZenonT(120), <1>1, <1>2, <1>6, <1>7, <1>8, LocalStep

\* The outcome of setup is a choice.
LEMMA SetupDoneStep == ASSUME NEW a \in Starts, IInv, SetupDone(a) PROVE IInv'
<1> DEFINE r == life[a]
<1>1. PICK p \in {"storing", "stored"} : life' = [life EXCEPT ![a] = [r EXCEPT !.pc = p]]
  BY DEF SetupDone
<1>2. Local(a) /\ life'[a] = [r EXCEPT !.pc = p] /\ backed' = backed
  BY <1>1, LocalIs, Zenon DEF SetupDone
<1>3. [r EXCEPT !.pc = p] \in Lives
  BY Facts, Updates DEF Starting
<1>4. Matched(life'[a]) /\ Placed(a)' /\ Disposed(a)' /\ Kept(a)
  BY <1>2, Facts DEF SetupDone, Lives
<1> QED
  BY <1>2, <1>3, <1>4, LocalStep

LEMMA AnnouncedStep == ASSUME NEW a \in Starts, IInv, Announced(a) PROVE IInv'
<1> DEFINE r == life[a]
<1>1. PICK m \in {"running", "idle"} :
         life' = [life EXCEPT ![a] = [r EXCEPT !.pc = "live", !.machine = m]]
  BY DEF Announced
<1> DEFINE s == [r EXCEPT !.pc = "live", !.machine = m]
<1>2. Local(a) /\ life'[a] = s /\ backed' = backed
  BY <1>1, LocalIs, Zenon DEF Announced
<1>3. s \in Lives
  BY Facts, Updates
<1>4. Matched(s) /\ Placed(a)' /\ Disposed(a)' /\ Kept(a)
  BY <1>2, Facts DEF Announced, Lives
<1> QED
  BY <1>2, <1>3, <1>4, LocalStep

\* prepare() returns an agent, or throws with nothing built, or throws behind
\* what it has built.
LEMMA PrepareStep ==
    ASSUME NEW a \in Starts, IInv, Prepare(a), UNCHANGED <<backed, claim, sessions, agents, fibers>>,
           pc(a) \in {"acquiring", "mending"},
           life[a].handle = IF backed THEN "open" ELSE life[a].handle, life[a].handle \in {"open", "none"}
    PROVE  IInv'
<1> DEFINE r == life[a]
           minted == [Prepared(r) EXCEPT !.machine = "idle", !.caller = TRUE]
           late == [Dropped(Torn(minted, FALSE)) EXCEPT !.pc = "leaving"]
<1>1. PICK s \in {Dropped(r), Prepared(r), late} :
         life' = [life EXCEPT ![a] = s] /\ (s # Dropped(r) => factory = "active")
  BY Zenon DEF Prepare
<1>2. Local(a) /\ life'[a] = s /\ backed' = backed
  BY <1>1, LocalIs, Zenon
<1>3. late \in Lives
  BY Facts, Updates, ShapeTypes
<1>4. s \in Lives
  BY <1>3, Facts, ShapeTypes, Zenon
<1>5. CASE s = Dropped(r)
  <2>1. Matched(s) /\ Placed(a)' /\ Disposed(a)' /\ Kept(a)
    BY <1>2, <1>5, Facts DEF Dropped, Closing, Lives
  <2> QED
    BY <1>2, <1>4, <2>1, LocalStep
<1>6. CASE s = Prepared(r) /\ factory = "active"
  <2>1. Matched(s) /\ Placed(a)' /\ Disposed(a)' /\ Kept(a)
    BY <1>2, <1>6, Facts DEF Prepared, Lives
  <2> QED
    BY <1>2, <1>4, <2>1, LocalStep
<1>7. CASE s = late /\ factory = "active"
  <2>1. minted \in Lives /\ minted.handle = r.handle /\ minted.pc = "setup" /\ minted.scope = "live"
        /\ minted.machine = "idle" /\ minted.disp = r.disp /\ minted.id = r.id /\ minted.tracked
        /\ minted.announced = r.announced /\ minted.created = r.created /\ minted.disposed = r.disposed
    <3>1. minted \in Lives
      BY Facts, Updates, ShapeTypes
    <3> QED
      BY SMTT(30), <3>1, Facts DEF Prepared, Lives
  <2>2. s.handle \in {"none", "closing"} /\ (s.handle = "none" <=> r.handle = "none")
        /\ s.pc = "leaving" /\ s.scope = "live" /\ s.signal /\ s.machine = "idle" /\ s.disp = "drain"
        /\ s.id = r.id /\ s.tracked
        /\ s.announced = r.announced /\ s.created = r.created /\ s.disposed = r.disposed
    BY SMTT(60), <1>7, <2>1, Facts DEF Dropped, Closing, Torn, Lives
  <2> HIDE DEF late, minted
  <2> QED
    <3>1. Matched(s) /\ Placed(a)' /\ Disposed(a)' /\ Kept(a)
      BY <1>2, <1>7, <2>2, Facts
    <3> QED
      BY <1>2, <1>4, <3>1, LocalStep
<1> QED
  BY <1>1, <1>5, <1>6, <1>7

\* Both ways into prepare().
LEMMA CreatedStep == ASSUME NEW a \in Starts, IInv, Created(a) PROVE IInv'
BY Facts, PrepareStep DEF Created

LEMMA MendedStep == ASSUME NEW a \in Starts, IInv, Mended(a) PROVE IInv'
<1> DEFINE r == life[a]
<1>1. CASE sessions[Id(a)] = none
  BY <1>1, Facts, PrepareStep DEF Mended
<1>2. CASE sessions[Id(a)] # none
  <2>1. Local(a) /\ life'[a] = Dropped(r) /\ backed' = backed
    BY <1>2, LocalIs DEF Mended
  <2>2. Dropped(r) \in Lives
    BY Facts, ShapeTypes
  <2>3. Matched(Dropped(r)) /\ Placed(a)' /\ Disposed(a)' /\ Kept(a)
    BY <2>1, Facts DEF Mended, Dropped, Closing, Lives
  <2> QED
    BY <2>1, <2>2, <2>3, LocalStep
<1> QED
  BY <1>1, <1>2

-----------------------------------------------------------------------------
(* Steps that also change what is shared *)

\* What the invariant says of the backend, the registries and the factory.
LEMMA SharedFacts ==
    ASSUME IInv
    PROVE  /\ TypeShared
           /\ \A b \in Starts : Entered(b) /\ Placed(b) /\ Disposed(b) /\ Matched(life[b]) /\ life[b] \in Lives
           /\ \A b \in Starts : \A i \in Ids : claim[i] = b => Id(b) = i /\ life[b].handle \in {"open", "closing"}
BY DEF IInv, Types, TypeLife, Sound, Entered

\* The claim is taken and given back with the handle.
LEMMA GrantedStep == ASSUME NEW a \in Starts, IInv, Granted(a) PROVE IInv'
<1> DEFINE r == life[a]
<1>1. PICK h \in {"open", "closing"} : /\ life' = [life EXCEPT ![a] = [r EXCEPT !.handle = h]]
                                       /\ pc(a) # "acquiring" => h = "closing"
  BY DEF Granted
<1> DEFINE s == [r EXCEPT !.handle = h]
<1>2. life'[a] = s /\ life' = [life EXCEPT ![a] = life'[a]]
      /\ backed' = backed /\ factory' = factory /\ joined' = joined
  BY <1>1, Facts DEF Granted, fibers
<1>3. s \in Lives
  BY Facts, Updates
<1>4. Id(a) \in Ids /\ r.machine = "none" /\ r.handle = "opening"
  BY Facts DEF Granted, Lives
<1>5. Matched(s) /\ Placed(a)' /\ Disposed(a)' /\ Lasting(a)
  BY <1>1, <1>2, <1>4, Facts DEF Lives
<1>6. claim' = [claim EXCEPT ![Id(a)] = a] /\ claim[Id(a)] = none
      /\ sessions' = sessions /\ agents' = agents /\ owner' = owner
  BY DEF Granted, fibers
<1>7. TypeShared'
  BY <1>2, <1>4, <1>6, SharedFacts DEF TypeShared
<1>8. Entered(a)'
  <2>1. s.id = r.id /\ s.handle = h /\ (s.tracked <=> r.tracked) /\ ~r.announced /\ s.announced = r.announced
    BY <1>4, Facts DEF Lives
  <2>2. \A i \in Ids : claim'[i] = a <=> r.id = i
    BY <1>4, <1>6, SharedFacts DEF TypeShared
  <2> QED
    BY <1>2, <1>6, <2>1, <2>2, Facts DEF Entered
<1>9. \A b \in Starts : b # a => Entered(b)'
  <2> SUFFICES ASSUME NEW b \in Starts, b # a PROVE Entered(b)'
    OBVIOUS
  <2>1. \A i \in Ids : claim'[i] = b <=> claim[i] = b
    BY <1>4, <1>6, SharedFacts DEF TypeShared
  <2>2. life'[b] = life[b]
    BY <1>1, Facts
  <2> QED
    BY <1>6, <2>1, <2>2, SharedFacts, OthersEntered
<1> QED
  BY ZenonT(60), <1>2, <1>3, <1>5, <1>7, <1>8, <1>9, RecordStep

LEMMA CloseEndsStep == ASSUME NEW a \in Starts, IInv, CloseEnds(a) PROVE IInv'
<1> DEFINE r == life[a]
<1>1. PICK f \in BOOLEAN : life' = [life EXCEPT ![a] = [r EXCEPT !.handle = "closed", !.failed = f]]
  BY Zenon DEF CloseEnds
<1> DEFINE s == [r EXCEPT !.handle = "closed", !.failed = f]
<1>2. life'[a] = s /\ life' = [life EXCEPT ![a] = life'[a]]
      /\ backed' = backed /\ factory' = factory /\ joined' = joined
  BY <1>1, Facts DEF CloseEnds, fibers
<1>3. s \in Lives
  BY Facts, Updates
<1>4. Id(a) \in Ids /\ r.handle = "closing" /\ claim[Id(a)] = a
  BY Facts DEF CloseEnds, Lives, Entered
<1>5. Matched(s) /\ Placed(a)' /\ Disposed(a)' /\ Lasting(a)
  BY <1>1, <1>2, <1>4, Facts DEF Lives
<1>6. claim' = [claim EXCEPT ![Id(a)] = none]
      /\ sessions' = sessions /\ agents' = agents /\ owner' = owner
  BY DEF CloseEnds, fibers
<1>7. TypeShared'
  BY <1>2, <1>4, <1>6, SharedFacts DEF TypeShared
<1>8. Entered(a)'
  <2>1. s.id = r.id /\ s.handle = "closed" /\ (s.tracked <=> r.tracked) /\ s.announced = r.announced
        /\ s.disp = r.disp
    BY Facts DEF Lives
  <2>2. \A i \in Ids : claim'[i] # a
    BY <1>4, <1>6, SharedFacts DEF TypeShared
  <2> QED
    BY <1>2, <1>6, <2>1, <2>2, Facts DEF Entered
<1>9. \A b \in Starts : b # a => Entered(b)'
  <2> SUFFICES ASSUME NEW b \in Starts, b # a PROVE Entered(b)'
    OBVIOUS
  <2>1. \A i \in Ids : claim'[i] = b <=> claim[i] = b
    BY <1>4, <1>6, SharedFacts DEF TypeShared
  <2>2. life'[b] = life[b]
    BY <1>1, Facts
  <2> QED
    BY <1>6, <2>1, <2>2, SharedFacts, OthersEntered
<1> QED
  BY ZenonT(60), <1>2, <1>3, <1>5, <1>7, <1>8, <1>9, RecordStep

\* Leave takes out the entries of a and no others.
LEMMA LeaveIs ==
    ASSUME NEW a \in Starts, NEW store \in [Ids -> Starts \cup {none}]
    PROVE  /\ Leave(store, a) \in [Ids -> Starts \cup {none}]
           /\ \A i \in Ids : Leave(store, a)[i] # a
           /\ \A b \in Starts, i \in Ids : b # a => (Leave(store, a)[i] = b <=> store[i] = b)
BY DEF Leave

\* The entries of a start go when its disposal is announced.
LEMMA DetachStep == ASSUME NEW a \in Starts, IInv, Detach(a) PROVE IInv'
<1> DEFINE r == life[a]
           seen == r.announced /\ \E i \in Ids : agents[i] = a
<1>1. Id(a) \in Ids /\ r.machine = "idle" /\ r.disp = "close" /\ r.handle \in {"none", "closed"}
      /\ r.scope # "live" /\ r.disposed = 0
  BY Facts DEF Detach, Lives
<1>2. seen <=> r.announced
  BY <1>1, Facts DEF Entered
<1> DEFINE q(d) == [r EXCEPT !.tracked = FALSE, !.disposed = d]
<1>3. PICK d \in 0 .. 1 : /\ d = IF r.announced THEN 1 ELSE 0
                          /\ life' = [life EXCEPT ![a] = IF q(d).byOwner THEN Finish(q(d))
                                                         ELSE Unwound([q(d) EXCEPT !.disp = "unfollow"])]
  <2> DEFINE e == r.disposed + (IF seen THEN 1 ELSE 0)
  <2>1. life' = [life EXCEPT ![a] = IF q(e).byOwner THEN Finish(q(e))
                                    ELSE Unwound([q(e) EXCEPT !.disp = "unfollow"])]
    BY Zenon DEF Detach
  <2>2. e \in 0 .. 1 /\ e = IF r.announced THEN 1 ELSE 0
    BY <1>1, <1>2
  <2> QED
    BY <2>1, <2>2, Zenon
<1> DEFINE s == IF q(d).byOwner THEN Finish(q(d)) ELSE Unwound([q(d) EXCEPT !.disp = "unfollow"])
<1>4. life'[a] = s /\ life' = [life EXCEPT ![a] = life'[a]]
      /\ backed' = backed /\ factory' = factory /\ joined' = joined
  BY <1>3, Facts, Zenon DEF Detach, fibers
<1>5. q(d) \in Lives
  BY Facts, Updates
<1>6. s \in Lives
  BY <1>5, Updates, ShapeTypes
<1>7. s.pc = r.pc /\ s.id = r.id /\ s.handle = r.handle /\ s.machine = "idle" /\ s.scope = r.scope
      /\ s.disp \in {"unfollow", "done", "failed"} /\ s.tracked = FALSE /\ s.disposed = d
      /\ s.announced = r.announced /\ s.created = r.created /\ s.signal = r.signal
  <2>1. q(d).pc = r.pc /\ q(d).id = r.id /\ q(d).handle = r.handle /\ q(d).machine = "idle" /\ q(d).scope = r.scope
        /\ q(d).tracked = FALSE /\ q(d).disposed = d
        /\ q(d).announced = r.announced /\ q(d).created = r.created /\ q(d).signal = r.signal
    BY <1>1, Facts DEF Lives
  <2> HIDE DEF q
  <2> QED
    BY <1>1, <1>5, <2>1 DEF Finish, Unwound, Lives
<1> HIDE DEF s
<1>8. Matched(s) /\ Placed(a)' /\ Disposed(a)' /\ Lasting(a)
  <2>1. Matched(s)
    BY <1>1, <1>7, Facts
  <2>2. Released(a)'
    BY <1>4, <1>7
  <2>3. Placed(a)'
    BY <1>1, <1>4, <1>7, <2>2, Facts
  <2>4. Disposed(a)'
    BY SMTT(60), <1>1, <1>3, <1>4, <1>7, <2>2, Facts
  <2>5. Lasting(a)
    BY <1>1, <1>4, <1>7, <2>2, Facts
  <2> QED
    BY <2>1, <2>3, <2>4, <2>5
<1>9. claim' = claim /\ sessions' = Leave(sessions, a) /\ agents' = Leave(agents, a) /\ owner' = owner
  BY DEF Detach, fibers
<1>10. TypeShared'
  BY <1>4, <1>9, SharedFacts, LeaveIs DEF TypeShared
<1>11. Entered(a)'
  <2>1. \A i \in Ids : sessions'[i] # a /\ agents'[i] # a
    BY <1>9, SharedFacts, LeaveIs DEF TypeShared
  <2> QED
    BY <1>4, <1>7, <1>9, <2>1, Facts DEF Entered
<1>12. \A b \in Starts : b # a => Entered(b)'
  <2> SUFFICES ASSUME NEW b \in Starts, b # a PROVE Entered(b)'
    OBVIOUS
  <2>1. \A i \in Ids : /\ sessions'[i] = b <=> sessions[i] = b
                       /\ agents'[i] = b <=> agents[i] = b
    BY <1>9, SharedFacts, LeaveIs DEF TypeShared
  <2>2. life'[b] = life[b]
    BY <1>4, Facts
  <2> QED
    BY <1>9, <2>1, <2>2, SharedFacts, OthersEntered
<1> QED
  BY <1>4, <1>6, <1>8, <1>10, <1>11, <1>12, RecordStep

\* publish() enters both registries, or goes no further than one of its checks.
LEMMA PublishStep == ASSUME NEW a \in Starts, IInv, Publish(a) PROVE IInv'
<1> DEFINE r == life[a]
           i == Id(a)
           free == ~r.signal /\ sessions[i] = none
           good == [r EXCEPT !.pc = "announcing", !.announced = TRUE, !.created = TRUE]
<1>1. i \in Ids /\ r.machine = "maintenance" /\ r.tracked /\ ~r.announced /\ ~Released(a) /\ r.disposed = 0
      /\ r.handle = (IF backed THEN "open" ELSE r.handle) /\ r.disp \in {"no", "drain"}
  BY Facts DEF Publish, Lives
<1> DEFINE bad(c) == RolledBack([r EXCEPT !.caller = c])
<1>2. PICK c \in BOOLEAN : \/ life' = [life EXCEPT ![a] = good] /\ free /\ agents[i] = none
                          \/ life' = [life EXCEPT ![a] = bad(c)]
  BY Zenon DEF Publish
<1> DEFINE s == life'[a]
<1>3. /\ life' = [life EXCEPT ![a] = life'[a]]
      /\ \/ s = good /\ free /\ agents[i] = none
         \/ s = bad(c)
      /\ backed' = backed /\ factory' = factory /\ joined' = joined /\ claim' = claim /\ owner' = owner
  BY <1>2, Facts DEF Publish, fibers
<1>4. good \in Lives /\ bad(c) \in Lives /\ s \in Lives
  <2>1. good \in Lives
    BY Facts, Updates DEF Starting
  <2>2. bad(c) \in Lives
    BY Facts, Updates, ShapeTypes
  <2> QED
    BY <1>3, <2>1, <2>2, Zenon
<1>5. /\ s.id = r.id /\ s.handle = r.handle /\ s.tracked = r.tracked /\ s.created = s.announced
      /\ s.scope = r.scope /\ s.disposed = 0
      /\ \/ s.pc = "announcing" /\ s.announced /\ s.machine = "maintenance" /\ s.disp = r.disp /\ s.signal = r.signal
            /\ free /\ agents[i] = none
         \/ s.pc = "rollback" /\ ~s.announced /\ s.machine = "idle" /\ s.disp = "drain" /\ s.signal
  <2>1. CASE s = good /\ free /\ agents[i] = none
    <3>1. /\ good.id = r.id /\ good.handle = r.handle /\ good.tracked = r.tracked
          /\ good.created = good.announced /\ good.scope = r.scope /\ good.disposed = r.disposed
          /\ good.pc = "announcing" /\ good.announced /\ good.machine = r.machine
          /\ good.disp = r.disp /\ good.signal = r.signal
      BY Facts DEF Lives
    <3> HIDE DEF good
    <3> QED
      BY <1>1, <2>1, <3>1
  <2>2. CASE s = bad(c)
    <3> DEFINE q == [r EXCEPT !.caller = c]
    <3>1. /\ q.id = r.id /\ q.handle = r.handle /\ q.tracked = r.tracked /\ q.disp = r.disp
          /\ q.created = r.created /\ q.announced = r.announced /\ q.scope = r.scope
          /\ q.disposed = r.disposed /\ q.signal = r.signal
      BY Facts DEF Lives
    <3> q \in Lives
      BY Facts, Updates
    <3>2. RolledBack(q).pc = "rollback" /\ RolledBack(q).machine = "idle" /\ RolledBack(q).id = q.id
          /\ RolledBack(q).handle = q.handle /\ RolledBack(q).tracked = q.tracked
          /\ RolledBack(q).created = q.created /\ RolledBack(q).announced = q.announced
          /\ RolledBack(q).scope = q.scope /\ RolledBack(q).disposed = q.disposed
          /\ RolledBack(q).disp = (IF q.disp = "no" THEN "drain" ELSE q.disp)
          /\ RolledBack(q).signal = (IF q.disp = "no" THEN TRUE ELSE q.signal)
      BY <3>1 DEF RolledBack, Torn, Lives
    <3>3. r.created = r.announced /\ (r.disp # "no" => r.signal)
      BY Facts
    <3> HIDE DEF q
    <3> QED
      BY <1>1, <2>2, <3>1, <3>2, <3>3 DEF q
  <2> QED
    BY <1>3, <2>1, <2>2
<1> HIDE DEF s
<1>6. Matched(life'[a]) /\ Placed(a)' /\ Disposed(a)' /\ Lasting(a)
  <2>1. life'[a] = s /\ r.pc \notin Before /\ s.pc \notin Before /\ r.machine # "none" /\ r.pc \in Initializing
    BY <1>1, <1>5, Facts DEF Publish, Before, Initializing, Placed, s
  <2>2. Matched(life'[a])
    BY <1>1, <1>5, <2>1, Facts DEF Matched, Lives
  <2>3. ~Released(a)'
    BY <1>1, <1>3, <1>5, <2>1 DEF Released, Ended
  <2>4. Placed(a)'
    <3>1. /\ s.pc \notin Before /\ s.pc \notin {"setup", "storing", "stored", "live", "failed"}
          /\ s.machine # "running" /\ s.machine # "none" /\ s.tracked /\ s.handle # "opening"
          /\ (s.pc \in Initializing <=> s.machine = "maintenance")
          /\ (s.pc = "announcing" => s.announced)
      BY <1>1, <1>5, <2>1, Facts
    <3> QED
      BY <2>1, <2>3, <3>1
  <2>5. Disposed(a)'
    BY SMTT(60), <1>1, <1>3, <1>5, <2>1, <2>3, Facts DEF Disposed, Publish, Late
  <2>6. Lasting(a)
    BY <1>1, <1>3, <1>5, <2>1, <2>3, Facts DEF Lasting, Answered, Released, Ended, Initializing
  <2> QED
    BY <2>2, <2>4, <2>5, <2>6
<1>7. /\ sessions' = IF free THEN [sessions EXCEPT ![i] = a] ELSE sessions
      /\ agents' = IF free /\ agents[i] = none THEN [agents EXCEPT ![i] = a] ELSE agents
  BY DEF Publish
<1>8. TypeShared'
  BY <1>1, <1>3, <1>7, SharedFacts DEF TypeShared
<1>9. \A b \in Starts : b # a => Entered(b)'
  <2> SUFFICES ASSUME NEW b \in Starts, b # a PROVE Entered(b)'
    OBVIOUS
  <2>1. \A j \in Ids : /\ sessions'[j] = b <=> sessions[j] = b
                       /\ agents'[j] = b <=> agents[j] = b
    BY <1>1, <1>7, SharedFacts DEF TypeShared
  <2>2. life'[b] = life[b]
    BY <1>3, Facts
  <2> QED
    BY <1>3, <2>1, <2>2, SharedFacts, OthersEntered
<1>10. Entered(a)'
  <2>1. \A j \in Ids : (sessions'[j] = a => j = i) /\ (agents'[j] = a => sessions'[j] = a)
    BY <1>1, <1>7, Facts, SharedFacts DEF Entered, TypeShared
  <2>2. s.announced => agents'[i] = a
    BY <1>1, <1>5, <1>7, SharedFacts DEF TypeShared
  <2>3. life'[a].id = i /\ life'[a].handle = r.handle /\ life'[a].tracked /\ r.id = i
        /\ life'[a].announced = s.announced
    BY <1>1, <1>5 DEF s
  <2>4. \A j \in Ids : claim[j] = a <=> i = j /\ r.handle \in {"open", "closing"}
    BY Facts, Zenon DEF Entered
  <2>5. \A j \in Ids : (sessions'[j] = a => i = j) /\ (agents'[j] = a => sessions'[j] = a)
    BY <2>1, Zenon
  <2>6. Id(a)' = i /\ claim' = claim /\ (s.announced => agents'[Id(a)'] = a)
    BY <1>3, <2>2, <2>3
  <2> QED
    BY <2>3, <2>4, <2>5, <2>6 DEF Entered
<1> QED
  BY <1>3, <1>4, <1>6, <1>8, <1>9, <1>10, RecordStep DEF s

\* A step of the owner changes its fiber and the record.
LEMMA OwnerStep ==
    ASSUME NEW a \in Starts, IInv, life' = [life EXCEPT ![a] = life'[a]],
           UNCHANGED <<backed, claim, sessions, agents, factory, joined>>,
           owner' \in [Starts -> {"active", "unloading", "gone"}],
           Kept(a), Id(a)' = Id(a), life'[a] \in Lives, Matched(life'[a]), Placed(a)', Disposed(a)'
    PROVE  IInv'
<1>1. TypeShared'
  BY SharedFacts DEF TypeShared
<1>2. Entered(a)'
  BY Facts DEF Entered
<1>3. \A b \in Starts : b # a => Entered(b)'
  <2> SUFFICES ASSUME NEW b \in Starts, b # a PROVE Entered(b)'
    OBVIOUS
  <2>1. life'[b] = life[b]
    BY Facts
  <2> QED
    BY <2>1, SharedFacts, OthersEntered
<1> QED
  BY <1>1, <1>2, <1>3, RecordStep

LEMMA OwnerUnloadStep == ASSUME NEW a \in Starts, IInv, OwnerUnload(a) PROVE IInv'
<1> DEFINE r == life[a]
           s == life'[a]
<1>1. /\ life' = [life EXCEPT ![a] = life'[a]]
      /\ \/ s = r
         \/ s = Torn(r, TRUE) /\ r.followed /\ r.disp = "no"
         \/ s = Unwound(r) /\ r.followed
  <2>1. PICK q : /\ life' = [life EXCEPT ![a] = q]
                 /\ \/ q = r
                    \/ q = Torn(r, TRUE) /\ r.followed /\ r.disp = "no"
                    \/ q = Unwound(r) /\ r.followed
    BY Zenon DEF OwnerUnload
  <2>2. life'[a] = q
    BY <2>1, Facts
  <2> QED
    BY <2>1, <2>2, Zenon
<1>2. s \in Lives
  BY ZenonT(120), <1>1, Facts, ShapeTypes
<1>3. UNCHANGED <<backed, claim, sessions, agents, factory, joined>>
      /\ owner' \in [Starts -> {"active", "unloading", "gone"}]
  BY SharedFacts DEF OwnerUnload, TypeShared
<1>4. CASE s = r
  <2>1. Matched(s) /\ Placed(a)' /\ Disposed(a)' /\ Kept(a) /\ Id(a)' = Id(a)
    BY <1>3, <1>4, Facts
  <2> QED
    BY <1>1, <1>2, <1>3, <2>1, OwnerStep
<1>5. CASE s = Torn(r, TRUE) /\ r.followed /\ r.disp = "no"
  <2>1. Matched(s) /\ Placed(a)' /\ Disposed(a)' /\ Kept(a) /\ Id(a)' = Id(a)
    BY <1>3, <1>5, Facts DEF Torn, Lives
  <2> QED
    BY <1>1, <1>2, <1>3, <2>1, OwnerStep
<1>6. CASE s = Unwound(r) /\ r.followed
  <2>1. Matched(s) /\ Placed(a)' /\ Disposed(a)' /\ Kept(a) /\ Id(a)' = Id(a)
    BY <1>3, <1>6, Facts DEF Unwound, Lives
  <2> QED
    BY <1>1, <1>2, <1>3, <2>1, OwnerStep
<1> QED
  BY <1>1, <1>4, <1>5, <1>6

\* Nothing of the agent changes when the owner's unload settles.
LEMMA OwnerUnloadedStep == ASSUME NEW a \in Starts, IInv, OwnerUnloaded(a) PROVE IInv'
<1> DEFINE s == [life[a] EXCEPT !.followed = FALSE]
<1>1. life'[a] = s /\ life' = [life EXCEPT ![a] = life'[a]]
  BY Facts DEF OwnerUnloaded
<1>2. s \in Lives
  BY Facts, Updates
<1>3. UNCHANGED <<backed, claim, sessions, agents, factory, joined>>
      /\ owner' \in [Starts -> {"active", "unloading", "gone"}]
  BY SharedFacts DEF OwnerUnloaded, TypeShared
<1>4. Matched(s) /\ Placed(a)' /\ Disposed(a)' /\ Kept(a) /\ Id(a)' = Id(a)
  BY <1>1, <1>3, Facts DEF Lives
<1> QED
  BY ZenonT(120), <1>1, <1>2, <1>3, <1>4, OwnerStep

\* The one step that changes many records: every tracked start is torn down.
LEMMA FactoryUnloadStep == ASSUME IInv, FactoryUnload PROVE IInv'
<1> DEFINE torn(r) == IF r.disp = "no" THEN Torn(r, FALSE) ELSE r
<1>1. /\ joined' = {a \in Starts : life[a].tracked}
      /\ backed' = backed /\ claim' = claim /\ sessions' = sessions /\ agents' = agents /\ owner' = owner
      /\ factory = "active" /\ factory' = "unloading"
  BY DEF FactoryUnload
<1>2. \A b \in Starts : life'[b] = IF life[b].tracked THEN Unwound(torn(life[b])) ELSE life[b]
  BY <1>1, Zenon DEF FactoryUnload
<1>3. ASSUME NEW b \in Starts
      PROVE  /\ life'[b] \in Lives /\ Matched(life'[b]) /\ Placed(b)' /\ Disposed(b)' /\ Entered(b)'
             /\ life'[b].scope # "live" /\ (life'[b].machine # "none" => b \in joined' \/ Released(b)')
  <2>1. CASE ~life[b].tracked
    <3>1. life'[b] = life[b]
      BY <1>2, <2>1
    <3>2. Entered(b)'
      BY <1>1, <3>1, SharedFacts, OthersEntered
    <3> QED
      BY <1>1, <2>1, <3>1, <3>2, SharedFacts
  <2>2. CASE life[b].tracked
    <3> DEFINE r == life[b]
               t == torn(r)
    <3>1. t \in Lives
      BY SharedFacts, ShapeTypes
    <3>2. /\ t.pc = r.pc /\ t.id = r.id /\ t.handle = r.handle /\ t.machine = r.machine /\ t.scope = r.scope
          /\ t.tracked = r.tracked /\ t.followed = r.followed /\ t.announced = r.announced
          /\ t.created = r.created /\ t.disposed = r.disposed
          /\ \/ r.disp = "no" /\ t.signal /\ t.disp = IF r.pc = "announcing" THEN "publication" ELSE "drain"
             \/ r.disp # "no" /\ t.signal = r.signal /\ t.disp = r.disp
      <4>1. CASE r.disp = "no"
        BY <4>1, SharedFacts DEF Torn, Lives
      <4>2. CASE r.disp # "no"
        <5>1. t = r
          BY <4>2
        <5>2. r.signal \in BOOLEAN
          BY SharedFacts DEF Lives
        <5> QED
          BY <4>2, <5>1, Zenon
      <4> QED
        BY <4>1, <4>2, Zenon
    <3> HIDE DEF t
    <3>3. life'[b] = Unwound(t)
      BY <1>2, <2>2 DEF t
    <3>4. life'[b] \in Lives
      BY <3>1, <3>3, ShapeTypes
    <3>5. /\ life'[b].pc = r.pc /\ life'[b].id = r.id /\ life'[b].handle = r.handle /\ life'[b].machine = r.machine
          /\ life'[b].scope = (IF r.scope = "live" THEN "unwinding" ELSE r.scope)
          /\ life'[b].tracked = r.tracked /\ life'[b].followed = r.followed /\ life'[b].announced = r.announced
          /\ life'[b].created = r.created /\ life'[b].disposed = r.disposed
          /\ life'[b].signal = t.signal /\ life'[b].disp = t.disp
      BY <3>1, <3>2, <3>3 DEF Unwound, Lives
    <3>6. Matched(life'[b]) /\ Placed(b)' /\ Disposed(b)' /\ life'[b].scope # "live"
      BY SMTT(30), <1>1, <2>2, <3>2, <3>5, SharedFacts
    <3>7. Entered(b)'
      BY SMTT(30), <1>1, <3>2, <3>5, SharedFacts DEF Entered
    <3> QED
      BY <1>1, <2>2, <3>4, <3>6, <3>7
  <2> QED
    BY <2>1, <2>2
<1>4. Types'
  <2>1. TypeShared'
    BY <1>1, SharedFacts DEF TypeShared
  <2>2. TypeLife'
    BY <1>1, <1>3 DEF FactoryUnload, TypeLife
  <2> QED
    BY <1>3, <2>1, <2>2 DEF Types
<1>5. \A b \in Starts : Reached(b)'
  BY <1>1, <1>3 DEF Reached
<1> QED
  BY <1>3, <1>4, <1>5 DEF IInv, Sound

\* The factory's unload settles behind all it joined, or behind a rejection.
LEMMA FactoryUnloadedStep == ASSUME IInv, FactoryUnloaded PROVE IInv'
<1>1. /\ UNCHANGED <<backed, life, claim, sessions, agents, owner, joined>>
      /\ factory = "unloading" /\ factory' = "gone"
      /\ \/ \A a \in Starts : Answered(a) /\ (a \in joined => Ended(a))
         \/ \E a \in joined : life[a].disp = "failed"
  BY DEF FactoryUnloaded
<1>2. \A b \in Starts : Placed(b)' /\ Disposed(b)' /\ Matched(life[b])'
  BY <1>1, SharedFacts
<1>3. \A b \in Starts : Entered(b)'
  BY <1>1, SharedFacts DEF Entered
<1>4. \A b \in Starts : Reached(b)'
  <2>1. \A b \in Starts : Reached(b)
    BY DEF IInv, Sound
  <2> QED
    BY <1>1, <2>1 DEF Reached
<1>5. Types'
  BY <1>1, <1>2 DEF IInv, Types, TypeLife, TypeShared
<1> QED
  BY <1>2, <1>3, <1>4, <1>5 DEF IInv, Sound

-----------------------------------------------------------------------------
(* Theorems *)

\* The invariant holds at first, is kept by every step, and so always holds.
LEMMA InitInv == Init => IInv
<1> SUFFICES ASSUME Init PROVE IInv
  OBVIOUS
<1>1. \A a \in Starts : life[a] = Fresh
  BY DEF Init
<1>2. /\ Fresh.pc = "idle" /\ Fresh.id = none /\ Fresh.handle = "none" /\ Fresh.machine = "none"
      /\ Fresh.scope = "none" /\ Fresh.disp = "no" /\ Fresh.disposed = 0
      /\ Fresh.tracked = FALSE /\ Fresh.followed = FALSE
      /\ Fresh.announced = FALSE /\ Fresh.created = FALSE
  BY DEF Fresh
<1>3. TypeLife /\ TypeShared
  BY FreshType DEF Init, TypeLife, TypeShared
<1>4. \A a \in Starts : Matched(life[a]) /\ Placed(a) /\ Disposed(a)
  BY <1>1, <1>2
<1>5. \A a \in Starts : Entered(a) /\ Reached(a)
  BY <1>1, <1>2 DEF Init, Entered, Reached
<1> QED
  BY <1>3, <1>4, <1>5 DEF IInv, Types, Sound

LEMMA NextInv == IInv /\ [Next]_vars => IInv'
<1> SUFFICES ASSUME IInv, [Next]_vars PROVE IInv'
  OBVIOUS
<1>1. CASE UNCHANGED vars
  <2>1. \A a \in Starts : Placed(a)' /\ Disposed(a)' /\ Entered(a)' /\ Matched(life'[a])
    BY <1>1, SharedFacts DEF vars, fibers, Entered
  <2>2. \A a \in Starts : Reached(a)'
    BY <1>1 DEF vars, fibers, IInv, Sound, Reached
  <2>3. TypeLife' /\ TypeShared'
    BY <1>1 DEF vars, fibers, IInv, Types, TypeLife, TypeShared
  <2> QED
    BY <2>1, <2>2, <2>3 DEF IInv, Types, Sound
<1>2. ASSUME NEW a \in Starts, NEW i \in Ids, NEW kind \in {"create", "resume"}, Start(a, i, kind)
      PROVE  IInv'
  BY <1>2, StartStep
<1>3. ASSUME NEW a \in Starts,
             \/ Granted(a) \/ Refused(a) \/ AcquireAborts(a) \/ Created(a) \/ Opened(a)
             \/ Loaded(a) \/ Mended(a) \/ ResumeFails(a) \/ DropEnds(a)
      PROVE  IInv'
  BY <1>3, GrantedStep, RefusedStep, AcquireAbortsStep, CreatedStep, OpenedStep, LoadedStep, MendedStep,
     ResumeFailsStep, DropEndsStep
<1>4. ASSUME NEW a \in Starts,
             \/ SetupDone(a) \/ SetupAborts(a) \/ InitializeFails(a)
             \/ Publish(a) \/ Announced(a) \/ AnnounceFails(a) \/ RolledBackEnds(a)
      PROVE  IInv'
  BY <1>4, SetupDoneStep, SetupAbortsStep, InitializeFailsStep, PublishStep, AnnouncedStep, AnnounceFailsStep,
     RolledBackEndsStep
<1>5. ASSUME NEW a \in Starts,
             \/ CallerAborts(a) \/ Run(a) \/ Rest(a) \/ OwnerUnload(a) \/ OwnerUnloaded(a)
      PROVE  IInv'
  BY <1>5, CallerAbortsStep, RunStep, RestStep, OwnerUnloadStep, OwnerUnloadedStep
<1>6. ASSUME NEW a \in Starts,
             \/ HandleDispose(a) \/ PublicationOver(a) \/ Drained(a) \/ ScopeEnds(a) \/ ScopeOver(a)
             \/ CloseEnds(a) \/ Detach(a) \/ Unfollowed(a)
      PROVE  IInv'
  BY <1>6, HandleDisposeStep, PublicationOverStep, DrainedStep, ScopeEndsStep, ScopeOverStep, CloseEndsStep,
     DetachStep, UnfollowedStep
<1>7. CASE FactoryUnload \/ FactoryUnloaded
  BY <1>7, FactoryUnloadStep, FactoryUnloadedStep
<1> QED
  BY <1>1, <1>2, <1>3, <1>4, <1>5, <1>6, <1>7 DEF Next

LEMMA Invariance == Spec => []IInv
BY InitInv, NextInv, PTL DEF Spec

\* Every reachable state is well typed, for any number of starts and ids.
THEOREM TypeCorrect == Spec => []TypeOK
<1>1. IInv => TypeOK
  BY TypesAre DEF IInv
<1> QED
  BY <1>1, Invariance, PTL

\* However a start fails or an agent is disposed of, by whom and when, nothing
\* of it is left: driver, scope, handle, claim, registry entries, tracking.
THEOREM NothingLeft == Spec => []NoResidue
<1>1. IInv => NoResidue
  <2> SUFFICES ASSUME IInv, NEW a \in Starts, Ended(a) \/ pc(a) = "failed"
               PROVE  /\ life[a].machine \in {"none", "idle"} /\ life[a].scope # "live"
                      /\ life[a].handle # "open" /\ ~life[a].tracked
                      /\ \A i \in Ids : a \notin {sessions[i], agents[i]}
                                        /\ (claim[i] = a => life[a].handle = "closing" /\ ~Ended(a))
    BY DEF NoResidue
  <2> QED
    BY Facts DEF Entered
<1> QED
  BY <1>1, Invariance, PTL

\* agent/disposed is emitted exactly once for what was announced, and never for
\* what was not.
THEOREM DisposedOnce == Spec => []Paired
<1>1. IInv => Paired
  <2> SUFFICES ASSUME IInv, NEW a \in Starts
               PROVE  /\ life[a].disposed <= (IF life[a].created THEN 1 ELSE 0)
                      /\ Ended(a) => life[a].disposed = (IF life[a].created THEN 1 ELSE 0)
    BY DEF Paired
  <2>1. life[a].announced \in BOOLEAN /\ life[a].created = life[a].announced
        /\ life[a].disposed = IF life[a].announced /\ Released(a) THEN 1 ELSE 0
    BY Facts DEF Lives
  <2>2. CASE life[a].announced
    BY <2>1, <2>2
  <2>3. CASE ~life[a].announced
    BY <2>1, <2>3
  <2> QED
    BY <2>2, <2>3
<1> QED
  BY <1>1, Invariance, PTL

\* A driver that runs has an open handle, its claim and its session's entry.
THEOREM RunsWritable == Spec => []Writable
<1>1. IInv => Writable
  <2> SUFFICES ASSUME IInv, NEW a \in Starts, backed, life[a].machine = "running"
               PROVE  life[a].handle = "open" /\ claim[Id(a)] = a /\ sessions[Id(a)] = a
    BY DEF Writable
  <2>1. Id(a) \in Ids
    BY Facts DEF Lives
  <2> QED
    BY <2>1, Facts DEF Entered
<1> QED
  BY <1>1, Invariance, PTL

\* The two registries agree, hold nothing the factory has stopped tracking and
\* keep every agent until its disposal.
THEOREM RegistriesAgree == Spec => []Registered
<1>1. IInv => Registered
  BY SharedFacts DEF Registered, Entered, TypeShared
<1> QED
  BY <1>1, Invariance, PTL

\* The registries hold what lives, and what runs can store its events.
THEOREM RegistriesHold == Spec => []RegistryKept
<1>1. Registered /\ Writable => RegistryKept
  BY DEF RegistryKept
<1> QED
  BY <1>1, RegistriesAgree, RunsWritable, PTL

\* The factory's unload, when no disposal rejects, ends behind all of them.
THEOREM UnloadDrains == Spec => []FactoryDrains
<1>1. IInv => FactoryDrains
  BY Facts DEF FactoryDrains, Reached
<1> QED
  BY <1>1, Invariance, PTL

\* A step that does not announce the disposal of a.
Silent(a) == life'[a].disposed = life[a].disposed

\* No other step than Detach announces a disposal.
LEMMA SilentStep ==
    ASSUME NEW a \in Starts, NEW b \in Starts, IInv,
           \/ Granted(b) \/ Refused(b) \/ AcquireAborts(b) \/ Opened(b) \/ Loaded(b) \/ ResumeFails(b)
           \/ DropEnds(b) \/ SetupDone(b) \/ SetupAborts(b) \/ InitializeFails(b) \/ AnnounceFails(b)
           \/ RolledBackEnds(b) \/ CallerAborts(b) \/ Run(b) \/ Rest(b) \/ OwnerUnload(b) \/ OwnerUnloaded(b)
           \/ HandleDispose(b) \/ PublicationOver(b) \/ Drained(b) \/ ScopeEnds(b) \/ ScopeOver(b)
           \/ CloseEnds(b) \/ Unfollowed(b) \/ Announced(b)
    PROVE  Silent(a)
<1>1. CASE Granted(b)
  BY SMTT(30), <1>1, Facts DEF Granted, Silent, Lives
<1>2. CASE Refused(b)
  BY <1>2, Facts DEF Refused, Silent, Lives
<1>3. CASE AcquireAborts(b)
  BY <1>3, Facts DEF AcquireAborts, Silent, Lives
<1>4. CASE Opened(b)
  BY <1>4, Facts DEF Opened, Silent, Lives
<1>5. CASE Loaded(b)
  BY <1>5, Facts DEF Loaded, Dropped, Closing, Silent, Lives
<1>6. CASE ResumeFails(b)
  BY <1>6, Facts DEF ResumeFails, Dropped, Closing, Silent, Lives
<1>7. CASE DropEnds(b)
  BY <1>7, Facts DEF DropEnds, Silent, Lives
<1>8. CASE SetupDone(b)
  BY <1>8, Facts DEF SetupDone, Silent, Lives
<1>9. CASE SetupAborts(b)
  BY <1>9, Facts DEF SetupAborts, RolledBack, Torn, Silent, Lives
<1>10. CASE InitializeFails(b)
  BY <1>10, Facts DEF InitializeFails, RolledBack, Torn, Silent, Lives
<1>11. CASE AnnounceFails(b)
  BY <1>11, Facts DEF AnnounceFails, RolledBack, Torn, Silent, Lives
<1>12. CASE RolledBackEnds(b)
  BY <1>12, Facts DEF RolledBackEnds, Silent, Lives
<1>13. CASE CallerAborts(b)
  BY <1>13, Facts DEF CallerAborts, Silent, Lives
<1>14. CASE Run(b)
  BY <1>14, Facts DEF Run, Silent, Lives
<1>15. CASE Rest(b)
  BY <1>15, Facts DEF Rest, Silent, Lives
<1>16. CASE OwnerUnload(b)
  BY <1>16, Facts DEF OwnerUnload, Torn, Unwound, Silent, Lives
<1>17. CASE OwnerUnloaded(b)
  BY <1>17, Facts DEF OwnerUnloaded, Silent, Lives
<1>18. CASE HandleDispose(b)
  BY <1>18, Facts DEF HandleDispose, Torn, Silent, Lives
<1>19. CASE PublicationOver(b)
  BY <1>19, Facts DEF PublicationOver, Closing, Silent, Lives
<1>20. CASE Drained(b)
  BY <1>20, Facts DEF Drained, Unwound, Silent, Lives
<1>21. CASE ScopeEnds(b)
  BY <1>21, Facts DEF ScopeEnds, Silent, Lives
<1>22. CASE ScopeOver(b)
  BY <1>22, Facts DEF ScopeOver, Closing, Silent, Lives
<1>23. CASE CloseEnds(b)
  <2>1. PICK f \in BOOLEAN : life' = [life EXCEPT ![b] = [life[b] EXCEPT !.handle = "closed", !.failed = f]]
    BY <1>23, Zenon DEF CloseEnds
  <2> QED
    BY <2>1, Facts DEF Silent, Lives
<1>24. CASE Unfollowed(b)
  BY <1>24, Facts DEF Unfollowed, Finish, Silent, Lives
<1>25. CASE Announced(b)
  <2>1. PICK m \in {"running", "idle"} : life' = [life EXCEPT ![b] = [[life[b] EXCEPT !.pc = "live"] EXCEPT !.machine = m]]
    BY <1>25, Zenon DEF Announced
  <2> QED
    BY <2>1, Facts DEF Silent, Lives
<1> QED
  BY <1>1, <1>2, <1>3, <1>4, <1>5, <1>6, <1>7, <1>8, <1>9, <1>10, <1>11, <1>12, <1>13, <1>14, <1>15, <1>16, <1>17, <1>18, <1>19, <1>20, <1>21, <1>22, <1>23, <1>24, <1>25

LEMMA SilentPrepare ==
    ASSUME NEW a \in Starts, NEW b \in Starts, IInv, Prepare(b)
    PROVE  Silent(a)
<1> DEFINE r == life[b]
           torn == Torn([Prepared(r) EXCEPT !.machine = "idle", !.caller = TRUE], FALSE)
           late == [Dropped(torn) EXCEPT !.pc = "leaving"]
<1>1. \/ life' = [life EXCEPT ![b] = Dropped(r)]
      \/ life' = [life EXCEPT ![b] = Prepared(r)]
      \/ life' = [life EXCEPT ![b] = late]
  BY Zenon DEF Prepare
<1>2. Dropped(r).pc = "closing" /\ Dropped(r).disposed = r.disposed
  BY Facts DEF Dropped, Closing, Lives
<1>3. Prepared(r).pc = "setup" /\ Prepared(r).disposed = r.disposed
  BY Facts DEF Prepared, Lives
<1>4. late.pc = "leaving" /\ late.disposed = r.disposed
  <2>1. torn \in Lives
    BY Facts, Updates, ShapeTypes
  <2>2. torn.disposed = r.disposed
    BY Facts DEF Torn, Prepared, Lives
  <2> HIDE DEF torn
  <2> QED
    BY <2>1, <2>2 DEF Dropped, Closing, Lives
<1> HIDE DEF late
<1> QED
  BY <1>1, <1>2, <1>3, <1>4, Facts DEF Silent

LEMMA SilentPublish ==
    ASSUME NEW a \in Starts, NEW b \in Starts, IInv, Publish(b)
    PROVE  Silent(a)
<1> DEFINE r == life[b]
           good == [r EXCEPT !.pc = "announcing", !.announced = TRUE, !.created = TRUE]
           bad(c) == RolledBack([r EXCEPT !.caller = c])
<1>1. PICK c \in BOOLEAN : \/ life' = [life EXCEPT ![b] = good]
                          \/ life' = [life EXCEPT ![b] = bad(c)]
  BY Zenon DEF Publish
<1>2. good.pc = "announcing" /\ good.disposed = r.disposed
  BY Facts DEF Lives
<1>3. bad(c).pc = "rollback" /\ bad(c).disposed = r.disposed
  BY Facts DEF RolledBack, Torn, Lives
<1> HIDE DEF good, bad
<1> QED
  BY <1>1, <1>2, <1>3, Facts DEF Silent

LEMMA SilentStart ==
    ASSUME NEW a \in Starts, NEW b \in Starts, NEW i \in Ids, NEW kind \in {"create", "resume"}, IInv,
           Start(b, i, kind)
    PROVE  Silent(a)
BY Facts DEF Start, Fresh, Silent, Lives

LEMMA SilentMended == ASSUME NEW a \in Starts, NEW b \in Starts, IInv, Mended(b) PROVE Silent(a)
<1>1. CASE sessions[Id(b)] = none
  BY <1>1, SilentPrepare DEF Mended
<1>2. CASE sessions[Id(b)] # none
  <2>1. Dropped(life[b]).pc = "closing" /\ Dropped(life[b]).disposed = life[b].disposed
    BY Facts DEF Dropped, Closing, Lives
  <2> QED
    BY <1>2, <2>1, Facts DEF Mended, Silent
<1> QED
  BY <1>1, <1>2

\* Nobody else than Detach(a) announces the disposal of a.
LEMMA Marks ==
    ASSUME NEW a \in Starts, IInv, Next, ~Silent(a)
    PROVE  Detach(a)
<1>1. ASSUME NEW b \in Starts, Detach(b) PROVE b = a
  <2> SUFFICES ASSUME b # a PROVE FALSE
    OBVIOUS
  <2>1. \E q : life' = [life EXCEPT ![b] = q]
    BY <1>1 DEF Detach
  <2> QED
    BY <2>1, Facts DEF Silent
<1>2. CASE FactoryUnload
  <2>1. life'[a] = life[a] \/ life'[a] = Unwound(life[a]) \/ life'[a] = Unwound(Torn(life[a], FALSE))
    BY <1>2 DEF FactoryUnload
  <2>2. Torn(life[a], FALSE) \in Lives /\ Torn(life[a], FALSE).pc = life[a].pc
        /\ Torn(life[a], FALSE).disposed = life[a].disposed
    <3>1. Torn(life[a], FALSE) \in Lives
      BY Facts, ShapeTypes
    <3> QED
      BY SMTT(60), <3>1, Facts DEF Torn, Lives
  <2>3. \A q \in Lives : Unwound(q).pc = q.pc /\ Unwound(q).disposed = q.disposed
    BY DEF Unwound, Lives
  <2> QED
    BY <2>1, <2>2, <2>3, Facts DEF Silent
<1>3. CASE FactoryUnloaded
  BY <1>3 DEF FactoryUnloaded, Silent
<1>4. ASSUME NEW b \in Starts, Created(b) PROVE Silent(a)
  BY <1>4, SilentPrepare DEF Created
<1> QED
  BY <1>1, <1>2, <1>3, <1>4, SilentStep, SilentStart, SilentMended, SilentPublish DEF Next

\* agent/disposed is emitted when the driver rests, the handle is closed and the
\* backend has no writer left for it.
THEOREM AnnouncedLast == Spec => DisposedLast
<1> DEFINE D(a) == life'[a].disposed # life[a].disposed =>
                      /\ life[a].machine = "idle" /\ life[a].handle \in {"none", "closed"}
                      /\ \A i \in Ids : claim[i] # a
<1>1. ASSUME IInv, [Next]_vars, NEW a \in Starts PROVE D(a)
  <2>1. CASE life'[a].disposed = life[a].disposed
    BY <2>1
  <2>2. CASE Detach(a)
    <3>1. life[a].disp = "close" /\ life[a].handle # "closing"
      BY <2>2 DEF Detach
    <3>2. life[a].machine = "idle" /\ life[a].handle \in {"none", "closed"}
      BY <1>1, <3>1, Facts DEF Lives
    <3>3. \A i \in Ids : claim[i] # a
      BY <1>1, <3>2, SharedFacts
    <3> QED
      BY <3>2, <3>3
  <2>3. CASE UNCHANGED vars
    BY <2>3 DEF vars
  <2> QED
    BY <1>1, <2>1, <2>2, <2>3, Marks DEF Silent
<1>2. IInv /\ [Next]_vars => [\A a \in Starts : D(a)]_vars
  BY <1>1
<1> QED
  BY <1>2, Invariance, PTL DEF Spec, DisposedLast
=============================================================================
