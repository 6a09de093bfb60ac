-------------------------- MODULE GroupV2UpdatesProofs --------------------------
(***************************************************************************)
(* Theorems about GroupV2Updates, for any number of revisions, messages,   *)
(* refreshes, retries and failures.                                        *)
(***************************************************************************)
EXTENDS GroupV2Updates, TLAPS, WellFoundedInduction

------------------------------------------------------------------------------
(***************************************************************************)
(* Induction over the turns of a loop                                      *)
(***************************************************************************)

Less == {p \in Nat \X Nat : p[1] < p[2]}

\* A set of naturals has a least element.  The induction theorems of the library take
\* predicates, this one a set, which is all that the provers here can work with.
LEMMA LeastElement ==
    ASSUME NEW S \in SUBSET Nat, S # {}
    PROVE  \E m \in S : \A n \in S : m <= n
<1>1. IsWellFoundedOn(Less, Nat)
  BY NatLessThanWellFounded DEF OpToRel, Less
<1>2. \E x \in S : \A y \in S : ~ (<<y, x>> \in Less)
  BY <1>1, WFMin
<1>3. \A x, y \in S : ~ (<<y, x>> \in Less) => x <= y
  BY DEF Less
<1> QED
  BY <1>2, <1>3

\* A set that has 0, and each next number as well up to n, has all numbers up to n.
LEMMA IntervalInduction ==
    ASSUME NEW n \in Nat, NEW S, 0 \in S,
           \A r \in 1 .. n : r - 1 \in S => r \in S
    PROVE  0 .. n \subseteq S
<1> DEFINE Left == (0 .. n) \ S
<1>1. SUFFICES ASSUME Left # {} PROVE FALSE
  OBVIOUS
<1>2. PICK m \in Left : \A k \in Left : m <= k
  <2>1. Left \in SUBSET Nat
    OBVIOUS
  <2> HIDE DEF Left
  <2> QED
    BY <1>1, <2>1, LeastElement
<1>3. m \in 1 .. n /\ m - 1 \in 0 .. n
  BY <1>2
<1>4. m - 1 \notin Left
  BY <1>2, <1>3
<1> QED
  BY <1>2, <1>3, <1>4

------------------------------------------------------------------------------
(***************************************************************************)
(* Writing the local model                                                 *)
(***************************************************************************)

Reflects(g) == g.changes = 1 .. g.revision

LEMMA SnapshotIsAGroup ==
    ASSUME NEW r \in Revisions
    PROVE  /\ Snapshot(r) \in Groups
           /\ Snapshot(r).revision = r
           /\ Reflects(Snapshot(r))
BY BoundsAssumption DEF Snapshot, Groups, Revisions, Reflects

\* Whichever of two models is the newer one, it is kept.
LEMMA UpdateKeepsTheNewer ==
    ASSUME NEW old \in Groups, NEW new \in Groups, NEW hasTimer \in BOOLEAN
    PROVE  LET g == UpdateExisting(old, new, hasTimer)
           IN  /\ g \in Groups
               /\ g.revision >= old.revision
               /\ g.revision >= new.revision
               /\ g.revision \in {old.revision, new.revision}
               /\ Reflects(old) /\ Reflects(new) => Reflects(g)
<1> DEFINE timer == IF hasTimer THEN new.timer ELSE old.timer
<1>1. CASE NotStale(new, old)
  <2>1. UpdateExisting(old, new, hasTimer) = [new EXCEPT !.timer = timer]
    BY <1>1 DEF UpdateExisting
  <2> QED
    BY <1>1, <2>1 DEF Groups, NotStale, Reflects
<1>2. CASE ~NotStale(new, old)
  <2>1. UpdateExisting(old, new, hasTimer) = [old EXCEPT !.timer = timer]
    BY <1>2 DEF UpdateExisting
  <2> QED
    BY <1>2, <2>1 DEF Groups, NotStale, Reflects
<1> QED
  BY <1>1, <1>2

LEMMA UpsertKeepsTheNewer ==
    ASSUME NEW old \in Groups, NEW new \in Groups
    PROVE  LET g == Upsert(old, new)
           IN  /\ g \in Groups
               /\ g.revision >= old.revision
               /\ g.revision >= new.revision
               /\ g.revision \in {old.revision, new.revision}
               /\ Reflects(old) /\ Reflects(new) => Reflects(g)
<1>1. CASE old.revision = 0
  <2>1. Upsert(old, new) = [new EXCEPT !.timer = disabledToken]
    BY <1>1 DEF Upsert, Inserted
  <2> QED
    BY <1>1, <2>1 DEF Groups, Reflects
<1>2. CASE old.revision # 0
  BY <1>2, UpdateKeepsTheNewer DEF Upsert
<1> QED
  BY <1>1, <1>2

\* A change that fits leads to its revision.
LEMMA DiffLeadsToItsRevision ==
    ASSUME NEW old \in Groups, NEW r \in Revisions, DiffFits(old, r)
    PROVE  /\ WithDiff(old, r) \in Groups
           /\ WithDiff(old, r).revision = r
           /\ r > old.revision
           /\ Reflects(old) => Reflects(WithDiff(old, r))
<1> DEFINE new == [revision |-> r, changes |-> old.changes \cup {r}, timer |-> Timer[r]]
           hasTimer == r = 1 \/ Timer[r] # Timer[r - 1]
           timer == IF hasTimer THEN new.timer ELSE old.timer
<1>1. r = old.revision + 1 /\ old.revision \in Nat
  BY DEF DiffFits, Groups
<1>2. WithDiff(old, r) = [new EXCEPT !.timer = timer]
  BY <1>1 DEF WithDiff, UpdateExisting, NotStale
<1>3. new \in Groups /\ timer \in {Timer[i] : i \in Revisions} \cup {disabledToken}
  BY BoundsAssumption DEF Groups, Revisions
<1>4. WithDiff(old, r) \in Groups
  BY <1>2, <1>3 DEF Groups
<1>5. WithDiff(old, r).revision = r /\ WithDiff(old, r).changes = old.changes \cup {r}
  BY <1>2
<1>6. Reflects(old) => Reflects(WithDiff(old, r))
  <2>1. 1 .. r = (1 .. old.revision) \cup {r}
    BY <1>1
  <2> QED
    BY <1>5, <2>1 DEF Reflects
<1> QED
  BY <1>1, <1>4, <1>5, <1>6

------------------------------------------------------------------------------
(***************************************************************************)
(* The loop over the changes                                               *)
(***************************************************************************)

First(old, w) == [group |-> Created(old, w), ok |-> Created(old, w).revision > 0]

\* A turn of the loop, where after says what came out of the turns before.
Turn(old, w, after, r) ==
    IF r = 0 \/ r < w.from THEN First(old, w)
    ELSE IF after[r - 1].ok /\ Within(r, w.op)
    THEN AfterChange(after[r - 1].group, r, w.states)
    ELSE after[r - 1]

\* The loop is well defined: there is a function that satisfies its equation.
LEMMA LoopUnfolds ==
    ASSUME NEW old, NEW w, w.to \in Nat
    PROVE  LET after == AfterChangesUpTo(old, w)
           IN  after = [r \in 0 .. w.to |-> Turn(old, w, after, r)]
<1> DEFINE T(f, r) == Turn(old, w, f, r)
           Loop(f, n) == f = [r \in 0 .. n |-> T(f, r)]
           Defined == {n \in Nat : \E f : Loop(f, n)}
<1>1. \A f, g : T(f, 0) = T(g, 0)
  BY DEF Turn
<1>2. \A f, g : \A r \in Nat : f[r - 1] = g[r - 1] => T(f, r) = T(g, r)
  BY DEF Turn
<1> HIDE DEF T
<1>3. 0 \in Defined
  <2> DEFINE f == [r \in 0 .. 0 |-> T(<<>>, 0)]
  <2>1. f = [r \in 0 .. 0 |-> T(f, r)]
    BY <1>1
  <2> QED
    BY <2>1
<1>4. ASSUME NEW n \in 1 .. w.to, n - 1 \in Defined
      PROVE  n \in Defined
  <2>1. PICK f : f = [r \in 0 .. (n - 1) |-> T(f, r)]
    BY <1>4
  <2> DEFINE g == [r \in 0 .. n |-> IF r < n THEN f[r] ELSE T(f, n)]
  <2>2. ASSUME NEW r \in 0 .. n PROVE g[r] = T(g, r)
    <3>1. CASE r = 0
      BY <1>1, <2>1, <3>1
    <3>2. CASE r \in 1 .. (n - 1)
      <4>1. g[r] = T(f, r)
        BY <2>1, <3>2
      <4>2. g[r - 1] = f[r - 1]
        BY <3>2
      <4> QED
        BY <1>2, <3>2, <4>1, <4>2
    <3>3. CASE r = n
      <4>1. g[r] = T(f, r)
        BY <3>3
      <4>2. g[r - 1] = f[r - 1]
        BY <3>3
      <4> QED
        BY <1>2, <3>3, <4>1, <4>2
    <3> QED
      BY <3>1, <3>2, <3>3
  <2>3. g = [r \in 0 .. n |-> T(g, r)]
    BY <2>2
  <2> HIDE DEF g
  <2>4. Loop(g, n)
    BY <2>3
  <2> HIDE DEF Loop
  <2> QED
    BY <2>4
<1>5. \E f : Loop(f, w.to)
  <2> HIDE DEF Defined
  <2>1. 0 .. w.to \subseteq Defined
    BY <1>3, <1>4, IntervalInduction
  <2> QED
    BY <2>1 DEF Defined
<1>6. AfterChangesUpTo(old, w) = CHOOSE f : Loop(f, w.to)
  BY DEF AfterChangesUpTo, T, Turn, First
<1> QED
  <2> HIDE DEF Loop
  <2>1. Loop(CHOOSE f : Loop(f, w.to), w.to)
    BY <1>5
  <2> QED
    BY <1>6, <2>1 DEF Loop, T

\* What the turns up to r have achieved: nothing went back, missing or beyond what was
\* fetched, and while every change fits, the model has reached each of those taken.
Achieved(old, w, r, result) ==
    /\ result.group \in Groups
    /\ result.ok \in BOOLEAN
    /\ result.group.revision >= old.revision
    /\ result.group.revision = old.revision \/ result.group.revision <= w.to
    /\ Reflects(old) => Reflects(result.group)
    /\ result.ok => \A s \in w.from .. r : Within(s, w.op) => result.group.revision >= s

LEMMA CreatedIsAchieved ==
    ASSUME NEW old \in Groups, NEW w \in Works, w.from >= 1,
           NEW r \in 0 .. w.to, r = 0 \/ r < w.from
    PROVE  Achieved(old, w, r, First(old, w))
<1>1. w.from \in Nat /\ w.to \in 0 .. MaxRevision
  BY DEF Works
<1>2. w.from .. r = {}
  BY <1>1
<1>3. /\ Created(old, w) \in Groups
      /\ Created(old, w).revision >= old.revision
      /\ Created(old, w).revision = old.revision \/ Created(old, w).revision <= w.to
      /\ Reflects(old) => Reflects(Created(old, w))
  <2>1. CASE old.revision = 0 /\ w.from <= w.to /\ w.states
    <3>1. w.from \in Revisions
      BY <1>1, <2>1, BoundsAssumption DEF Revisions
    <3>2. Created(old, w) = [Snapshot(w.from) EXCEPT !.timer = disabledToken]
      BY <2>1 DEF Created, Upsert, Inserted
    <3>3. Snapshot(w.from) \in Groups /\ Snapshot(w.from).revision = w.from
      BY <3>1, SnapshotIsAGroup
    <3>4. Reflects(Snapshot(w.from))
      BY <3>1, SnapshotIsAGroup
    <3> QED
      BY <1>1, <2>1, <3>2, <3>3, <3>4 DEF Groups, Reflects
  <2>2. CASE ~ (old.revision = 0 /\ w.from <= w.to /\ w.states)
    BY <2>2 DEF Created, Groups
  <2> QED
    BY <2>1, <2>2
<1> QED
  BY <1>2, <1>3 DEF Achieved, First

LEMMA ChangeAchieves ==
    ASSUME NEW old \in Groups, NEW w \in Works, w.from >= 1,
           NEW r \in 1 .. w.to, NEW before, Achieved(old, w, r - 1, before),
           before.ok, Within(r, w.op)
    PROVE  Achieved(old, w, r, AfterChange(before.group, r, w.states))
<1> DEFINE g == before.group
           new == AfterChange(g, r, w.states)
<1>1. r \in Revisions /\ w.from \in Nat /\ w.states \in BOOLEAN
  BY BoundsAssumption DEF Works, Revisions
<1>2. /\ g \in Groups
      /\ g.revision >= old.revision
      /\ g.revision = old.revision \/ g.revision <= w.to
      /\ Reflects(old) => Reflects(g)
      /\ \A s \in w.from .. (r - 1) : Within(s, w.op) => g.revision >= s
  BY DEF Achieved
<1>3. \A h \in Groups : h.revision \in Nat
  BY DEF Groups
<1> HIDE DEF g, new
<1>4. /\ new.group \in Groups
      /\ new.ok \in BOOLEAN
      /\ new.group.revision >= g.revision
      /\ new.group.revision \in {g.revision, r}
      /\ Reflects(g) => Reflects(new.group)
      /\ new.ok => new.group.revision >= r
  <2>1. CASE w.states
    <3>1. new.group = UpdateExisting(g, Snapshot(r), TRUE) /\ new.ok = TRUE
      BY <2>1 DEF AfterChange, g, new
    <3>2. /\ Snapshot(r) \in Groups /\ Snapshot(r).revision = r
          /\ Reflects(Snapshot(r))
      BY <1>1, SnapshotIsAGroup
    <3>3. /\ new.group \in Groups
          /\ new.group.revision >= g.revision
          /\ new.group.revision >= Snapshot(r).revision
          /\ new.group.revision \in {g.revision, Snapshot(r).revision}
          /\ Reflects(g) /\ Reflects(Snapshot(r)) => Reflects(new.group)
      BY <1>2, <3>1, <3>2, UpdateKeepsTheNewer
    <3> QED
      BY <3>1, <3>2, <3>3
  <2>2. CASE ~w.states /\ DiffFits(g, r)
    <3>1. new.group = WithDiff(g, r) /\ new.ok = TRUE
      BY <1>1, <2>2 DEF AfterChange, g, new
    <3> QED
      <4>1. /\ WithDiff(g, r) \in Groups
            /\ WithDiff(g, r).revision = r
            /\ r > g.revision
            /\ Reflects(g) => Reflects(WithDiff(g, r))
        BY <1>1, <1>2, <2>2, DiffLeadsToItsRevision
      <4>2. r >= g.revision /\ r >= r
        BY <1>1, <1>2, <1>3, <4>1
      <4> QED
        BY <3>1, <4>1, <4>2
  <2>3. CASE ~w.states /\ ~DiffFits(g, r)
    <3>1. new.group = g /\ new.ok = FALSE
      BY <1>1, <2>3 DEF AfterChange, DiffFits, g, new
    <3> QED
      <4>1. g.revision >= g.revision
        BY <1>2, <1>3
      <4> QED
        BY <1>2, <3>1, <4>1
  <2> QED
    BY <1>1, <2>1, <2>2, <2>3
<1>5. ASSUME new.ok, NEW s \in w.from .. r, Within(s, w.op)
      PROVE  new.group.revision >= s
  <2>1. CASE s = r
    BY <1>4, <1>5, <2>1
  <2>2. CASE s # r
    <3>1. s \in w.from .. (r - 1)
      BY <1>1, <2>2
    <3> QED
      BY <1>2, <1>3, <1>4, <1>5, <3>1
  <2> QED
    BY <2>1, <2>2
<1>6. new.group.revision >= old.revision
  BY <1>2, <1>3, <1>4
<1>7. new.group.revision = old.revision \/ new.group.revision <= w.to
  <2>1. r <= w.to
    BY DEF Works
  <2> QED
    BY <1>2, <1>4, <2>1
<1> QED
  BY <1>2, <1>4, <1>5, <1>6, <1>7 DEF Achieved, new, g

\* A transaction over the changes that were fetched.
LEMMA ChangesAreApplied ==
    ASSUME NEW old \in Groups, NEW w \in Works, w.from >= 1
    PROVE  Achieved(old, w, w.to, Applied(old, w))
<1> DEFINE after == AfterChangesUpTo(old, w)
           Good == {r \in 0 .. w.to : Achieved(old, w, r, after[r])}
<1>1. w.to \in Nat /\ w.from \in Nat
  BY BoundsAssumption DEF Works
<1>2. after = [r \in 0 .. w.to |-> Turn(old, w, after, r)]
  BY <1>1, LoopUnfolds
<1> HIDE DEF after
<1>3. \A r \in 0 .. w.to : after[r] = Turn(old, w, after, r)
  BY <1>2
<1>4. 0 \in Good
  <2>1. after[0] = First(old, w)
    BY <1>1, <1>3 DEF Turn
  <2> QED
    BY <1>1, <2>1, CreatedIsAchieved
<1>5. ASSUME NEW r \in 1 .. w.to, r - 1 \in Good
      PROVE  r \in Good
  <2>1. Achieved(old, w, r - 1, after[r - 1]) /\ r \in 0 .. w.to
    BY <1>5
  <2>2. CASE r < w.from
    <3>1. after[r] = First(old, w)
      BY <1>3, <2>1, <2>2 DEF Turn
    <3> QED
      BY <2>1, <2>2, <3>1, CreatedIsAchieved
  <2>3. CASE ~ (r < w.from) /\ after[r - 1].ok /\ Within(r, w.op)
    <3>1. after[r] = AfterChange(after[r - 1].group, r, w.states)
      BY <1>3, <2>1, <2>3 DEF Turn
    <3> QED
      BY <2>1, <2>3, <3>1, ChangeAchieves
  <2>4. CASE ~ (r < w.from) /\ ~ (after[r - 1].ok /\ Within(r, w.op))
    <3>1. after[r] = after[r - 1]
      BY <1>3, <2>1, <2>4 DEF Turn
    <3>2. after[r].ok => \A s \in w.from .. r : Within(s, w.op) => s \in w.from .. (r - 1)
      BY <1>1, <2>4, <3>1
    <3> QED
      BY <2>1, <3>1, <3>2 DEF Achieved
  <2> QED
    BY <2>2, <2>3, <2>4
<1>6. 0 .. w.to \subseteq Good
  <2> HIDE DEF Good
  <2> QED
    BY <1>1, <1>4, <1>5, IntervalInduction
<1> QED
  BY <1>1, <1>6 DEF Applied, after

------------------------------------------------------------------------------
(***************************************************************************)
(* The inductive invariant                                                 *)
(***************************************************************************)

\* An operation that runs is the first of its queue.
OperationsMatch ==
    \A q \in Queues : work[q].stage # "idle" =>
        operations[q] # <<>> /\ work[q].op = Head(operations[q])

\* The operations of a queue that a message waits for.
Asking(ops) == {i \in DOMAIN ops : ops[i].mode = "specific"}

\* At most one operation is for a message, in the immediate queue; isAsked says whether
\* a message waits, and revision for what.
OneAsks(ops, isAsked, revision) ==
    /\ Asking(ops["afterMessageProcessing"]) = {}
    /\ \A i \in Asking(ops["immediate"]) :
        /\ isAsked
        /\ ops["immediate"][i].upTo = revision
    /\ \A i, j \in Asking(ops["immediate"]) : i = j

\* Messages that have arrived name revisions the service has.
Asked ==
    /\ updating => settled < arrived
    /\ \A m \in 1 .. arrived : MessageRevision[m] <= serviceRevision

QueueInv ==
    /\ OperationsMatch
    /\ OneAsks(operations, updating, MessageRevision[settled + 1])
    /\ Asked

ChangeStages == {"askChanges", "changes", "applyChanges"}

SnapshotStages == {"snapshot", "applySnapshot"}

\* What is fetched exists.
Sound(w) ==
    /\ w.stage \in ChangeStages => w.from >= 1
    /\ w.stage \in SnapshotStages => w.to >= 1

\* What is fetched for a message leads to the revision the message names, or the model
\* has reached that revision by itself.
GoesFarEnough(w, revision) ==
    w.op.mode = "specific" =>
        /\ w.stage \in ChangeStages => w.from <= w.op.upTo \/ w.op.upTo <= revision
        /\ w.stage \in {"changes", "applyChanges"} \cup SnapshotStages => w.op.upTo <= w.to

WorkInv ==
    /\ \A q \in Queues : Sound(work[q]) /\ GoesFarEnough(work[q], group.revision)
    /\ \A w \in late : Sound(w)

UpdatesInv == TypeOK /\ QueueInv /\ WorkInv

LEMMA UpdatesInit == Init => UpdatesInv /\ ModelMatchesRevision /\ UpdatesReachTheirRevision
<1> SUFFICES ASSUME Init
             PROVE  UpdatesInv /\ ModelMatchesRevision /\ UpdatesReachTheirRevision
  OBVIOUS
<1>1. group \in Groups /\ ModelMatchesRevision
  <2>1. 1 \in Revisions
    BY BoundsAssumption DEF Revisions
  <2>2. NoGroup \in Groups /\ Reflects(NoGroup)
    BY BoundsAssumption DEF NoGroup, Groups, Reflects
  <2>3. Inserted(Snapshot(1)) \in Groups /\ Reflects(Inserted(Snapshot(1)))
    BY <2>1, SnapshotIsAGroup DEF Inserted, Groups, Reflects
  <2>4. group \in Groups /\ Reflects(group)
    BY <2>2, <2>3 DEF Init
  <2> QED
    BY <2>4 DEF Reflects, ModelMatchesRevision
<1>2. Idle \in Works
  BY BoundsAssumption DEF Idle, Work, Works, Operations, Stages, upToCurrentRevisionImmediately
<1>3. TypeOK
  <2>1. NoChanges \in [from : 1 .. MaxRevision + 1, to : 0 .. MaxRevision, states : BOOLEAN]
    BY BoundsAssumption DEF NoChanges
  <2>2. /\ operations \in [Queues -> Seq(Operations)]
        /\ remainingRetries \in [Queues -> 0 .. RemainingRetries]
        /\ work \in [Queues -> Works]
    BY <1>2, BoundsAssumption DEF Init
  <2>3. Len(MessageRevision) \in Nat /\ 1 \in Revisions
    BY BoundsAssumption DEF Revisions
  <2>4. /\ serviceRevision \in Revisions /\ ownChanges \subseteq Revisions
        /\ lastSuccessfulRefresh \in {"never", "recent", "old"}
        /\ changeCache = NoChanges /\ late \subseteq Works
    BY <2>3 DEF Init
  <2>5. arrived \in 0 .. Len(MessageRevision) /\ settled \in 0 .. Len(MessageRevision)
    BY <2>3 DEF Init
  <2>6. updating \in BOOLEAN /\ processed \subseteq Messages
    BY DEF Init
  <2>7. refreshes \in 0 .. MaxRefreshes /\ failures \in 0 .. MaxFailures
    BY BoundsAssumption DEF Init
  <2> QED
    BY <1>1, <2>1, <2>2, <2>4, <2>5, <2>6, <2>7 DEF TypeOK
<1>4. QueueInv
  BY DEF Init, QueueInv, OperationsMatch, OneAsks, Asking, Asked, Queues, Idle, Work
<1>5. WorkInv
  BY DEF Init, WorkInv, Sound, GoesFarEnough, Idle, Work, ChangeStages, SnapshotStages,
         upToCurrentRevisionImmediately
<1>6. UpdatesReachTheirRevision
  BY DEF Init, UpdatesReachTheirRevision
<1> QED
  BY <1>1, <1>3, <1>4, <1>5, <1>6 DEF UpdatesInv

------------------------------------------------------------------------------
(***************************************************************************)
(* The model in a step                                                     *)
(***************************************************************************)

\* From old to new, the model goes forward, and misses nothing.
Forward(old, new) ==
    /\ new \in Groups
    /\ new.revision >= old.revision
    /\ Reflects(old) => Reflects(new)

LEMMA StayingIsForward ==
    ASSUME NEW g \in Groups
    PROVE  Forward(g, g)
BY DEF Forward, Groups

\* Work that has fetched its changes or its snapshot, of an operation or late.
LEMMA WritesGoForward ==
    ASSUME TypeOK, NEW w \in Works, Sound(w)
    PROVE  /\ w.stage = "applyChanges" => Forward(group, Applied(group, w).group)
           /\ w.stage = "applySnapshot" => Forward(group, Upsert(group, Snapshot(w.to)))
<1>1. group \in Groups
  BY DEF TypeOK
<1>2. ASSUME w.stage = "applyChanges" PROVE Forward(group, Applied(group, w).group)
  BY <1>1, <1>2, ChangesAreApplied DEF Sound, ChangeStages, Achieved, Forward
<1>3. ASSUME w.stage = "applySnapshot" PROVE Forward(group, Upsert(group, Snapshot(w.to)))
  <2>1. w.to \in Revisions
    BY <1>3 DEF Sound, SnapshotStages, Works, Revisions
  <2> QED
    BY <1>1, <2>1, SnapshotIsAGroup, UpsertKeepsTheNewer DEF Forward
<1> QED
  BY <1>2, <1>3

\* Whatever is late, and whoever writes.
LEMMA StepsGoForward ==
    ASSUME UpdatesInv, [Next]_vars
    PROVE  Forward(group, group')
<1>1. group \in Groups
  BY DEF UpdatesInv, TypeOK
<1>2. CASE UNCHANGED group
  BY <1>1, <1>2, StayingIsForward
<1>3. ASSUME NEW r \in Revisions, ApplyOwnChange(r)
      PROVE  Forward(group, group')
  <2>1. CASE DiffFits(group, r)
    <3>1. group' = WithDiff(group, r)
      BY <1>3, <2>1 DEF ApplyOwnChange
    <3>2. group.revision \in Nat /\ r \in Nat
      BY <1>1 DEF Groups, Revisions
    <3> QED
      BY <1>1, <2>1, <3>1, <3>2, DiffLeadsToItsRevision DEF Forward
  <2>2. CASE ~DiffFits(group, r)
    BY <1>1, <1>3, <2>2, StayingIsForward DEF ApplyOwnChange
  <2> QED
    BY <2>1, <2>2
<1>4. ASSUME NEW q \in Queues, Apply(q)
      PROVE  Forward(group, group')
  <2>1. work[q] \in Works /\ Sound(work[q])
    BY DEF UpdatesInv, TypeOK, WorkInv
  <2> QED
    BY <1>4, <2>1, WritesGoForward DEF Apply, ApplyChanges, ApplySnapshot, UpdatesInv
<1>5. ASSUME NEW w \in late, LateWrite(w)
      PROVE  Forward(group, group')
  <2>1. w \in Works /\ Sound(w)
    BY DEF UpdatesInv, TypeOK, WorkInv
  <2> QED
    BY <1>5, <2>1, WritesGoForward DEF LateWrite, UpdatesInv
<1>6. CASE SomeoneChangesGroup \/ ChangeGroup \/ FiveMinutesPass \/ AutoRefresh
           \/ RefreshImmediately \/ MessageArrives \/ ProcessMessage \/ UpdateForMessage
  BY <1>2, <1>6 DEF SomeoneChangesGroup, ChangeGroup, FiveMinutesPass, AutoRefresh,
     RefreshImmediately, MessageArrives, ProcessMessage, UpdateForMessage, local
<1>7. ASSUME NEW q \in Queues,
             Run(q) \/ Answer(q) \/ FailOverToSnapshot(q) \/ BlockOnMessageProcessing(q)
             \/ RequestFails(q) \/ TimeOut(q)
      PROVE  Forward(group, group')
  BY <1>2, <1>7 DEF Run, Answer, FetchChanges, FetchSnapshot, FailOverToSnapshot,
     BlockOnMessageProcessing, RequestFails, TimeOut, local
<1>8. ASSUME NEW w \in late, LateAnswer(w)
      PROVE  Forward(group, group')
  BY <1>2, <1>8 DEF LateAnswer, local
<1> QED
  BY <1>2, <1>3, <1>4, <1>5, <1>6, <1>7, <1>8 DEF Next, vars, local

------------------------------------------------------------------------------
(***************************************************************************)
(* The operation queues in a step                                          *)
(***************************************************************************)

LEMMA OperationTypes ==
    /\ upToCurrentRevisionImmediately \in Operations
    /\ upToCurrentRevisionAfterMessageProcessWithThrottling \in Operations
    /\ \A r \in Revisions : upToSpecificRevisionImmediately(r) \in Operations
    /\ \A op \in Operations :
        /\ operationQueue(op) \in Queues
        /\ op.mode = "specific" => op.upTo \in Revisions /\ operationQueue(op) = "immediate"
        /\ op.mode # "specific" => op.upTo = 0
<1>1. /\ upToCurrentRevisionImmediately \in Operations
      /\ upToCurrentRevisionAfterMessageProcessWithThrottling \in Operations
      /\ \A r \in Revisions : upToSpecificRevisionImmediately(r) \in Operations
  BY DEF Operations
<1>2. ASSUME NEW op \in Operations
      PROVE  /\ operationQueue(op) \in Queues
             /\ op.mode = "specific" => op.upTo \in Revisions /\ operationQueue(op) = "immediate"
             /\ op.mode # "specific" => op.upTo = 0
  BY DEF Operations, upToCurrentRevisionImmediately, upToSpecificRevisionImmediately,
     upToCurrentRevisionAfterMessageProcessWithThrottling, operationQueue, Queues,
     shouldBlockOnMessageProcessing
<1> QED
  BY <1>1, <1>2

\* An operation is put behind those that are there; one for a message, if no other
\* is there for one.
LEMMA EnqueueKeeps ==
    ASSUME NEW ops \in [Queues -> Seq(Operations)], NEW op \in Operations,
           NEW isAsked, NEW revision, OneAsks(ops, isAsked, revision),
           op.mode = "specific" =>
               Asking(ops["immediate"]) = {} /\ isAsked /\ op.upTo = revision
    PROVE  /\ Enqueued(ops, op) \in [Queues -> Seq(Operations)]
           /\ OneAsks(Enqueued(ops, op), isAsked, revision)
           /\ \A q \in Queues : ops[q] # <<>> =>
                  /\ Enqueued(ops, op)[q] # <<>>
                  /\ Head(Enqueued(ops, op)[q]) = Head(ops[q])
<1> DEFINE new == Enqueued(ops, op)
           p == operationQueue(op)
<1>1. p \in Queues /\ (op.mode = "specific" => p = "immediate")
  BY OperationTypes
<1>2. new = [ops EXCEPT ![p] = Append(@, op)]
  BY DEF Enqueued
<1> HIDE DEF new, p
<1>3. \A q \in Queues : ops[q] \in Seq(Operations)
  OBVIOUS
<1>4. new[p] = Append(ops[p], op) /\ \A q \in Queues \ {p} : new[q] = ops[q]
  BY <1>1, <1>2
<1>5. new \in [Queues -> Seq(Operations)]
  BY <1>1, <1>2
<1>6. ASSUME NEW q \in Queues, ops[q] # <<>>
      PROVE  new[q] # <<>> /\ Head(new[q]) = Head(ops[q])
  BY <1>1, <1>3, <1>4, <1>6
<1>7. ASSUME NEW i \in Asking(new[p])
      PROVE  \/ i \in Asking(ops[p]) /\ new[p][i] = ops[p][i]
             \/ i = Len(ops[p]) + 1 /\ new[p][i] = op /\ op.mode = "specific"
  <2>1. ops[p] \in Seq(Operations)
    BY <1>1
  <2> QED
    BY <1>4, <2>1 DEF Asking
<1>8. OneAsks(new, isAsked, revision)
  <2>1. CASE p = "immediate"
    <3>1. Asking(new["afterMessageProcessing"]) = {}
      BY <1>4, <2>1 DEF OneAsks, Queues
    <3>2. ASSUME NEW i \in Asking(new["immediate"])
          PROVE  isAsked /\ new["immediate"][i].upTo = revision
      BY <1>7, <2>1 DEF OneAsks
    <3>3. ASSUME NEW i \in Asking(new["immediate"]), NEW j \in Asking(new["immediate"])
          PROVE  i = j
      BY <1>7, <2>1 DEF OneAsks
    <3> QED
      BY <3>1, <3>2, <3>3 DEF OneAsks
  <2>2. CASE p = "afterMessageProcessing"
    <3>1. op.mode # "specific"
      BY <1>1, <2>2
    <3>2. Asking(new["afterMessageProcessing"]) = {}
      BY <1>7, <2>2, <3>1 DEF OneAsks
    <3>3. new["immediate"] = ops["immediate"]
      BY <1>4, <2>2 DEF Queues
    <3> QED
      BY <3>2, <3>3 DEF OneAsks
  <2> QED
    BY <1>1, <2>1, <2>2 DEF Queues
<1> QED
  BY <1>5, <1>6, <1>8 DEF new

\* The first operation leaves its queue; if it was for a message, none is left that is.
LEMMA DequeueKeeps ==
    ASSUME NEW ops \in [Queues -> Seq(Operations)], NEW q \in Queues, ops[q] # <<>>,
           NEW isAsked, NEW revision, OneAsks(ops, isAsked, revision)
    PROVE  LET new == [ops EXCEPT ![q] = Tail(@)]
           IN  /\ new \in [Queues -> Seq(Operations)]
               /\ OneAsks(new, isAsked, revision)
               /\ Head(ops[q]).mode = "specific" => \A b, r : OneAsks(new, b, r)
<1> DEFINE new == [ops EXCEPT ![q] = Tail(@)]
<1>1. ops[q] \in Seq(Operations) /\ ops[q] # <<>>
  OBVIOUS
<1>2. new[q] = Tail(ops[q]) /\ \A p \in Queues \ {q} : new[p] = ops[p]
  OBVIOUS
<1>3. new \in [Queues -> Seq(Operations)]
  BY <1>1
<1> HIDE DEF new
<1>4. ASSUME NEW i \in Asking(new[q])
      PROVE  i \in Nat /\ i >= 1 /\ i + 1 \in Asking(ops[q]) /\ new[q][i] = ops[q][i + 1]
  BY <1>1, <1>2, <1>4 DEF Asking
<1>5. OneAsks(new, isAsked, revision)
  <2>1. CASE q = "immediate"
    <3>1. Asking(new["afterMessageProcessing"]) = {}
      BY <1>2, <2>1 DEF OneAsks, Queues
    <3>2. ASSUME NEW i \in Asking(new["immediate"])
          PROVE  isAsked /\ new["immediate"][i].upTo = revision
      BY <1>4, <2>1 DEF OneAsks
    <3>3. ASSUME NEW i \in Asking(new["immediate"]), NEW j \in Asking(new["immediate"])
          PROVE  i = j
      <4>1. i + 1 = j + 1
        BY <1>4, <2>1 DEF OneAsks
      <4> QED
        BY <1>4, <2>1, <4>1
    <3> QED
      BY <3>1, <3>2, <3>3 DEF OneAsks
  <2>2. CASE q = "afterMessageProcessing"
    <3>1. Asking(new["afterMessageProcessing"]) = {}
      BY <1>4, <2>2 DEF OneAsks
    <3>2. new["immediate"] = ops["immediate"]
      BY <1>2, <2>2 DEF Queues
    <3> QED
      BY <3>1, <3>2 DEF OneAsks
  <2> QED
    BY <2>1, <2>2 DEF Queues
<1>6. ASSUME Head(ops[q]).mode = "specific", NEW b, NEW r
      PROVE  OneAsks(new, b, r)
  <2>1. 1 \in Asking(ops[q])
    BY <1>1, <1>6 DEF Asking
  <2>2. q = "immediate"
    BY <2>1 DEF OneAsks, Queues
  <2>3. Asking(new[q]) = {}
    BY <1>4, <2>1, <2>2 DEF OneAsks
  <2>4. Asking(new["afterMessageProcessing"]) = {}
    BY <1>2, <2>2 DEF OneAsks, Queues
  <2> QED
    BY <2>2, <2>3, <2>4 DEF OneAsks
<1> QED
  BY <1>3, <1>5, <1>6 DEF new

LEMMA AutoRefreshKeeps ==
    ASSUME NEW ops \in [Queues -> Seq(Operations)], NEW isAsked, NEW revision,
           OneAsks(ops, isAsked, revision)
    PROVE  /\ AutoRefreshed(ops) \in [Queues -> Seq(Operations)]
           /\ OneAsks(AutoRefreshed(ops), isAsked, revision)
           /\ \A q \in Queues : ops[q] # <<>> =>
                  /\ AutoRefreshed(ops)[q] # <<>>
                  /\ Head(AutoRefreshed(ops)[q]) = Head(ops[q])
<1> DEFINE op == upToCurrentRevisionAfterMessageProcessWithThrottling
<1>1. op \in Operations /\ op.mode # "specific"
  BY OperationTypes DEF upToCurrentRevisionAfterMessageProcessWithThrottling
<1> HIDE DEF op
<1>2. CASE isThrottled
  BY <1>2 DEF AutoRefreshed
<1>3. CASE ~isThrottled
  <2>1. AutoRefreshed(ops) = Enqueued(ops, op)
    BY <1>3 DEF AutoRefreshed, op
  <2> QED
    BY <1>1, <2>1, EnqueueKeeps
<1> QED
  BY <1>2, <1>3

\* Steps of the operations that end none.
LEMMA QueueKeeps ==
    ASSUME UpdatesInv, UNCHANGED <<operations, messages>>, serviceRevision' = serviceRevision,
           \A p \in Queues : work'[p].stage # "idle" =>
               operations[p] # <<>> /\ work'[p].op = Head(operations[p])
    PROVE  QueueInv'
BY DEF UpdatesInv, QueueInv, OperationsMatch, Asked, messages

\* The end of an operation: the message that waits for it is settled or tried again.
LEMMA OperationEnds ==
    ASSUME UpdatesInv, serviceRevision' = serviceRevision,
           NEW q \in Queues, work[q].stage # "idle",
           NEW ops, ops = operations \/ ops = AutoRefreshed(operations),
           operations' = [ops EXCEPT ![q] = Tail(@)],
           work' = [work EXCEPT ![q] = Idle],
           NEW outcomes, TellMessage(work[q].op, outcomes)
    PROVE  /\ QueueInv'
           /\ operations' \in [Queues -> Seq(Operations)]
           /\ arrived' = arrived /\ settled' \in 0 .. Len(MessageRevision)
           /\ updating' \in BOOLEAN
           /\ processed' \subseteq Messages
           /\ processed' # processed =>
                  /\ "successShouldProcess" \in outcomes
                  /\ work[q].op.mode = "specific"
                  /\ work[q].op.upTo = MessageRevision[settled + 1]
                  /\ processed' = processed \cup {settled + 1}
<1> DEFINE op == work[q].op
           revision == MessageRevision[settled + 1]
<1>1. /\ operations \in [Queues -> Seq(Operations)]
      /\ OneAsks(operations, updating, revision)
      /\ operations[q] # <<>> /\ op = Head(operations[q])
      /\ updating => settled < arrived
      /\ arrived \in 0 .. Len(MessageRevision) /\ settled \in 0 .. Len(MessageRevision)
      /\ updating \in BOOLEAN /\ processed \subseteq Messages
      /\ MessageRevision \in Seq(Revisions)
  BY BoundsAssumption DEF UpdatesInv, TypeOK, QueueInv, OperationsMatch, Asked
<1>2. /\ ops \in [Queues -> Seq(Operations)]
      /\ OneAsks(ops, updating, revision)
      /\ ops[q] # <<>> /\ op = Head(ops[q])
      /\ \A p \in Queues : operations[p] # <<>> =>
             ops[p] # <<>> /\ Head(ops[p]) = Head(operations[p])
  <2>1. CASE ops = operations
    BY <1>1, <2>1
  <2>2. CASE ops = AutoRefreshed(operations)
    BY <1>1, <2>2, AutoRefreshKeeps
  <2> QED
    BY <2>1, <2>2
<1>3. /\ operations' \in [Queues -> Seq(Operations)]
      /\ OneAsks(operations', updating, revision)
      /\ op.mode = "specific" => \A b, r : OneAsks(operations', b, r)
  BY <1>2, DequeueKeeps
<1>4. op.mode = "specific" => updating /\ op.upTo = revision
  <2> SUFFICES ASSUME op.mode = "specific" PROVE updating /\ op.upTo = revision
    OBVIOUS
  <2>1. operations[q] \in Seq(Operations)
    BY <1>1
  <2>2. 1 \in Asking(operations[q]) /\ operations[q][1] = op
    BY <1>1, <2>1 DEF Asking
  <2> QED
    BY <1>1, <2>2 DEF OneAsks, Queues
<1> HIDE DEF op
<1>5. OperationsMatch'
  <2> SUFFICES ASSUME NEW p \in Queues, work'[p].stage # "idle"
               PROVE  operations'[p] # <<>> /\ work'[p].op = Head(operations'[p])
    BY DEF OperationsMatch
  <2>1. work \in [Queues -> Works]
    BY DEF UpdatesInv, TypeOK
  <2>2. p # q
    BY <2>1 DEF Idle, Work
  <2>3. work'[p] = work[p] /\ operations'[p] = ops[p]
    BY <1>2, <2>1, <2>2
  <2> QED
    BY <1>2, <2>3 DEF UpdatesInv, QueueInv, OperationsMatch
<1>6. CASE op.mode = "specific"
  <2>1. /\ arrived' = arrived /\ updating' = FALSE
        /\ settled' \in {settled, settled + 1}
        /\ processed' \in {processed, processed \cup {settled + 1}}
        /\ processed' # processed => "successShouldProcess" \in outcomes
    <3>1. updating' = FALSE /\ arrived' = arrived
      BY <1>6 DEF TellMessage, op
    <3>2. PICK outcome \in outcomes :
            /\ settled' = settled + (IF outcome = "failureShouldRetry" THEN 0 ELSE 1)
            /\ processed' = processed \cup
                   (IF outcome = "successShouldProcess" THEN {settled + 1} ELSE {})
      BY <1>6 DEF TellMessage, op
    <3>3. settled' \in {settled, settled + 1}
      BY <1>1, <3>2
    <3> QED
      BY <3>1, <3>2, <3>3
  <2>2. settled + 1 \in 1 .. Len(MessageRevision)
    BY <1>1, <1>4, <1>6
  <2>3. settled + 1 \in Messages
    BY <1>1, <2>2 DEF Messages
  <2>4. QueueInv'
    BY <1>3, <1>5, <1>6, <2>1 DEF QueueInv, Asked, UpdatesInv
  <2>5. settled' \in 0 .. Len(MessageRevision) /\ processed' \subseteq Messages
    BY <1>1, <2>1, <2>2, <2>3
  <2>6. processed' # processed => op.upTo = revision /\ processed' = processed \cup {settled + 1}
    BY <1>4, <1>6, <2>1
  <2> QED
    BY <1>3, <1>6, <2>1, <2>4, <2>5, <2>6 DEF op
<1>7. CASE op.mode # "specific"
  <2>1. arrived' = arrived /\ updating' = updating /\ settled' = settled /\ processed' = processed
    BY <1>1, <1>7 DEF TellMessage, op
  <2>2. QueueInv'
    BY <1>3, <1>5, <2>1 DEF QueueInv, Asked, UpdatesInv
  <2> QED
    BY <1>1, <1>3, <2>1, <2>2
<1> QED
  BY <1>6, <1>7

------------------------------------------------------------------------------
(***************************************************************************)
(* Every step keeps the invariant                                          *)
(***************************************************************************)

LEMMA IdleIsSound ==
    /\ Idle \in Works /\ Sound(Idle) /\ Idle.stage = "idle"
    /\ \A r : GoesFarEnough(Idle, r)
<1>1. Idle \in Works
  BY BoundsAssumption, OperationTypes DEF Idle, Work, Works, Stages
<1> QED
  BY <1>1 DEF Idle, Work, Sound, GoesFarEnough, ChangeStages, SnapshotStages,
     upToCurrentRevisionImmediately

\* What was fetched does not go out of date: the model only goes forward.
LEMMA WorkKeeps ==
    ASSUME UpdatesInv, Forward(group, group'),
           \A q \in Queues : \/ work'[q] = work[q]
                             \/ Sound(work'[q]) /\ GoesFarEnough(work'[q], group'.revision),
           \A w \in late' : w \in late \/ Sound(w)
    PROVE  WorkInv'
<1>1. ASSUME NEW w \in Works, GoesFarEnough(w, group.revision)
      PROVE  GoesFarEnough(w, group'.revision)
  <2> SUFFICES ASSUME w.op.mode = "specific" PROVE GoesFarEnough(w, group'.revision)
    BY DEF GoesFarEnough
  <2>1. w.op \in Operations /\ w.op.upTo \in Nat
    BY OperationTypes DEF Works, Revisions
  <2>2. group.revision \in Nat /\ group'.revision \in Nat /\ group'.revision >= group.revision
    BY DEF UpdatesInv, TypeOK, Forward, Groups
  <2>3. w.op.upTo <= group.revision => w.op.upTo <= group'.revision
    BY <2>1, <2>2
  <2> QED
    BY <1>1, <2>3 DEF GoesFarEnough
<1>2. ASSUME NEW q \in Queues
      PROVE  Sound(work'[q]) /\ GoesFarEnough(work'[q], group'.revision)
  <2>1. work[q] \in Works /\ Sound(work[q]) /\ GoesFarEnough(work[q], group.revision)
    BY DEF UpdatesInv, TypeOK, WorkInv
  <2>2. GoesFarEnough(work[q], group'.revision)
    BY <1>1, <2>1
  <2> QED
    BY <2>1, <2>2
<1>3. \A w \in late' : Sound(w)
  BY DEF UpdatesInv, WorkInv
<1> QED
  BY <1>2, <1>3 DEF WorkInv

LEMMA WorkIsKept ==
    ASSUME UpdatesInv, Forward(group, group'), UNCHANGED <<work, late>>
    PROVE  WorkInv'
<1>1. \A q \in Queues : \/ work'[q] = work[q]
                        \/ Sound(work'[q]) /\ GoesFarEnough(work'[q], group'.revision)
  OBVIOUS
<1>2. \A w \in late' : w \in late \/ Sound(w)
  OBVIOUS
<1> QED
  BY <1>1, <1>2, WorkKeeps

\* The service, the local user and the clock.
LEMMA ServiceKeeps ==
    ASSUME UpdatesInv,
           SomeoneChangesGroup \/ ChangeGroup \/ FiveMinutesPass
           \/ \E r \in Revisions : ApplyOwnChange(r)
    PROVE  UpdatesInv'
<1>1. /\ serviceRevision \in Revisions /\ serviceRevision' \in Revisions
      /\ serviceRevision' >= serviceRevision
      /\ ownChanges' \subseteq Revisions
      /\ lastSuccessfulRefresh' \in {"never", "recent", "old"}
      /\ UNCHANGED <<changeCache, queues, messages, history>>
  <2>1. /\ serviceRevision \in Revisions /\ ownChanges \subseteq Revisions
        /\ lastSuccessfulRefresh \in {"never", "recent", "old"}
        /\ MaxRevision \in Nat /\ Revisions = 1 .. MaxRevision
    BY BoundsAssumption DEF UpdatesInv, TypeOK, Revisions
  <2>2. CASE SomeoneChangesGroup
    BY <2>1, <2>2 DEF SomeoneChangesGroup, local
  <2>3. CASE ChangeGroup
    BY <2>1, <2>3 DEF ChangeGroup
  <2>4. CASE FiveMinutesPass
    BY <2>1, <2>4 DEF FiveMinutesPass, local
  <2>5. CASE \E r \in Revisions : ApplyOwnChange(r)
    BY <2>1, <2>5 DEF ApplyOwnChange
  <2> QED
    BY <2>2, <2>3, <2>4, <2>5
<1>2. Forward(group, group')
  BY StepsGoForward DEF Next
<1>3. TypeOK'
  BY <1>1, <1>2 DEF UpdatesInv, TypeOK, Forward, queues, messages, history
<1>4. ASSUME NEW m \in 1 .. arrived
      PROVE  MessageRevision[m] <= serviceRevision'
  <2>1. MessageRevision[m] <= serviceRevision /\ MessageRevision[m] \in Nat
    BY BoundsAssumption DEF UpdatesInv, TypeOK, QueueInv, Asked, Revisions
  <2> QED
    BY <1>1, <2>1 DEF Revisions
<1>5. QueueInv'
  BY <1>1, <1>4 DEF UpdatesInv, QueueInv, OperationsMatch, Asked, queues, messages
<1>6. WorkInv'
  BY <1>1, <1>2, WorkIsKept DEF queues
<1> QED
  BY <1>3, <1>5, <1>6 DEF UpdatesInv

LEMMA MessagesKeep ==
    ASSUME UpdatesInv, MessageArrives \/ ProcessMessage
    PROVE  UpdatesInv'
<1>1. /\ arrived \in 0 .. Len(MessageRevision) /\ settled \in 0 .. Len(MessageRevision)
      /\ Len(MessageRevision) \in Nat /\ Messages = 1 .. Len(MessageRevision)
      /\ UNCHANGED <<serviceRevision, local, lastSuccessfulRefresh, changeCache, queues,
                     updating, history>>
  BY BoundsAssumption
     DEF UpdatesInv, TypeOK, MessageArrives, ProcessMessage, Messages
<1>2. Forward(group, group')
  BY StepsGoForward DEF Next
<1>3. /\ arrived' \in 0 .. Len(MessageRevision) /\ settled' \in 0 .. Len(MessageRevision)
      /\ processed' \subseteq Messages
  <2>1. processed \subseteq Messages
    BY DEF UpdatesInv, TypeOK
  <2>2. CASE MessageArrives
    BY <1>1, <2>1, <2>2 DEF MessageArrives
  <2>3. CASE ProcessMessage
    BY <1>1, <2>1, <2>3 DEF ProcessMessage
  <2> QED
    BY <2>2, <2>3
<1>4. TypeOK'
  BY <1>1, <1>2, <1>3 DEF UpdatesInv, TypeOK, Forward, local, queues, history
<1>5. QueueInv'
  <2>1. OperationsMatch'
    BY <1>1 DEF UpdatesInv, QueueInv, OperationsMatch, queues
  <2>2. OneAsks(operations', updating', MessageRevision[settled' + 1])
    BY <1>1 DEF UpdatesInv, QueueInv, OneAsks, queues, MessageArrives, ProcessMessage
  <2>3. Asked'
    BY <1>1 DEF UpdatesInv, QueueInv, Asked, MessageArrives, ProcessMessage
  <2> QED
    BY <2>1, <2>2, <2>3 DEF QueueInv
<1>6. WorkInv'
  BY <1>1, <1>2, WorkIsKept DEF queues
<1> QED
  BY <1>4, <1>5, <1>6 DEF UpdatesInv

LEMMA RefreshesKeep ==
    ASSUME UpdatesInv, AutoRefresh \/ RefreshImmediately \/ UpdateForMessage
    PROVE  UpdatesInv'
<1>1. /\ operations \in [Queues -> Seq(Operations)]
      /\ OneAsks(operations, updating, MessageRevision[settled + 1])
      /\ UNCHANGED <<serviceRevision, local, lastSuccessfulRefresh, changeCache,
                     remainingRetries, work, late, arrived, settled, processed, failures>>
  BY DEF UpdatesInv, TypeOK, QueueInv, AutoRefresh, RefreshImmediately, UpdateForMessage,
     messages, history
<1>2. Forward(group, group')
  BY StepsGoForward DEF Next
<1>3. /\ operations' \in [Queues -> Seq(Operations)]
      /\ OneAsks(operations', updating', MessageRevision[settled + 1])
      /\ \A q \in Queues : operations[q] # <<>> =>
            operations'[q] # <<>> /\ Head(operations'[q]) = Head(operations[q])
      /\ updating' \in BOOLEAN /\ (updating' => settled < arrived)
      /\ refreshes' \in 0 .. MaxRefreshes
  <2>1. /\ updating \in BOOLEAN /\ (updating => settled < arrived)
        /\ refreshes \in 0 .. MaxRefreshes /\ MaxRefreshes \in Nat
    BY BoundsAssumption DEF UpdatesInv, TypeOK, QueueInv, Asked
  <2>2. CASE AutoRefresh
    BY <1>1, <2>1, <2>2, AutoRefreshKeeps DEF AutoRefresh, messages
  <2>3. CASE RefreshImmediately
    <3>1. upToCurrentRevisionImmediately.mode # "specific"
      BY DEF upToCurrentRevisionImmediately
    <3> QED
      BY <1>1, <2>1, <2>3, <3>1, EnqueueKeeps, OperationTypes DEF RefreshImmediately, messages
  <2>4. CASE UpdateForMessage
    <3> DEFINE r == MessageRevision[settled + 1]
               op == upToSpecificRevisionImmediately(r)
    <3>1. ~updating /\ updating' = TRUE /\ settled < arrived /\ UNCHANGED history
      BY <2>4 DEF UpdateForMessage
    <3>2. r \in Revisions
      BY <3>1, BoundsAssumption DEF UpdatesInv, TypeOK
    <3>3. op \in Operations /\ op.mode = "specific" /\ op.upTo = r
      BY <3>2, OperationTypes DEF upToSpecificRevisionImmediately
    <3>4. operations' = Enqueued(operations, op)
      BY <2>4 DEF UpdateForMessage
    <3> HIDE DEF op
    <3>5. Asking(operations["immediate"]) = {} /\ OneAsks(operations, TRUE, r)
      BY <1>1, <3>1 DEF OneAsks
    <3> QED
      BY <1>1, <2>1, <3>1, <3>3, <3>4, <3>5, EnqueueKeeps DEF history
  <2> QED
    BY <2>2, <2>3, <2>4
<1>4. TypeOK'
  BY <1>1, <1>2, <1>3 DEF UpdatesInv, TypeOK, Forward, local
<1>5. QueueInv'
  <2>1. OperationsMatch'
    BY <1>1, <1>3 DEF UpdatesInv, QueueInv, OperationsMatch
  <2>2. Asked'
    BY <1>1, <1>3 DEF UpdatesInv, QueueInv, Asked
  <2> QED
    BY <1>1, <1>3, <2>1, <2>2 DEF QueueInv
<1>6. WorkInv'
  BY <1>1, <1>2, WorkIsKept
<1> QED
  BY <1>4, <1>5, <1>6 DEF UpdatesInv

Caches == [from : 1 .. MaxRevision + 1, to : 0 .. MaxRevision, states : BOOLEAN]

\* The revision that an operation for a message is to reach is there at the service.
LEMMA MessageIsServed ==
    ASSUME UpdatesInv, NEW q \in Queues, operations[q] # <<>>,
           Head(operations[q]).mode = "specific"
    PROVE  /\ Head(operations[q]).upTo = MessageRevision[settled + 1]
           /\ Head(operations[q]).upTo <= serviceRevision
<1>1. operations[q] \in Seq(Operations)
  BY DEF UpdatesInv, TypeOK
<1>2. 1 \in Asking(operations[q]) /\ operations[q][1] = Head(operations[q])
  BY <1>1 DEF Asking
<1>3. updating /\ Head(operations[q]).upTo = MessageRevision[settled + 1]
  BY <1>2 DEF UpdatesInv, QueueInv, OneAsks, Queues
<1>4. settled + 1 \in 1 .. arrived
  BY <1>3 DEF UpdatesInv, TypeOK, QueueInv, Asked
<1> QED
  BY <1>3, <1>4 DEF UpdatesInv, QueueInv, Asked

\* A step of an operation after which it waits for something else.
LEMMA OneWorkKeeps ==
    ASSUME UpdatesInv, NEW q \in Queues, operations[q] # <<>>,
           NEW w \in Works, w.op = Head(operations[q]),
           Sound(w), GoesFarEnough(w, group.revision),
           work' = [work EXCEPT ![q] = w],
           UNCHANGED <<serviceRevision, local, lastSuccessfulRefresh, operations,
                       remainingRetries, late, messages, refreshes>>,
           changeCache' \in Caches, failures' \in 0 .. MaxFailures
    PROVE  UpdatesInv'
<1>1. work \in [Queues -> Works] /\ group \in Groups
  BY DEF UpdatesInv, TypeOK
<1>2. \A p \in Queues : work'[p] = IF p = q THEN w ELSE work[p]
  BY <1>1
<1>3. TypeOK'
  <2>1. work' \in [Queues -> Works]
    BY <1>1
  <2> QED
    BY <2>1 DEF UpdatesInv, TypeOK, local, messages, Caches
<1>4. QueueInv'
  <2>1. \A p \in Queues : work'[p].stage # "idle" =>
            operations[p] # <<>> /\ work'[p].op = Head(operations[p])
    BY <1>2 DEF UpdatesInv, QueueInv, OperationsMatch
  <2> QED
    BY <2>1, QueueKeeps
<1>5. WorkInv'
  <2>1. \A p \in Queues : \/ work'[p] = work[p]
                          \/ Sound(work'[p]) /\ GoesFarEnough(work'[p], group'.revision)
    BY <1>2 DEF local
  <2>2. \A v \in late' : v \in late \/ Sound(v)
    OBVIOUS
  <2>3. Forward(group, group')
    BY <1>1, StayingIsForward DEF local
  <2> QED
    BY <2>1, <2>2, <2>3, WorkKeeps
<1> QED
  BY <1>3, <1>4, <1>5 DEF UpdatesInv

LEMMA RunKeeps ==
    ASSUME UpdatesInv, NEW q \in Queues, Run(q)
    PROVE  UpdatesInv'
<1> DEFINE op == Head(operations[q])
           w == work'[q]
<1>1. /\ operations[q] # <<>> /\ work[q].stage = "idle"
      /\ changeCache' = CacheAfterUse(op)
      /\ UNCHANGED <<serviceRevision, local, lastSuccessfulRefresh, operations,
                     remainingRetries, late, messages, history>>
  BY DEF Run
<1>2. /\ work \in [Queues -> Works] /\ group.revision \in 0 .. MaxRevision
      /\ changeCache \in Caches /\ operations \in [Queues -> Seq(Operations)]
      /\ failures \in 0 .. MaxFailures /\ MaxRevision \in Nat
  BY BoundsAssumption DEF UpdatesInv, TypeOK, Groups, Caches
<1>3. op \in Operations
  BY <1>1, <1>2
<1>4. op.upTo \in 0 .. MaxRevision
  <2>1. op.upTo \in Revisions \/ op.upTo = 0
    BY <1>3, OperationTypes
  <2> QED
    BY <1>2, <2>1 DEF Revisions
<1>5. work' = [work EXCEPT ![q] = w]
  BY <1>2 DEF Run
<1>6. w = IF CacheServes(op)
          THEN Work(op, "changes", FirstMissing, op.upTo, changeCache.states)
          ELSE IF group.revision > 0
          THEN Work(op, "askChanges", group.revision + 1, 0, FALSE)
          ELSE IF op.upTo > 0
          THEN Work(op, "askChanges", op.upTo, 0, FALSE)
          ELSE Work(op, "askSnapshot", 0, 0, FALSE)
  BY <1>2 DEF Run
<1> HIDE DEF op, w
<1>7. /\ w \in Works /\ w.op = op
      /\ Sound(w) /\ GoesFarEnough(w, group.revision)
  <2>1. CASE CacheServes(op)
    <3>1. w = Work(op, "changes", FirstMissing, op.upTo, changeCache.states)
      BY <1>6, <2>1
    <3>2. FirstMissing \in 1 .. MaxRevision + 1 /\ FirstMissing <= op.upTo
      BY <1>2, <1>4, <2>1 DEF FirstMissing, CacheServes, Caches
    <3> QED
      BY <1>2, <1>3, <1>4, <3>1, <3>2
         DEF Work, Works, Stages, Caches, Sound, GoesFarEnough, ChangeStages, SnapshotStages
  <2>2. CASE ~CacheServes(op) /\ group.revision > 0
    <3>1. w = Work(op, "askChanges", group.revision + 1, 0, FALSE)
      BY <1>6, <2>2
    <3> QED
      BY <1>2, <1>3, <1>4, <3>1
         DEF Work, Works, Stages, Sound, GoesFarEnough, ChangeStages, SnapshotStages
  <2>3. CASE ~CacheServes(op) /\ ~ (group.revision > 0) /\ op.upTo > 0
    <3>1. w = Work(op, "askChanges", op.upTo, 0, FALSE)
      BY <1>6, <2>3
    <3> QED
      BY <1>2, <1>3, <1>4, <2>3, <3>1
         DEF Work, Works, Stages, Sound, GoesFarEnough, ChangeStages, SnapshotStages
  <2>4. CASE ~CacheServes(op) /\ ~ (group.revision > 0) /\ ~ (op.upTo > 0)
    <3>1. w = Work(op, "askSnapshot", 0, 0, FALSE)
      BY <1>6, <2>4
    <3> QED
      BY <1>2, <1>3, <1>4, <3>1
         DEF Work, Works, Stages, Sound, GoesFarEnough, ChangeStages, SnapshotStages
  <2> QED
    BY <2>1, <2>2, <2>3, <2>4
<1>8. changeCache' \in Caches
  BY <1>1, <1>2 DEF CacheAfterUse, NoChanges, Caches
<1> QED
  BY <1>1, <1>2, <1>5, <1>7, <1>8, OneWorkKeeps DEF op, history

\* Answers of the service.
LEMMA FetchedChanges ==
    ASSUME UpdatesInv, NEW w \in Works, w.stage = "askChanges", Sound(w), NEW states \in BOOLEAN
    PROVE  LET new == WithChanges(w, states)
           IN  /\ new.op = w.op /\ new.stage = "changes" /\ new.from = w.from
               /\ new.to = serviceRevision
               /\ new \in Works /\ Sound(new)
               /\ Cached(new) \in Caches
<1> DEFINE new == WithChanges(w, states)
<1>1. /\ serviceRevision \in 1 .. MaxRevision /\ MaxRevision \in Nat
      /\ w.op \in Operations /\ w.from \in 0 .. MaxRevision + 1 /\ w.from >= 1
  BY BoundsAssumption DEF UpdatesInv, TypeOK, Revisions, Works, Sound, ChangeStages
<1>2. new = [op |-> w.op, stage |-> "changes", from |-> w.from,
             to |-> serviceRevision, states |-> states]
  <2> HIDE DEF new
  <2>1. new = [w EXCEPT !.stage = "changes", !.to = serviceRevision, !.states = states]
    BY DEF new, WithChanges
  <2> QED
    BY <2>1 DEF Works
<1> HIDE DEF new
<1>3. new \in Works /\ Sound(new)
  BY <1>1, <1>2 DEF Works, Stages, Sound, SnapshotStages
<1>4. Cached(new) \in Caches
  <2>1. CASE new.from <= new.to
    BY <1>1, <1>2, <2>1 DEF Cached, Caches
  <2>2. CASE ~ (new.from <= new.to)
    BY <1>1, <2>2 DEF Cached, NoChanges, Caches
  <2> QED
    BY <2>1, <2>2
<1> QED
  BY <1>2, <1>3, <1>4 DEF new

LEMMA FetchedSnapshot ==
    ASSUME UpdatesInv, NEW w \in Works
    PROVE  LET new == [w EXCEPT !.stage = "snapshot", !.to = serviceRevision]
           IN  /\ new.op = w.op /\ new.stage = "snapshot" /\ new.to = serviceRevision
               /\ new \in Works /\ Sound(new)
<1> DEFINE new == [w EXCEPT !.stage = "snapshot", !.to = serviceRevision]
<1>1. /\ serviceRevision \in 1 .. MaxRevision
      /\ w.op \in Operations /\ w.from \in 0 .. MaxRevision + 1 /\ w.states \in BOOLEAN
  BY DEF UpdatesInv, TypeOK, Revisions, Works
<1>2. new = [op |-> w.op, stage |-> "snapshot", from |-> w.from,
             to |-> serviceRevision, states |-> w.states]
  <2> HIDE DEF new
  <2>1. new = [w EXCEPT !.stage = "snapshot", !.to = serviceRevision]
    BY DEF new
  <2> QED
    BY <2>1 DEF Works
<1> HIDE DEF new
<1>3. new \in Works /\ Sound(new)
  BY <1>1, <1>2 DEF Works, Stages, Sound, ChangeStages
<1> QED
  BY <1>2, <1>3 DEF new

LEMMA ReadyWork ==
    ASSUME NEW w \in Works, w.stage \in {"changes", "snapshot"}, Sound(w)
    PROVE  /\ Ready(w).op = w.op /\ Ready(w).from = w.from /\ Ready(w).to = w.to
           /\ Ready(w).stage = IF w.stage = "changes" THEN "applyChanges" ELSE "applySnapshot"
           /\ Ready(w) \in Works /\ Sound(Ready(w))
<1>1. /\ Ready(w).op = w.op /\ Ready(w).from = w.from /\ Ready(w).to = w.to
      /\ Ready(w).stage = IF w.stage = "changes" THEN "applyChanges" ELSE "applySnapshot"
      /\ Ready(w) \in Works
  BY DEF Ready, Works, Stages
<1> QED
  BY <1>1 DEF Sound, ChangeStages, SnapshotStages

LEMMA FetchesKeep ==
    ASSUME UpdatesInv, NEW q \in Queues,
           FetchChanges(q) \/ FetchSnapshot(q) \/ FailOverToSnapshot(q)
           \/ BlockOnMessageProcessing(q)
    PROVE  UpdatesInv'
<1> DEFINE old == work[q]
           w == work'[q]
<1>1. /\ old \in Works /\ work \in [Queues -> Works]
      /\ serviceRevision \in 1 .. MaxRevision /\ changeCache \in Caches
      /\ failures \in 0 .. MaxFailures /\ MaxFailures \in Nat /\ MaxRevision \in Nat
      /\ Sound(old) /\ GoesFarEnough(old, group.revision)
  BY BoundsAssumption DEF UpdatesInv, TypeOK, WorkInv, Revisions, Caches
<1>2. old.stage # "idle"
  BY DEF FetchChanges, FetchSnapshot, FailOverToSnapshot, BlockOnMessageProcessing
<1>3. operations[q] # <<>> /\ old.op = Head(operations[q])
  BY <1>2 DEF UpdatesInv, QueueInv, OperationsMatch
<1>4. old.op.mode = "specific" => old.op.upTo <= serviceRevision
  BY <1>3, MessageIsServed
<1>5. /\ work' = [work EXCEPT ![q] = w]
      /\ UNCHANGED <<serviceRevision, local, lastSuccessfulRefresh, operations,
                     remainingRetries, late, messages, refreshes>>
      /\ failures' \in 0 .. MaxFailures
  BY <1>1 DEF FetchChanges, FetchSnapshot, FailOverToSnapshot, BlockOnMessageProcessing, history
<1>6. CASE FetchChanges(q)
  <2>1. PICK states \in BOOLEAN : w = WithChanges(old, states)
    BY <1>1, <1>6 DEF FetchChanges
  <2>2. changeCache' = Cached(w) /\ old.stage = "askChanges"
    BY <1>6 DEF FetchChanges
  <2> HIDE DEF w, old
  <2>3. /\ w.op = old.op /\ w.stage = "changes" /\ w.from = old.from
        /\ w.to = serviceRevision /\ w \in Works /\ Sound(w)
        /\ changeCache' \in Caches
    BY <1>1, <2>1, <2>2, FetchedChanges
  <2>4. GoesFarEnough(w, group.revision)
    BY <1>1, <1>4, <2>2, <2>3 DEF GoesFarEnough, ChangeStages, SnapshotStages
  <2> QED
    BY <1>3, <1>5, <2>3, <2>4, OneWorkKeeps
<1>7. CASE FetchSnapshot(q)
  <2>1. w = [old EXCEPT !.stage = "snapshot", !.to = serviceRevision]
    BY <1>1, <1>7 DEF FetchSnapshot
  <2>2. changeCache' \in Caches
    BY <1>1, <1>7 DEF FetchSnapshot
  <2> HIDE DEF w, old
  <2>3. /\ w.op = old.op /\ w.stage = "snapshot" /\ w.to = serviceRevision
        /\ w \in Works /\ Sound(w)
    BY <1>1, <2>1, FetchedSnapshot
  <2>4. GoesFarEnough(w, group.revision)
    BY <1>1, <1>4, <2>3 DEF GoesFarEnough, ChangeStages, SnapshotStages
  <2> QED
    BY <1>3, <1>5, <2>2, <2>3, <2>4, OneWorkKeeps
<1>8. CASE FailOverToSnapshot(q)
  <2>1. w = [old EXCEPT !.stage = "askSnapshot", !.from = 0]
    BY <1>1, <1>8 DEF FailOverToSnapshot
  <2>2. changeCache' \in Caches
    BY <1>1, <1>8 DEF FailOverToSnapshot
  <2> HIDE DEF w, old
  <2>3. w.op = old.op /\ w.stage = "askSnapshot" /\ w \in Works
    <3>1. w = [op |-> old.op, stage |-> "askSnapshot", from |-> 0,
               to |-> old.to, states |-> old.states]
      BY <1>1, <2>1 DEF Works
    <3>2. /\ old.op \in Operations /\ old.from \in 0 .. MaxRevision + 1
          /\ old.to \in 0 .. MaxRevision /\ old.states \in BOOLEAN
      BY <1>1 DEF Works
    <3> QED
      BY <1>1, <3>1, <3>2 DEF Works, Stages
  <2>4. Sound(w) /\ GoesFarEnough(w, group.revision)
    BY <2>3 DEF Sound, GoesFarEnough, ChangeStages, SnapshotStages
  <2> QED
    BY <1>3, <1>5, <2>2, <2>3, <2>4, OneWorkKeeps
<1>9. CASE BlockOnMessageProcessing(q)
  <2>1. w = Ready(old) /\ old.stage \in {"changes", "snapshot"}
    BY <1>1, <1>9 DEF BlockOnMessageProcessing
  <2>2. changeCache' \in Caches
    BY <1>1, <1>9 DEF BlockOnMessageProcessing
  <2> HIDE DEF w, old
  <2>3. /\ w.op = old.op /\ w.from = old.from /\ w.to = old.to
        /\ w.stage = IF old.stage = "changes" THEN "applyChanges" ELSE "applySnapshot"
        /\ w \in Works /\ Sound(w)
    BY <1>1, <2>1, ReadyWork
  <2>4. GoesFarEnough(w, group.revision)
    BY <1>1, <2>1, <2>3 DEF GoesFarEnough, ChangeStages, SnapshotStages
  <2> QED
    BY <1>3, <1>5, <2>2, <2>3, <2>4, OneWorkKeeps
<1> QED
  BY <1>6, <1>7, <1>8, <1>9

\* The operation goes idle, whether it ends or is run again.
LEMMA IdleKeepsWork ==
    ASSUME UpdatesInv, Forward(group, group'), NEW q \in Queues,
           work' = [work EXCEPT ![q] = Idle], \A w \in late' : w \in late \/ Sound(w)
    PROVE  work' \in [Queues -> Works] /\ WorkInv'
<1>1. work \in [Queues -> Works]
  BY DEF UpdatesInv, TypeOK
<1>2. work' \in [Queues -> Works]
  BY <1>1, IdleIsSound
<1>3. \A p \in Queues : \/ work'[p] = work[p]
                        \/ Sound(work'[p]) /\ GoesFarEnough(work'[p], group'.revision)
  BY <1>1, IdleIsSound
<1> QED
  BY <1>2, <1>3, WorkKeeps

LEMMA ErrorKeeps ==
    ASSUME UpdatesInv, Forward(group, group'),
           NEW q \in Queues, work[q].stage # "idle",
           NEW isRetryable, NEW outcomes, ReportError(q, isRetryable, outcomes),
           "successShouldProcess" \notin outcomes,
           UNCHANGED <<serviceRevision, ownChanges, changeCache, refreshes>>,
           failures' \in 0 .. MaxFailures,
           late' \subseteq Works, \A w \in late' : w \in late \/ Sound(w)
    PROVE  UpdatesInv' /\ processed' = processed
<1>1. work' = [work EXCEPT ![q] = Idle] /\ lastSuccessfulRefresh' = lastSuccessfulRefresh
  BY DEF ReportError
<1>2. work' \in [Queues -> Works] /\ WorkInv'
  BY <1>1, IdleKeepsWork
<1>3. CASE isRetryable /\ HasRetries(q)
  <2>1. /\ UNCHANGED <<operations, messages>>
        /\ remainingRetries' = [remainingRetries EXCEPT ![q] = @ - 1]
        /\ remainingRetries[q] > 0
    BY <1>3 DEF ReportError, HasRetries
  <2>2. remainingRetries' \in [Queues -> 0 .. RemainingRetries]
    BY <2>1, BoundsAssumption DEF UpdatesInv, TypeOK
  <2>3. TypeOK'
    BY <1>1, <1>2, <2>1, <2>2 DEF UpdatesInv, TypeOK, Forward, messages
  <2>4. \A p \in Queues : work'[p].stage # "idle" =>
            operations[p] # <<>> /\ work'[p].op = Head(operations[p])
    BY <1>1, IdleIsSound DEF UpdatesInv, TypeOK, QueueInv, OperationsMatch
  <2>5. QueueInv'
    BY <2>1, <2>4, QueueKeeps
  <2> QED
    BY <1>2, <2>1, <2>3, <2>5 DEF UpdatesInv, messages
<1>4. CASE ~ (isRetryable /\ HasRetries(q))
  <2>1. /\ remainingRetries' = [remainingRetries EXCEPT ![q] = RemainingRetries]
        /\ operations' = [operations EXCEPT ![q] = Tail(@)]
        /\ TellMessage(work[q].op, outcomes)
    BY <1>4 DEF ReportError
  <2>2. remainingRetries' \in [Queues -> 0 .. RemainingRetries]
    BY <2>1, BoundsAssumption DEF UpdatesInv, TypeOK
  <2>3. /\ QueueInv'
        /\ operations' \in [Queues -> Seq(Operations)]
        /\ arrived' = arrived /\ settled' \in 0 .. Len(MessageRevision)
        /\ updating' \in BOOLEAN
        /\ processed' \subseteq Messages
        /\ processed' # processed => "successShouldProcess" \in outcomes
    BY <1>1, <2>1, OperationEnds
  <2>4. TypeOK'
    BY <1>1, <1>2, <2>2, <2>3 DEF UpdatesInv, TypeOK, Forward
  <2> QED
    BY <1>2, <2>3, <2>4 DEF UpdatesInv
<1> QED
  BY <1>3, <1>4

LEMMA SuccessKeeps ==
    ASSUME UpdatesInv, Forward(group, group'),
           NEW q \in Queues, work[q].stage # "idle", ReportSuccess(q),
           NEW ops, ops = operations \/ ops = AutoRefreshed(operations),
           operations' = [ops EXCEPT ![q] = Tail(@)],
           UNCHANGED <<serviceRevision, ownChanges, changeCache, late, history>>
    PROVE  /\ UpdatesInv'
           /\ processed' # processed =>
                  /\ work[q].op.mode = "specific"
                  /\ work[q].op.upTo = MessageRevision[settled + 1]
                  /\ processed' = processed \cup {settled + 1}
<1>1. /\ work' = [work EXCEPT ![q] = Idle]
      /\ lastSuccessfulRefresh' = "recent"
      /\ remainingRetries' = [remainingRetries EXCEPT ![q] = RemainingRetries]
      /\ TellMessage(work[q].op, {"successShouldProcess"})
  BY DEF ReportSuccess
<1>2. work' \in [Queues -> Works] /\ WorkInv'
  BY <1>1, IdleKeepsWork
<1>3. remainingRetries' \in [Queues -> 0 .. RemainingRetries]
  BY <1>1, BoundsAssumption DEF UpdatesInv, TypeOK
<1>4. /\ QueueInv'
      /\ operations' \in [Queues -> Seq(Operations)]
      /\ arrived' = arrived /\ settled' \in 0 .. Len(MessageRevision)
      /\ updating' \in BOOLEAN
      /\ processed' \subseteq Messages
      /\ processed' # processed =>
            /\ work[q].op.mode = "specific"
            /\ work[q].op.upTo = MessageRevision[settled + 1]
            /\ processed' = processed \cup {settled + 1}
  BY <1>1, OperationEnds
<1>5. TypeOK'
  BY <1>1, <1>2, <1>3, <1>4 DEF UpdatesInv, TypeOK, Forward, history
<1> QED
  BY <1>2, <1>4, <1>5 DEF UpdatesInv

LEMMA FailuresKeep ==
    ASSUME UpdatesInv, NEW q \in Queues, RequestFails(q) \/ TimeOut(q)
    PROVE  UpdatesInv' /\ processed' = processed
<1>1. /\ work[q].stage # "idle" /\ failures' \in 0 .. MaxFailures
      /\ UNCHANGED <<serviceRevision, local, changeCache, refreshes>>
  <2>1. failures \in 0 .. MaxFailures /\ MaxFailures \in Nat
    BY BoundsAssumption DEF UpdatesInv, TypeOK
  <2>2. CASE RequestFails(q)
    BY <2>1, <2>2 DEF RequestFails
  <2>3. CASE TimeOut(q)
    BY <2>1, <2>3 DEF TimeOut
  <2> QED
    BY <2>2, <2>3
<1>2. Forward(group, group')
  BY <1>1, StayingIsForward DEF UpdatesInv, TypeOK, local
<1>3. late \subseteq Works /\ work[q] \in Works /\ Sound(work[q])
  BY DEF UpdatesInv, TypeOK, WorkInv
<1>4. \E isRetryable \in BOOLEAN :
          \E outcomes \in {{"failureShouldRetry", "failureShouldDiscard"},
                            {"failureShouldDiscard"}, {"failureShouldRetry"}} :
              ReportError(q, isRetryable, outcomes)
  BY DEF RequestFails, TimeOut
<1>5. late' \subseteq Works /\ \A w \in late' : w \in late \/ Sound(w)
  BY <1>3 DEF RequestFails, TimeOut
<1> QED
  BY <1>1, <1>2, <1>4, <1>5, ErrorKeeps DEF local

\* A success for a message means that the model has reached the revision of the message.
LEMMA AppliesKeep ==
    ASSUME UpdatesInv, NEW q \in Queues, Apply(q)
    PROVE  /\ UpdatesInv'
           /\ processed' # processed =>
                  /\ processed' = processed \cup {settled + 1}
                  /\ MessageRevision[settled + 1] <= group'.revision
<1> DEFINE w == work[q]
<1>1. /\ w \in Works /\ Sound(w) /\ GoesFarEnough(w, group.revision)
      /\ group \in Groups
      /\ w.stage \in {"applyChanges", "applySnapshot"}
      /\ UNCHANGED <<serviceRevision, ownChanges, changeCache, late, history>>
  BY DEF UpdatesInv, TypeOK, WorkInv, Apply, ApplyChanges, ApplySnapshot
<1>2. Forward(group, group')
  BY StepsGoForward DEF Next
<1>3. w.op.mode = "specific" =>
        w.op.upTo \in Revisions /\ w.from \in Nat /\ w.to \in 0 .. MaxRevision
  BY <1>1, OperationTypes DEF Works
<1> HIDE DEF w
<1>4. CASE ApplyChanges(q)
  <2> DEFINE result == Applied(group, w)
  <2>1. /\ w.stage = "applyChanges" /\ w.from >= 1
        /\ group' = result.group
    BY <1>1, <1>4 DEF ApplyChanges, Sound, ChangeStages, w
  <2>2. Achieved(group, w, w.to, result)
    BY <1>1, <2>1, ChangesAreApplied
  <2>3. CASE result.ok
    <3> DEFINE ops == IF StopsEarly(group, w) THEN AutoRefreshed(operations) ELSE operations
    <3>1. operations' = [ops EXCEPT ![q] = Tail(@)] /\ ReportSuccess(q)
      BY <1>4, <2>3 DEF ApplyChanges, w
    <3>2. ops = operations \/ ops = AutoRefreshed(operations)
      OBVIOUS
    <3> HIDE DEF ops
    <3>3. /\ UpdatesInv'
          /\ processed' # processed =>
                /\ w.op.mode = "specific" /\ w.op.upTo = MessageRevision[settled + 1]
                /\ processed' = processed \cup {settled + 1}
      BY <1>1, <1>2, <3>1, <3>2, SuccessKeeps DEF w
    <3>4. w.op.mode = "specific" => w.op.upTo <= group'.revision
      <4> SUFFICES ASSUME w.op.mode = "specific" PROVE w.op.upTo <= group'.revision
        OBVIOUS
      <4>1. /\ w.from <= w.op.upTo \/ w.op.upTo <= group.revision
            /\ w.op.upTo <= w.to
        BY <1>1, <2>1 DEF GoesFarEnough, ChangeStages
      <4>2. /\ w.op.upTo \in Nat /\ w.from \in Nat /\ w.to \in Nat
            /\ group.revision \in Nat /\ group'.revision \in Nat
            /\ group'.revision >= group.revision
        BY <1>1, <1>2, <1>3 DEF Revisions, Groups, Forward
      <4>3. w.from <= w.op.upTo => group'.revision >= w.op.upTo
        <5>1. Within(w.op.upTo, w.op)
          BY <4>2 DEF Within
        <5>2. w.from <= w.op.upTo => w.op.upTo \in w.from .. w.to
          BY <4>1, <4>2
        <5> QED
          BY <2>1, <2>2, <2>3, <5>1, <5>2 DEF Achieved
      <4> QED
        BY <4>1, <4>2, <4>3
    <3> QED
      BY <3>3, <3>4
  <2>4. CASE ~result.ok
    <3>1. ReportError(q, TRUE, {"failureShouldDiscard"})
      BY <1>4, <2>4 DEF ApplyChanges, w
    <3>2. late' \subseteq Works /\ failures' \in 0 .. MaxFailures
      BY <1>1 DEF UpdatesInv, TypeOK, history
    <3>3. refreshes' = refreshes /\ \A v \in late' : v \in late \/ Sound(v)
      BY <1>1 DEF history
    <3> QED
      BY <1>1, <1>2, <2>1, <3>1, <3>2, <3>3, ErrorKeeps DEF w
  <2> QED
    BY <2>3, <2>4
<1>5. CASE ApplySnapshot(q)
  <2>1. /\ w.stage = "applySnapshot" /\ w.to >= 1
        /\ group' = Upsert(group, Snapshot(w.to))
        /\ operations' = [operations EXCEPT ![q] = Tail(@)]
        /\ ReportSuccess(q)
    BY <1>1, <1>5 DEF ApplySnapshot, Sound, SnapshotStages, w
  <2>2. /\ UpdatesInv'
        /\ processed' # processed =>
              /\ w.op.mode = "specific" /\ w.op.upTo = MessageRevision[settled + 1]
              /\ processed' = processed \cup {settled + 1}
    BY <1>1, <1>2, <2>1, SuccessKeeps DEF w
  <2>3. w.op.mode = "specific" => w.op.upTo <= group'.revision
    <3> SUFFICES ASSUME w.op.mode = "specific" PROVE w.op.upTo <= group'.revision
      OBVIOUS
    <3>1. w.op.upTo <= w.to
      BY <1>1, <2>1 DEF GoesFarEnough, SnapshotStages
    <3>2. w.to \in Revisions
      BY <1>3, <2>1 DEF Revisions
    <3>3. group'.revision >= w.to
      BY <1>1, <2>1, <3>2, SnapshotIsAGroup, UpsertKeepsTheNewer
    <3>4. w.op.upTo \in Nat /\ group'.revision \in Nat
      BY <1>2, <1>3 DEF Revisions, Groups, Forward
    <3> QED
      BY <3>1, <3>2, <3>3, <3>4 DEF Revisions
  <2> QED
    BY <2>2, <2>3
<1> QED
  BY <1>4, <1>5 DEF Apply

\* What is late fetches and writes, but settles nothing.
LEMMA LateWorkKeeps ==
    ASSUME UpdatesInv, NEW w \in late, LateAnswer(w) \/ LateWrite(w)
    PROVE  UpdatesInv' /\ processed' = processed
<1>1. /\ w \in Works /\ Sound(w) /\ late \subseteq Works
      /\ serviceRevision \in 1 .. MaxRevision /\ changeCache \in Caches
      /\ operations \in [Queues -> Seq(Operations)]
      /\ OneAsks(operations, updating, MessageRevision[settled + 1])
  BY DEF UpdatesInv, TypeOK, WorkInv, QueueInv, Revisions, Caches
<1>2. UNCHANGED <<serviceRevision, ownChanges, lastSuccessfulRefresh, remainingRetries, work,
                  messages, history>>
  BY DEF LateAnswer, LateWrite, local
<1>3. Forward(group, group')
  BY StepsGoForward DEF Next
<1>4. /\ late' \subseteq Works /\ \A v \in late' : v \in late \/ Sound(v)
      /\ changeCache' \in Caches
  <2>1. CASE LateWrite(w)
    BY <1>1, <2>1 DEF LateWrite
  <2>2. ASSUME NEW states \in BOOLEAN, w.stage = "askChanges",
               late' = (late \ {w}) \cup {WithChanges(w, states)},
               changeCache' = Cached(WithChanges(w, states))
        PROVE  /\ late' \subseteq Works /\ \A v \in late' : v \in late \/ Sound(v)
               /\ changeCache' \in Caches
    <3>1. /\ WithChanges(w, states) \in Works /\ Sound(WithChanges(w, states))
          /\ Cached(WithChanges(w, states)) \in Caches
      BY <1>1, <2>2, FetchedChanges
    <3> QED
      BY <1>1, <2>2, <3>1
  <2>3. ASSUME w.stage = "askSnapshot", changeCache' = changeCache,
               late' = (late \ {w}) \cup {[w EXCEPT !.stage = "snapshot", !.to = serviceRevision]}
        PROVE  /\ late' \subseteq Works /\ \A v \in late' : v \in late \/ Sound(v)
               /\ changeCache' \in Caches
    <3> DEFINE new == [w EXCEPT !.stage = "snapshot", !.to = serviceRevision]
    <3>1. new \in Works /\ Sound(new)
      BY <1>1, FetchedSnapshot
    <3> HIDE DEF new
    <3> QED
      BY <1>1, <2>3, <3>1 DEF new
  <2>4. ASSUME w.stage \in {"changes", "snapshot"}, changeCache' = changeCache,
               late' = (late \ {w}) \cup {Ready(w)}
        PROVE  /\ late' \subseteq Works /\ \A v \in late' : v \in late \/ Sound(v)
               /\ changeCache' \in Caches
    <3>1. Ready(w) \in Works /\ Sound(Ready(w))
      BY <1>1, <2>4, ReadyWork
    <3> QED
      BY <1>1, <2>4, <3>1
  <2> QED
    BY <2>1, <2>2, <2>3, <2>4 DEF LateAnswer
<1>5. /\ operations' \in [Queues -> Seq(Operations)]
      /\ OneAsks(operations', updating, MessageRevision[settled + 1])
      /\ \A q \in Queues : operations[q] # <<>> =>
            operations'[q] # <<>> /\ Head(operations'[q]) = Head(operations[q])
  <2>1. operations' = operations \/ operations' = AutoRefreshed(operations)
    BY DEF LateAnswer, LateWrite
  <2> QED
    BY <1>1, <2>1, AutoRefreshKeeps
<1>6. TypeOK'
  BY <1>2, <1>3, <1>4, <1>5 DEF UpdatesInv, TypeOK, Forward, messages, history, Caches
<1>7. QueueInv'
  <2>1. OperationsMatch' /\ Asked'
    BY <1>2, <1>5 DEF UpdatesInv, QueueInv, OperationsMatch, Asked, messages
  <2> QED
    BY <1>2, <1>5, <2>1 DEF QueueInv, messages
<1>8. WorkInv'
  <2>1. \A q \in Queues : \/ work'[q] = work[q]
                          \/ Sound(work'[q]) /\ GoesFarEnough(work'[q], group'.revision)
    BY <1>2
  <2> QED
    BY <1>3, <1>4, <2>1, WorkKeeps
<1> QED
  BY <1>2, <1>6, <1>7, <1>8 DEF UpdatesInv, messages

LEMMA StutteringKeeps ==
    ASSUME UpdatesInv, UNCHANGED vars
    PROVE  UpdatesInv'
BY DEF vars, local, queues, messages, history, UpdatesInv, TypeOK, QueueInv, OperationsMatch,
   OneAsks, Asking, Asked, WorkInv

\* What a step adds to the messages that are processed has found its revision.
LEMMA UpdatesInduction ==
    ASSUME UpdatesInv, [Next]_vars
    PROVE  /\ UpdatesInv'
           /\ processed' # processed =>
                  /\ processed' = processed \cup {settled + 1}
                  /\ MessageRevision[settled + 1] <= group'.revision
<1>1. CASE UNCHANGED vars
  BY <1>1, StutteringKeeps DEF vars, messages
<1>2. CASE SomeoneChangesGroup \/ ChangeGroup \/ FiveMinutesPass
           \/ \E r \in Revisions : ApplyOwnChange(r)
  <2>1. processed' = processed
    BY <1>2 DEF SomeoneChangesGroup, ChangeGroup, FiveMinutesPass, ApplyOwnChange, messages
  <2> QED
    BY <1>2, <2>1, ServiceKeeps
<1>3. CASE AutoRefresh \/ RefreshImmediately \/ UpdateForMessage
  <2>1. processed' = processed
    BY <1>3 DEF AutoRefresh, RefreshImmediately, UpdateForMessage, messages
  <2> QED
    BY <1>3, <2>1, RefreshesKeep
<1>4. CASE MessageArrives
  <2>1. processed' = processed
    BY <1>4 DEF MessageArrives
  <2> QED
    BY <1>4, <2>1, MessagesKeep
<1>5. CASE ProcessMessage
  <2>1. /\ processed' = processed \cup {settled + 1}
        /\ MessageRevision[settled + 1] <= group'.revision
    BY <1>5 DEF ProcessMessage, local
  <2> QED
    BY <1>5, <2>1, MessagesKeep
<1>6. ASSUME NEW q \in Queues,
             Run(q) \/ Answer(q) \/ FailOverToSnapshot(q) \/ BlockOnMessageProcessing(q)
      PROVE  UpdatesInv' /\ processed' = processed
  <2>1. processed' = processed
    BY <1>6 DEF Run, Answer, FetchChanges, FetchSnapshot, FailOverToSnapshot,
       BlockOnMessageProcessing, messages
  <2> QED
    BY <1>6, <2>1, RunKeeps, FetchesKeep DEF Answer
<1> QED
  BY <1>1, <1>2, <1>3, <1>4, <1>5, <1>6, FailuresKeep, AppliesKeep, LateWorkKeeps DEF Next

------------------------------------------------------------------------------
(***************************************************************************)
(* Who waits for whom                                                      *)
(***************************************************************************)

\* A message that waits finds its refresh in the immediate queue, and no refresh of that
\* queue waits for messages.
Waits(ops, isAsked) ==
    /\ isAsked => Asking(ops["immediate"]) # {}
    /\ \A i \in DOMAIN ops["immediate"] : ~ shouldBlockOnMessageProcessing(ops["immediate"][i])

WaitInv == settled <= arrived /\ Waits(operations, updating)

LEMMA EnqueueWaits ==
    ASSUME NEW ops \in [Queues -> Seq(Operations)], NEW op \in Operations,
           NEW isAsked, Waits(ops, isAsked)
    PROVE  Waits(Enqueued(ops, op), isAsked \/ op.mode = "specific")
<1> DEFINE new == Enqueued(ops, op)
           p == operationQueue(op)
<1>1. p \in Queues /\ (op.mode = "specific" => p = "immediate")
  BY OperationTypes
<1>2. p = "immediate" => ~ shouldBlockOnMessageProcessing(op)
  BY DEF operationQueue
<1>3. new = [ops EXCEPT ![p] = Append(@, op)]
  BY DEF Enqueued
<1> HIDE DEF new, p
<1>4. new[p] = Append(ops[p], op) /\ \A q \in Queues \ {p} : new[q] = ops[q]
  BY <1>1, <1>3
<1>5. CASE p = "immediate"
  <2>1. ops[p] \in Seq(Operations)
    BY <1>1
  <2>2. /\ DOMAIN new[p] = DOMAIN ops[p] \cup {Len(ops[p]) + 1}
        /\ \A i \in DOMAIN ops[p] : new[p][i] = ops[p][i]
        /\ new[p][Len(ops[p]) + 1] = op
    BY <1>4, <2>1
  <2>3. op.mode = "specific" => Asking(new[p]) # {}
    BY <2>2 DEF Asking
  <2>4. Asking(ops[p]) \subseteq Asking(new[p])
    BY <2>2 DEF Asking
  <2> QED
    BY <1>2, <1>5, <2>2, <2>3, <2>4 DEF Waits, new
<1>6. CASE p # "immediate"
  <2>1. new["immediate"] = ops["immediate"]
    BY <1>4, <1>6 DEF Queues
  <2> QED
    BY <1>1, <1>6, <2>1 DEF Waits, new
<1> QED
  BY <1>5, <1>6

LEMMA AutoRefreshWaits ==
    ASSUME NEW ops \in [Queues -> Seq(Operations)], NEW isAsked, Waits(ops, isAsked)
    PROVE  Waits(AutoRefreshed(ops), isAsked)
<1> DEFINE op == upToCurrentRevisionAfterMessageProcessWithThrottling
<1>1. op \in Operations /\ op.mode # "specific"
  BY OperationTypes DEF upToCurrentRevisionAfterMessageProcessWithThrottling
<1> HIDE DEF op
<1>2. CASE isThrottled
  BY <1>2 DEF AutoRefreshed
<1>3. CASE ~isThrottled
  <2>1. AutoRefreshed(ops) = Enqueued(ops, op)
    BY <1>3 DEF AutoRefreshed, op
  <2>2. Waits(Enqueued(ops, op), isAsked \/ op.mode = "specific")
    BY <1>1, EnqueueWaits
  <2> QED
    BY <1>1, <2>1, <2>2 DEF Waits
<1> QED
  BY <1>2, <1>3

\* The refresh of a message leaves its queue only as the message stops to wait.
LEMMA DequeueWaits ==
    ASSUME NEW ops \in [Queues -> Seq(Operations)], NEW q \in Queues, ops[q] # <<>>,
           NEW isAsked, Waits(ops, isAsked)
    PROVE  Waits([ops EXCEPT ![q] = Tail(@)], isAsked /\ Head(ops[q]).mode # "specific")
<1> DEFINE new == [ops EXCEPT ![q] = Tail(@)]
<1>1. ops[q] \in Seq(Operations) /\ ops[q] # <<>>
  OBVIOUS
<1>2. new[q] = Tail(ops[q]) /\ \A p \in Queues \ {q} : new[p] = ops[p]
  OBVIOUS
<1> HIDE DEF new
<1>3. CASE q = "immediate"
  <2>1. ASSUME NEW i \in DOMAIN new[q]
        PROVE  i + 1 \in DOMAIN ops[q] /\ new[q][i] = ops[q][i + 1]
    BY <1>1, <1>2
  <2>2. ASSUME NEW i \in Asking(ops[q]), Head(ops[q]).mode # "specific"
        PROVE  i - 1 \in Asking(new[q])
    <3>1. i \in 1 .. Len(ops[q]) /\ ops[q][i].mode = "specific"
      BY <1>1 DEF Asking
    <3>2. i # 1
      BY <1>1, <2>2, <3>1
    <3>3. i - 1 \in DOMAIN new[q] /\ (i - 1) + 1 = i
      BY <1>1, <1>2, <3>1, <3>2
    <3>4. new[q][i - 1] = ops[q][i]
      BY <2>1, <3>3
    <3> QED
      BY <3>1, <3>3, <3>4 DEF Asking
  <2> QED
    BY <1>3, <2>1, <2>2 DEF Waits, new
<1>4. CASE q # "immediate"
  <2>1. new["immediate"] = ops["immediate"]
    BY <1>2, <1>4 DEF Queues
  <2> QED
    BY <2>1 DEF Waits, new
<1> QED
  BY <1>3, <1>4

\* The end of an operation.
LEMMA EndWaits ==
    ASSUME UpdatesInv, WaitInv, NEW q \in Queues, work[q].stage # "idle",
           NEW ops, ops = operations \/ ops = AutoRefreshed(operations),
           operations' = [ops EXCEPT ![q] = Tail(@)],
           NEW outcomes, TellMessage(work[q].op, outcomes)
    PROVE  WaitInv'
<1> DEFINE op == work[q].op
<1>1. /\ operations \in [Queues -> Seq(Operations)]
      /\ OneAsks(operations, updating, MessageRevision[settled + 1])
      /\ operations[q] # <<>> /\ op = Head(operations[q])
      /\ updating => settled < arrived
      /\ arrived \in Nat /\ settled \in Nat /\ updating \in BOOLEAN
  BY DEF UpdatesInv, TypeOK, QueueInv, OperationsMatch, Asked
<1>2. /\ ops \in [Queues -> Seq(Operations)] /\ Waits(ops, updating)
      /\ ops[q] # <<>> /\ Head(ops[q]) = op
  <2>1. CASE ops = operations
    BY <1>1, <2>1 DEF WaitInv
  <2>2. CASE ops = AutoRefreshed(operations)
    BY <1>1, <2>2, AutoRefreshKeeps, AutoRefreshWaits DEF WaitInv
  <2> QED
    BY <2>1, <2>2
<1>3. Waits(operations', updating /\ op.mode # "specific")
  <2>1. Waits([ops EXCEPT ![q] = Tail(@)], updating /\ Head(ops[q]).mode # "specific")
    BY <1>2, DequeueWaits
  <2> QED
    BY <1>2, <2>1
<1>4. op.mode = "specific" => updating
  <2> SUFFICES ASSUME op.mode = "specific" PROVE updating
    OBVIOUS
  <2>1. 1 \in Asking(operations[q])
    BY <1>1 DEF Asking
  <2> QED
    BY <1>1, <2>1 DEF OneAsks, Queues
<1> HIDE DEF op
<1>5. updating' = (updating /\ op.mode # "specific") /\ arrived' = arrived
  BY DEF TellMessage, op
<1>6. settled' <= arrived'
  <2>1. CASE op.mode = "specific"
    <3>1. PICK outcome \in outcomes :
              settled' = settled + (IF outcome = "failureShouldRetry" THEN 0 ELSE 1)
      BY <2>1 DEF TellMessage, op
    <3> QED
      BY <1>1, <1>4, <1>5, <2>1, <3>1
  <2>2. CASE op.mode # "specific"
    BY <1>5, <2>2 DEF TellMessage, WaitInv, op
  <2> QED
    BY <2>1, <2>2
<1> QED
  BY <1>3, <1>5, <1>6 DEF WaitInv

LEMMA WaitInduction ==
    ASSUME UpdatesInv, WaitInv, [Next]_vars
    PROVE  WaitInv'
<1>1. /\ operations \in [Queues -> Seq(Operations)] /\ Waits(operations, updating)
      /\ settled \in Nat /\ arrived \in Nat /\ settled <= arrived
  BY DEF UpdatesInv, TypeOK, WaitInv
<1>2. ASSUME UNCHANGED <<arrived, settled, updating>>,
             operations' = operations \/ operations' = AutoRefreshed(operations)
      PROVE  WaitInv'
  BY <1>1, <1>2, AutoRefreshWaits DEF WaitInv
<1>3. CASE \/ SomeoneChangesGroup \/ ChangeGroup \/ FiveMinutesPass \/ AutoRefresh
           \/ \E r \in Revisions : ApplyOwnChange(r)
           \/ UNCHANGED vars
  BY <1>2, <1>3 DEF SomeoneChangesGroup, ChangeGroup, FiveMinutesPass, AutoRefresh,
     ApplyOwnChange, vars, queues, messages
<1>4. ASSUME NEW w \in late, LateAnswer(w) \/ LateWrite(w)
      PROVE  WaitInv'
  <2>1. /\ UNCHANGED messages
        /\ operations' = operations \/ operations' = AutoRefreshed(operations)
    BY <1>4 DEF LateAnswer, LateWrite
  <2> QED
    BY <1>2, <2>1 DEF messages
<1>5. ASSUME NEW q \in Queues,
             Run(q) \/ Answer(q) \/ FailOverToSnapshot(q) \/ BlockOnMessageProcessing(q)
      PROVE  WaitInv'
  BY <1>2, <1>5 DEF Run, Answer, FetchChanges, FetchSnapshot, FailOverToSnapshot,
     BlockOnMessageProcessing, messages
<1>6. CASE RefreshImmediately
  <2> DEFINE op == upToCurrentRevisionImmediately
  <2>1. op \in Operations /\ op.mode # "specific"
    BY OperationTypes DEF upToCurrentRevisionImmediately
  <2>2. operations' = Enqueued(operations, op) /\ UNCHANGED <<arrived, settled, updating>>
    BY <1>6 DEF RefreshImmediately, messages
  <2> HIDE DEF op
  <2>3. Waits(operations', updating \/ op.mode = "specific")
    BY <1>1, <2>1, <2>2, EnqueueWaits
  <2> QED
    BY <1>1, <2>1, <2>2, <2>3 DEF WaitInv, Waits
<1>7. CASE UpdateForMessage
  <2> DEFINE op == upToSpecificRevisionImmediately(MessageRevision[settled + 1])
  <2>1. settled < arrived /\ updating' = TRUE /\ UNCHANGED <<arrived, settled>>
    BY <1>7 DEF UpdateForMessage
  <2>2. MessageRevision[settled + 1] \in Revisions
    BY <2>1, BoundsAssumption DEF UpdatesInv, TypeOK
  <2>3. op \in Operations /\ op.mode = "specific"
    BY <2>2, OperationTypes DEF upToSpecificRevisionImmediately
  <2>4. operations' = Enqueued(operations, op)
    BY <1>7 DEF UpdateForMessage
  <2> HIDE DEF op
  <2>5. Waits(operations', updating \/ op.mode = "specific")
    BY <1>1, <2>3, <2>4, EnqueueWaits
  <2> QED
    BY <1>1, <2>1, <2>3, <2>5 DEF WaitInv, Waits
<1>8. CASE MessageArrives \/ ProcessMessage
  <2>1. operations' = operations /\ updating' = updating /\ settled' <= arrived'
    BY <1>1, <1>8 DEF MessageArrives, ProcessMessage, queues
  <2> QED
    BY <1>1, <2>1 DEF WaitInv
<1>9. ASSUME NEW q \in Queues, work[q].stage # "idle", NEW isRetryable, NEW outcomes,
             ReportError(q, isRetryable, outcomes)
      PROVE  WaitInv'
  <2>1. CASE isRetryable /\ HasRetries(q)
    BY <1>2, <1>9, <2>1 DEF ReportError, messages
  <2>2. CASE ~ (isRetryable /\ HasRetries(q))
    BY <1>9, <2>2, EndWaits DEF ReportError
  <2> QED
    BY <2>1, <2>2
<1>10. ASSUME NEW q \in Queues, RequestFails(q) \/ TimeOut(q)
       PROVE  WaitInv'
  BY <1>9, <1>10 DEF RequestFails, TimeOut
<1>11. ASSUME NEW q \in Queues, Apply(q)
       PROVE  WaitInv'
  <2>1. work[q].stage # "idle"
    BY <1>11 DEF Apply, ApplyChanges, ApplySnapshot
  <2>2. CASE ApplyChanges(q)
    <3> DEFINE result == Applied(group, work[q])
               ops == IF result.ok /\ StopsEarly(group, work[q]) THEN AutoRefreshed(operations)
                      ELSE operations
    <3>1. CASE result.ok
      <4>1. /\ operations' = [ops EXCEPT ![q] = Tail(@)]
            /\ TellMessage(work[q].op, {"successShouldProcess"})
        BY <2>2, <3>1 DEF ApplyChanges, ReportSuccess
      <4>2. ops = operations \/ ops = AutoRefreshed(operations)
        OBVIOUS
      <4> HIDE DEF ops
      <4> QED
        BY <2>1, <4>1, <4>2, EndWaits
    <3>2. CASE ~result.ok
      <4>1. ReportError(q, TRUE, {"failureShouldDiscard"})
        BY <2>2, <3>2 DEF ApplyChanges
      <4> QED
        BY <1>9, <2>1, <4>1
    <3> QED
      BY <3>1, <3>2
  <2>3. CASE ApplySnapshot(q)
    BY <2>1, <2>3, EndWaits DEF ApplySnapshot, ReportSuccess
  <2> QED
    BY <1>11, <2>2, <2>3 DEF Apply
<1> QED
  BY <1>3, <1>4, <1>5, <1>6, <1>7, <1>8, <1>10, <1>11 DEF Next

\* A refresh of the immediate queue waits for no message, the first message only for such
\* a refresh, and the refreshes of the other queue only for messages.
LEMMA SomeoneGoesOn ==
    ASSUME UpdatesInv, WaitInv
    PROVE  NobodyWaitsForEachOther
<1>1. /\ operations \in [Queues -> Seq(Operations)] /\ work \in [Queues -> Works]
      /\ settled \in Nat /\ arrived \in Nat /\ settled <= arrived
      /\ group.revision \in Nat
      /\ Waits(operations, updating)
  BY BoundsAssumption DEF UpdatesInv, TypeOK, WaitInv, Groups, Revisions
<1>2. operations["immediate"] # <<>> => CanGoOn("immediate")
  <2> SUFFICES ASSUME operations["immediate"] # <<>> PROVE CanGoOn("immediate")
    OBVIOUS
  <2>1. operations["immediate"] \in Seq(Operations)
    BY <1>1 DEF Queues
  <2>2. ~ shouldBlockOnMessageProcessing(Head(operations["immediate"]))
    BY <1>1, <2>1 DEF Waits
  <2>3. work["immediate"].stage # "idle" => work["immediate"].op = Head(operations["immediate"])
    BY DEF UpdatesInv, QueueInv, OperationsMatch, Queues
  <2> QED
    BY <2>2, <2>3 DEF CanGoOn, MayGoOn
<1>3. settled < arrived => MessageCanGoOn \/ CanGoOn("immediate")
  <2>1. CASE updating
    <3>1. operations["immediate"] # <<>>
      BY <1>1, <2>1 DEF Waits, Asking
    <3> QED
      BY <1>2, <3>1
  <2>2. CASE ~updating
    <3> SUFFICES ASSUME settled < arrived PROVE MessageCanGoOn
      OBVIOUS
    <3>1. MessageRevision[settled + 1] \in Nat /\ MessageRevision[settled + 1] >= 1
      <4>1. arrived \in 0 .. Len(MessageRevision)
        BY DEF UpdatesInv, TypeOK
      <4> QED
        BY <1>1, <4>1, BoundsAssumption DEF Revisions
    <3> QED
      BY <1>1, <2>2, <3>1 DEF MessageCanGoOn
  <2> QED
    BY <2>1, <2>2
<1>4. operations["afterMessageProcessing"] # <<>> /\ settled = arrived =>
          CanGoOn("afterMessageProcessing")
  BY DEF CanGoOn, MayGoOn, MessageProcessingIsComplete
<1> QED
  BY <1>1, <1>2, <1>3, <1>4 DEF NobodyWaitsForEachOther

------------------------------------------------------------------------------
(***************************************************************************)
(* What the messages see                                                   *)
(***************************************************************************)

\* Nothing the app has, fetches or keeps is newer than what the service has.
NothingIsAhead ==
    /\ group.revision <= serviceRevision
    /\ \A r \in ownChanges : r <= serviceRevision
    /\ changeCache.to <= serviceRevision
    /\ \A q \in Queues : work[q].to <= serviceRevision
    /\ \A w \in late : w.to <= serviceRevision

SyncedInv == UpdatesInv /\ WaitInv /\ NothingIsAhead

\* Whoever writes the model, it is with something the service had.
LEMMA WritesAreNotAhead ==
    ASSUME UpdatesInv, NothingIsAhead, NEW w \in Works, Sound(w), w.to <= serviceRevision
    PROVE  /\ w.stage = "applyChanges" => Applied(group, w).group.revision <= serviceRevision
           /\ w.stage = "applySnapshot" =>
                  Upsert(group, Snapshot(w.to)).revision <= serviceRevision
<1>1. /\ group \in Groups /\ group.revision <= serviceRevision
      /\ w.to \in Nat /\ serviceRevision \in Nat
      /\ \A g \in Groups : g.revision \in Nat
  BY DEF UpdatesInv, TypeOK, NothingIsAhead, Groups, Works, Revisions
<1>2. ASSUME w.stage = "applyChanges"
      PROVE  Applied(group, w).group.revision <= serviceRevision
  <2>1. w.from >= 1
    BY <1>2 DEF Sound, ChangeStages
  <2>2. /\ Applied(group, w).group \in Groups
        /\ \/ Applied(group, w).group.revision = group.revision
           \/ Applied(group, w).group.revision <= w.to
    BY <1>1, <2>1, ChangesAreApplied DEF Achieved
  <2> QED
    BY <1>1, <2>2
<1>3. ASSUME w.stage = "applySnapshot"
      PROVE  Upsert(group, Snapshot(w.to)).revision <= serviceRevision
  <2>1. w.to \in Revisions
    BY <1>3 DEF Sound, SnapshotStages, Works, Revisions
  <2>2. Snapshot(w.to) \in Groups /\ Snapshot(w.to).revision = w.to
    BY <2>1, SnapshotIsAGroup
  <2>3. Upsert(group, Snapshot(w.to)).revision \in {group.revision, w.to}
    BY <1>1, <2>2, UpsertKeepsTheNewer
  <2> QED
    BY <1>1, <2>3
<1> QED
  BY <1>2, <1>3

LEMMA ModelIsNotAhead ==
    ASSUME UpdatesInv, NothingIsAhead, [Next]_vars
    PROVE  group'.revision <= serviceRevision /\ serviceRevision <= serviceRevision'
<1>1. /\ group \in Groups /\ group.revision <= serviceRevision
      /\ serviceRevision \in Nat /\ ownChanges \subseteq Revisions
  BY DEF UpdatesInv, TypeOK, NothingIsAhead, Revisions
<1>2. CASE SomeoneChangesGroup \/ ChangeGroup
  BY <1>1, <1>2 DEF SomeoneChangesGroup, ChangeGroup, local
<1>3. CASE UNCHANGED <<group, serviceRevision>>
  BY <1>1, <1>3
<1>4. ASSUME NEW r \in Revisions, ApplyOwnChange(r)
      PROVE  group'.revision <= serviceRevision /\ serviceRevision <= serviceRevision'
  <2>1. r <= serviceRevision /\ serviceRevision' = serviceRevision
    BY <1>4 DEF ApplyOwnChange, NothingIsAhead
  <2>2. CASE DiffFits(group, r)
    BY <1>1, <1>4, <2>1, <2>2, DiffLeadsToItsRevision DEF ApplyOwnChange
  <2>3. CASE ~DiffFits(group, r)
    BY <1>1, <1>4, <2>1, <2>3 DEF ApplyOwnChange
  <2> QED
    BY <2>2, <2>3
<1>5. ASSUME NEW q \in Queues, Apply(q)
      PROVE  group'.revision <= serviceRevision /\ serviceRevision <= serviceRevision'
  <2>1. work[q] \in Works /\ Sound(work[q]) /\ work[q].to <= serviceRevision
    BY DEF UpdatesInv, TypeOK, WorkInv, NothingIsAhead
  <2>2. group'.revision <= serviceRevision
    BY <1>5, <2>1, WritesAreNotAhead DEF Apply, ApplyChanges, ApplySnapshot
  <2>3. serviceRevision' = serviceRevision
    BY <1>5 DEF Apply, ApplyChanges, ApplySnapshot
  <2> QED
    BY <1>1, <2>2, <2>3
<1>6. ASSUME NEW w \in late, LateWrite(w)
      PROVE  group'.revision <= serviceRevision /\ serviceRevision <= serviceRevision'
  <2>1. w \in Works /\ Sound(w) /\ w.to <= serviceRevision
    BY DEF UpdatesInv, TypeOK, WorkInv, NothingIsAhead
  <2>2. group'.revision <= serviceRevision
    BY <1>6, <2>1, WritesAreNotAhead DEF LateWrite
  <2>3. serviceRevision' = serviceRevision
    BY <1>6 DEF LateWrite
  <2> QED
    BY <1>1, <2>2, <2>3
<1>7. CASE FiveMinutesPass \/ AutoRefresh \/ RefreshImmediately \/ MessageArrives
           \/ ProcessMessage \/ UpdateForMessage
  BY <1>3, <1>7 DEF FiveMinutesPass, AutoRefresh, RefreshImmediately, MessageArrives,
     ProcessMessage, UpdateForMessage, local
<1>8. ASSUME NEW q \in Queues,
             Run(q) \/ Answer(q) \/ FailOverToSnapshot(q) \/ BlockOnMessageProcessing(q)
             \/ RequestFails(q) \/ TimeOut(q)
      PROVE  UNCHANGED <<group, serviceRevision>>
  BY <1>8 DEF Run, Answer, FetchChanges, FetchSnapshot, FailOverToSnapshot,
     BlockOnMessageProcessing, RequestFails, TimeOut, local
<1>9. ASSUME NEW w \in late, LateAnswer(w)
      PROVE  UNCHANGED <<group, serviceRevision>>
  BY <1>9 DEF LateAnswer, local
<1> QED
  BY <1>2, <1>3, <1>4, <1>5, <1>6, <1>7, <1>8, <1>9 DEF Next, vars, local

\* What is asked for is what the service has, and what is cached was fetched.
LEMMA NothingGetsAhead ==
    ASSUME UpdatesInv, NothingIsAhead, [Next]_vars
    PROVE  NothingIsAhead'
<1> DEFINE NotAhead(w) == w.to <= serviceRevision'
<1>1. /\ serviceRevision \in Nat /\ serviceRevision' \in Nat
      /\ serviceRevision <= serviceRevision'
      /\ group'.revision <= serviceRevision' /\ group' \in Groups
  <2>1. UpdatesInv'
    BY UpdatesInduction
  <2>2. serviceRevision \in Nat /\ serviceRevision' \in Nat /\ group' \in Groups
    BY <2>1 DEF UpdatesInv, TypeOK, Revisions
  <2>3. group'.revision \in Nat
    BY <2>2 DEF Groups
  <2> QED
    BY <2>2, <2>3, ModelIsNotAhead
<1>2. /\ work \in [Queues -> Works] /\ late \subseteq Works /\ changeCache \in Caches
      /\ ownChanges \subseteq Revisions /\ group \in Groups
      /\ \A q \in Queues : operations[q] # <<>> => Head(operations[q]) \in Operations
  BY DEF UpdatesInv, TypeOK, Caches
<1>3. /\ \A r \in ownChanges : r <= serviceRevision'
      /\ changeCache.to <= serviceRevision'
      /\ \A q \in Queues : NotAhead(work[q])
      /\ \A w \in late : NotAhead(w)
  BY <1>1, <1>2 DEF NothingIsAhead, Works, Revisions, Caches
<1>4. /\ Idle.to = 0 /\ NoChanges.to = 0
      /\ \A w : Cached(w).to = w.to \/ Cached(w).to = 0
      /\ \A w \in Works : Ready(w).to = w.to
  BY DEF Idle, Work, NoChanges, Cached, Ready, Works
<1>5. \A w \in Works, states \in BOOLEAN : WithChanges(w, states).to = serviceRevision
  BY DEF WithChanges, Works
<1>6. ASSUME NEW w \in Works
      PROVE  [w EXCEPT !.stage = "snapshot", !.to = serviceRevision].to = serviceRevision
  BY DEF Works
<1>7. 0 <= serviceRevision'
  BY <1>1
<1>8. SUFFICES /\ \A r \in ownChanges' : r <= serviceRevision'
               /\ changeCache'.to <= serviceRevision'
               /\ \A q \in Queues : NotAhead(work'[q])
               /\ \A w \in late' : NotAhead(w)
  BY <1>1 DEF NothingIsAhead
<1>9. CASE UNCHANGED <<ownChanges, changeCache, work, late>>
  BY <1>3, <1>9
<1>10. CASE SomeoneChangesGroup \/ FiveMinutesPass \/ AutoRefresh \/ RefreshImmediately
            \/ MessageArrives \/ ProcessMessage \/ UpdateForMessage
  BY <1>9, <1>10 DEF SomeoneChangesGroup, FiveMinutesPass, AutoRefresh, RefreshImmediately,
     MessageArrives, ProcessMessage, UpdateForMessage, local, queues
<1>11. CASE ChangeGroup
  BY <1>1, <1>3, <1>11 DEF ChangeGroup, queues
<1>12. CASE \E r \in Revisions : ApplyOwnChange(r)
  BY <1>3, <1>12 DEF ApplyOwnChange, queues
<1>13. ASSUME NEW q \in Queues, work' = [work EXCEPT ![q] = Idle]
       PROVE  \A p \in Queues : NotAhead(work'[p])
  BY <1>2, <1>3, <1>4, <1>7, <1>13
<1>14. ASSUME NEW q \in Queues, Run(q)
       PROVE  NothingIsAhead'
  <2> DEFINE op == Head(operations[q])
  <2>1. /\ changeCache' = CacheAfterUse(op)
        /\ UNCHANGED <<ownChanges, late>>
    BY <1>14 DEF Run, local
  <2>2. changeCache'.to <= serviceRevision'
    BY <1>3, <1>4, <1>7, <2>1 DEF CacheAfterUse
  <2>3. work'[q].to = 0 \/ (CacheServes(op) /\ work'[q].to = op.upTo)
    BY <1>2, <1>14 DEF Run, Work
  <2>4. CacheServes(op) => op.upTo <= serviceRevision'
    <3>1. op.upTo \in Nat
      <4>1. op \in Operations
        BY <1>2, <1>14 DEF Run
      <4> QED
        BY <4>1, OperationTypes DEF Revisions
    <3>2. changeCache.to \in Nat
      BY <1>2 DEF Caches
    <3> QED
      BY <1>1, <1>3, <3>1, <3>2 DEF CacheServes
  <2>5. \A p \in Queues \ {q} : work'[p] = work[p]
    BY <1>2, <1>14 DEF Run
  <2> HIDE DEF op
  <2> QED
    BY <1>1, <1>3, <1>7, <2>1, <2>2, <2>3, <2>4, <2>5 DEF NothingIsAhead
<1>15. ASSUME NEW q \in Queues, Answer(q) \/ BlockOnMessageProcessing(q) \/ FailOverToSnapshot(q)
       PROVE  NothingIsAhead'
  <2>1. UNCHANGED <<ownChanges, late>> /\ \A p \in Queues \ {q} : work'[p] = work[p]
    BY <1>2, <1>15 DEF Answer, FetchChanges, FetchSnapshot, BlockOnMessageProcessing,
       FailOverToSnapshot, local
  <2>2. NotAhead(work'[q]) /\ changeCache'.to <= serviceRevision'
    <3>1. CASE FetchChanges(q)
      <4>1. PICK states \in BOOLEAN : work'[q] = WithChanges(work[q], states)
        BY <1>2, <3>1 DEF FetchChanges
      <4>2. changeCache' = Cached(work'[q])
        BY <3>1 DEF FetchChanges
      <4>3. work'[q].to = serviceRevision
        BY <1>2, <1>5, <4>1
      <4> QED
        BY <1>1, <1>4, <1>7, <4>2, <4>3
    <3>2. CASE FetchSnapshot(q)
      <4>1. work'[q] = [work[q] EXCEPT !.stage = "snapshot", !.to = serviceRevision]
        BY <1>2, <3>2 DEF FetchSnapshot
      <4>2. work'[q].to = serviceRevision
        BY <1>2, <1>6, <4>1
      <4> QED
        BY <1>1, <1>3, <3>2, <4>2 DEF FetchSnapshot
    <3>3. CASE BlockOnMessageProcessing(q)
      <4>1. work'[q] = Ready(work[q])
        BY <1>2, <3>3 DEF BlockOnMessageProcessing
      <4> QED
        BY <1>2, <1>3, <1>4, <3>3, <4>1 DEF BlockOnMessageProcessing
    <3>4. CASE FailOverToSnapshot(q)
      <4>1. work'[q].to = work[q].to
        BY <1>2, <3>4 DEF FailOverToSnapshot, Works
      <4> QED
        BY <1>3, <3>4, <4>1 DEF FailOverToSnapshot
    <3> QED
      BY <1>15, <3>1, <3>2, <3>3, <3>4 DEF Answer
  <2> QED
    BY <1>1, <1>3, <2>1, <2>2 DEF NothingIsAhead
<1>16. ASSUME NEW q \in Queues, RequestFails(q) \/ TimeOut(q)
       PROVE  NothingIsAhead'
  <2>1. work' = [work EXCEPT ![q] = Idle] /\ UNCHANGED <<ownChanges, changeCache>>
    BY <1>16 DEF RequestFails, TimeOut, ReportError, local
  <2>2. late' \subseteq late \cup {work[q]}
    BY <1>16 DEF RequestFails, TimeOut
  <2> QED
    BY <1>1, <1>3, <1>13, <2>1, <2>2 DEF NothingIsAhead
<1>17. ASSUME NEW q \in Queues, Apply(q)
       PROVE  NothingIsAhead'
  <2>1. work' = [work EXCEPT ![q] = Idle] /\ UNCHANGED <<ownChanges, changeCache, late>>
    BY <1>17 DEF Apply, ApplyChanges, ApplySnapshot, ReportError, ReportSuccess
  <2> QED
    BY <1>1, <1>3, <1>13, <2>1 DEF NothingIsAhead
<1>18. ASSUME NEW w \in late, LateAnswer(w)
       PROVE  NothingIsAhead'
  <2>1. UNCHANGED <<ownChanges, work>> /\ w \in Works
    BY <1>2, <1>18 DEF LateAnswer, local
  <2>2. (\A v \in late' : NotAhead(v)) /\ changeCache'.to <= serviceRevision'
    <3>1. ASSUME NEW states \in BOOLEAN,
                 late' = (late \ {w}) \cup {WithChanges(w, states)},
                 changeCache' = Cached(WithChanges(w, states))
          PROVE  (\A v \in late' : NotAhead(v)) /\ changeCache'.to <= serviceRevision'
      BY <1>1, <1>3, <1>4, <1>5, <1>7, <2>1, <3>1
    <3>2. ASSUME changeCache' = changeCache,
                 late' = (late \ {w})
                     \cup {[w EXCEPT !.stage = "snapshot", !.to = serviceRevision]}
          PROVE  (\A v \in late' : NotAhead(v)) /\ changeCache'.to <= serviceRevision'
      <4> DEFINE new == [w EXCEPT !.stage = "snapshot", !.to = serviceRevision]
      <4>1. new.to = serviceRevision
        BY <1>6, <2>1
      <4> HIDE DEF new
      <4> QED
        BY <1>1, <1>3, <3>2, <4>1 DEF new
    <3>3. ASSUME changeCache' = changeCache, late' = (late \ {w}) \cup {Ready(w)}
          PROVE  (\A v \in late' : NotAhead(v)) /\ changeCache'.to <= serviceRevision'
      BY <1>3, <1>4, <2>1, <3>3
    <3> QED
      BY <1>18, <3>1, <3>2, <3>3 DEF LateAnswer
  <2> QED
    BY <1>1, <1>3, <2>1, <2>2 DEF NothingIsAhead
<1>19. ASSUME NEW w \in late, LateWrite(w)
       PROVE  NothingIsAhead'
  BY <1>1, <1>3, <1>19 DEF LateWrite, NothingIsAhead
<1> QED
  BY <1>1, <1>9, <1>10, <1>11, <1>12, <1>14, <1>15, <1>16, <1>17, <1>18, <1>19
     DEF Next, vars, local, queues, NothingIsAhead

\* What the end of an operation tells the message.
LEMMA MessageIsTold ==
    ASSUME UpdatesInv, NEW q \in Queues, work[q].stage # "idle",
           NEW outcomes, TellMessage(work[q].op, outcomes)
    PROVE  /\ arrived' = arrived
           /\ \/ UNCHANGED <<settled, processed>>
              \/ /\ settled < arrived /\ settled' = settled + 1
                 /\ processed' \in {processed, processed \cup {settled + 1}}
<1> DEFINE op == work[q].op
<1>1. CASE op.mode # "specific"
  BY <1>1 DEF TellMessage
<1>2. CASE op.mode = "specific"
  <2>1. operations[q] \in Seq(Operations) /\ operations[q] # <<>> /\ op = Head(operations[q])
    BY DEF UpdatesInv, TypeOK, QueueInv, OperationsMatch
  <2>2. 1 \in Asking(operations[q])
    BY <1>2, <2>1 DEF Asking
  <2>3. settled < arrived /\ settled \in Nat
    BY <2>2 DEF UpdatesInv, TypeOK, QueueInv, OneAsks, Asked, Queues
  <2>4. PICK outcome \in outcomes :
          /\ settled' = settled + (IF outcome = "failureShouldRetry" THEN 0 ELSE 1)
          /\ processed' = processed \cup
                 (IF outcome = "successShouldProcess" THEN {settled + 1} ELSE {})
    BY <1>2 DEF TellMessage
  <2>5. CASE outcome = "failureShouldRetry"
    BY <2>3, <2>4, <2>5 DEF TellMessage
  <2>6. CASE outcome # "failureShouldRetry"
    BY <2>3, <2>4, <2>6 DEF TellMessage
  <2> QED
    BY <2>5, <2>6
<1> QED
  BY <1>1, <1>2

\* Operations, caches and what is late are of no concern to the messages.
LEMMA StepsAreSynced ==
    ASSUME SyncedInv, SyncedInv', [Next]_vars
    PROVE  [Synced!Next]_(Synced!vars)
<1>1. /\ group.revision \in Nat /\ group'.revision \in Nat
      /\ serviceRevision \in Nat
      /\ group.revision <= group'.revision
      /\ group'.revision <= serviceRevision
  <2>1. group.revision \in Nat /\ group'.revision \in Nat /\ serviceRevision \in Nat
    BY DEF SyncedInv, UpdatesInv, TypeOK, Groups, Revisions
  <2> QED
    BY <2>1, StepsGoForward, ModelIsNotAhead DEF SyncedInv, Forward
<1>2. group'.revision \in group.revision .. serviceRevision
  BY <1>1
<1>3. CASE UNCHANGED <<serviceRevision, arrived, settled, processed>>
  BY <1>2, <1>3 DEF Synced!Next, Synced!Update, Synced!GoesForward
<1>4. CASE SomeoneChangesGroup \/ ChangeGroup
  BY <1>4 DEF SomeoneChangesGroup, ChangeGroup, local, messages,
     Synced!Next, Synced!GroupIsChanged
<1>5. CASE MessageArrives
  BY <1>5 DEF MessageArrives, local, Synced!Next, Synced!Arrive
<1>6. CASE ProcessMessage
  <2>1. /\ settled < arrived /\ settled' = settled + 1
        /\ processed' = processed \cup {settled + 1}
        /\ MessageRevision[settled + 1] <= group'.revision
        /\ UNCHANGED <<arrived, serviceRevision>>
    BY <1>6 DEF ProcessMessage, local
  <2> QED
    BY <1>2, <2>1 DEF Synced!Next, Synced!Process, Synced!Settle, Synced!GoesForward
<1>7. ASSUME NEW q \in Queues, work[q].stage # "idle", serviceRevision' = serviceRevision,
             NEW outcomes, TellMessage(work[q].op, outcomes)
      PROVE  Synced!Next
  <2>1. /\ arrived' = arrived
        /\ \/ UNCHANGED <<settled, processed>>
           \/ /\ settled < arrived /\ settled' = settled + 1
              /\ processed' \in {processed, processed \cup {settled + 1}}
    BY <1>7, MessageIsTold DEF SyncedInv
  <2>2. processed' # processed => MessageRevision[settled + 1] <= group'.revision
    BY UpdatesInduction DEF SyncedInv
  <2>3. CASE UNCHANGED <<settled, processed>>
    BY <1>2, <1>7, <2>1, <2>3 DEF Synced!Next, Synced!Update, Synced!GoesForward
  <2>4. CASE /\ settled < arrived /\ settled' = settled + 1
             /\ processed' \in {processed, processed \cup {settled + 1}}
    <3>1. Synced!Settle
      BY <1>2, <1>7, <2>1, <2>4 DEF Synced!Settle, Synced!GoesForward
    <3> QED
      BY <2>2, <2>4, <3>1 DEF Synced!Next, Synced!Discard, Synced!Process
  <2> QED
    BY <2>1, <2>3, <2>4
<1>8. ASSUME NEW q \in Queues, work[q].stage # "idle", serviceRevision' = serviceRevision,
             NEW isRetryable, NEW outcomes, ReportError(q, isRetryable, outcomes)
      PROVE  Synced!Next
  <2>1. UNCHANGED messages \/ TellMessage(work[q].op, outcomes)
    BY <1>8 DEF ReportError
  <2> QED
    BY <1>2, <1>7, <1>8, <2>1 DEF messages, Synced!Next, Synced!Update, Synced!GoesForward
<1>9. ASSUME NEW q \in Queues, RequestFails(q) \/ TimeOut(q)
      PROVE  Synced!Next
  <2>1. work[q].stage # "idle" /\ serviceRevision' = serviceRevision
    BY <1>9 DEF RequestFails, TimeOut
  <2>2. \E isRetryable \in BOOLEAN :
          \E outcomes \in {{"failureShouldRetry", "failureShouldDiscard"},
                            {"failureShouldDiscard"}, {"failureShouldRetry"}} :
              ReportError(q, isRetryable, outcomes)
    BY <1>9 DEF RequestFails, TimeOut
  <2> QED
    BY <1>8, <2>1, <2>2
<1>10. ASSUME NEW q \in Queues, Apply(q)
       PROVE  Synced!Next
  <2>1. work[q].stage # "idle" /\ serviceRevision' = serviceRevision
    BY <1>10 DEF Apply, ApplyChanges, ApplySnapshot
  <2>2. ReportSuccess(q) \/ ReportError(q, TRUE, {"failureShouldDiscard"})
    BY <1>10 DEF Apply, ApplyChanges, ApplySnapshot
  <2> QED
    BY <1>7, <1>8, <2>1, <2>2 DEF ReportSuccess
<1>11. CASE FiveMinutesPass \/ AutoRefresh \/ RefreshImmediately \/ UpdateForMessage
            \/ \E r \in Revisions : ApplyOwnChange(r)
  BY <1>3, <1>11 DEF FiveMinutesPass, AutoRefresh, RefreshImmediately, UpdateForMessage,
     ApplyOwnChange, messages
<1>12. ASSUME NEW q \in Queues,
              Run(q) \/ Answer(q) \/ FailOverToSnapshot(q) \/ BlockOnMessageProcessing(q)
       PROVE  UNCHANGED <<serviceRevision, arrived, settled, processed>>
  BY <1>12 DEF Run, Answer, FetchChanges, FetchSnapshot, FailOverToSnapshot,
     BlockOnMessageProcessing, messages
<1>13. ASSUME NEW w \in late, LateAnswer(w) \/ LateWrite(w)
       PROVE  UNCHANGED <<serviceRevision, arrived, settled, processed>>
  BY <1>13 DEF LateAnswer, LateWrite, messages
<1> QED
  BY <1>3, <1>4, <1>5, <1>6, <1>9, <1>10, <1>11, <1>12, <1>13 DEF Next, vars, messages

------------------------------------------------------------------------------
(***************************************************************************)
(* Theorems                                                                *)
(***************************************************************************)

\* The inductive invariant of the two operation queues and of what they wait for, types
\* included: one operation at most is there for the message that waits, and what has
\* been fetched for it reaches the revision it names.
THEOREM UpdatesInvariant == Spec => []UpdatesInv
<1>1. Init => UpdatesInv
  BY UpdatesInit
<1>2. UpdatesInv /\ [Next]_vars => UpdatesInv'
  BY UpdatesInduction
<1> QED
  BY <1>1, <1>2, PTL DEF Spec

\* Every variable has its type; in particular, no transaction over the changes takes the
\* model out of the revisions there are.
THEOREM TypesAreKept == Spec => []TypeOK
<1>1. UpdatesInv => TypeOK
  BY DEF UpdatesInv
<1> QED
  BY <1>1, UpdatesInvariant, PTL

\* No write of a late answer, a retry, a change of the local user or either queue takes the
\* model back to an earlier revision.
THEOREM ModelsNeverRevert == Spec => RevisionNeverReverts
<1>1. UpdatesInv /\ [Next]_vars => [group'.revision >= group.revision]_vars
  BY StepsGoForward DEF Forward
<1> QED
  BY <1>1, UpdatesInvariant, PTL DEF Spec, RevisionNeverReverts

\* However refreshes, late answers and own changes meet, and however the transactions over
\* the changes end: the model is what the service had at its revision.
THEOREM ModelsMissNoChange == Spec => []ModelMatchesRevision
<1>1. Init => ModelMatchesRevision
  BY UpdatesInit
<1>2. UpdatesInv /\ ModelMatchesRevision /\ [Next]_vars => ModelMatchesRevision'
  BY StepsGoForward DEF Forward, Reflects, ModelMatchesRevision
<1> QED
  BY <1>1, <1>2, UpdatesInvariant, PTL DEF Spec

\* A message is processed only when the model has reached the revision it names, whichever
\* of both queues, a cached or a late answer has brought it there.
THEOREM MessagesFindTheirRevision == Spec => []UpdatesReachTheirRevision
<1>1. Init => UpdatesReachTheirRevision
  BY UpdatesInit
<1>2. UpdatesInv /\ UpdatesReachTheirRevision /\ [Next]_vars => UpdatesReachTheirRevision'
  <2> SUFFICES ASSUME UpdatesInv, UpdatesReachTheirRevision, [Next]_vars,
                      NEW m \in processed'
               PROVE  MessageRevision[m] <= group'.revision
    BY DEF UpdatesReachTheirRevision
  <2>1. CASE m \in processed
    <3>1. MessageRevision[m] <= group.revision /\ MessageRevision[m] \in Nat
      BY <2>1, BoundsAssumption
         DEF UpdatesReachTheirRevision, UpdatesInv, TypeOK, Messages, Revisions
    <3>2. group'.revision >= group.revision /\ group.revision \in Nat /\ group'.revision \in Nat
      BY StepsGoForward DEF Forward, UpdatesInv, TypeOK, Groups
    <3> QED
      BY <3>1, <3>2
  <2>2. CASE m \notin processed
    BY <2>2, UpdatesInduction
  <2> QED
    BY <2>1, <2>2
<1> QED
  BY <1>1, <1>2, UpdatesInvariant, PTL DEF Spec
\* The refresh a message waits for is in the queue that waits for no messages.
THEOREM MessagesFindTheirRefresh == Spec => []WaitInv
<1>1. Init => WaitInv
  BY DEF Init, WaitInv, Waits, Queues
<1>2. UpdatesInv /\ WaitInv /\ [Next]_vars => WaitInv'
  BY WaitInduction
<1> QED
  BY <1>1, <1>2, UpdatesInvariant, PTL DEF Spec

\* Refreshes that wait for messages and messages that wait for refreshes never form a
\* circle.
THEOREM NobodyIsStuck == Spec => []NobodyWaitsForEachOther
<1>1. UpdatesInv /\ WaitInv => NobodyWaitsForEachOther
  BY SomeoneGoesOn
<1> QED
  BY <1>1, UpdatesInvariant, MessagesFindTheirRefresh, PTL

\* Neither what is late, nor what is cached, nor a change of the local user is ever newer
\* than the group at the service, and so the model is not.
THEOREM ServiceIsNotOvertaken == Spec => []NothingIsAhead
<1>1. Init => NothingIsAhead
  <2> SUFFICES ASSUME Init PROVE NothingIsAhead
    OBVIOUS
  <2>1. group.revision \in {0, 1}
    BY DEF Init, NoGroup, Inserted, Snapshot
  <2> QED
    BY <2>1 DEF Init, NothingIsAhead, NoChanges, Idle, Work
<1>2. UpdatesInv /\ NothingIsAhead /\ [Next]_vars => NothingIsAhead'
  BY NothingGetsAhead
<1> QED
  BY <1>1, <1>2, UpdatesInvariant, PTL DEF Spec

\* To the messages that need the group, its updates are what the abstract module says:
\* the model follows the service, and each message is settled once, in order, and
\* processed with a model that is new enough.
THEOREM UpdatesImplementSyncedGroup == Spec => ImplementsSyncedGroup
<1>1. Init => Synced!Init
  BY DEF Init, Synced!Init, NoGroup, Inserted, Snapshot
<1>2. Spec => []SyncedInv
  <2>1. SyncedInv <=> UpdatesInv /\ WaitInv /\ NothingIsAhead
    BY DEF SyncedInv
  <2> QED
    BY <2>1, UpdatesInvariant, MessagesFindTheirRefresh, ServiceIsNotOvertaken, PTL
<1>3. SyncedInv /\ SyncedInv' /\ [Next]_vars => [Synced!Next]_(Synced!vars)
  BY StepsAreSynced
<1> QED
  BY <1>1, <1>2, <1>3, PTL DEF Spec, ImplementsSyncedGroup, Synced!Spec
==============================================================================
