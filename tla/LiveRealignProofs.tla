------------------------- MODULE LiveRealignProofs -------------------------
(***************************************************************************)
(* For a ring of any depth, any intervals, any dense window and any number *)
(* of ticks and realigns: the types of LiveRealign, the ring as a bounded  *)
(* map, that no snapshot of an abandoned timeline survives, what becomes   *)
(* of the agreed snapshot, and how far the machine can be from its clock.  *)
(***************************************************************************)
EXTENDS LiveRealign, SnapRingProofs

Data == States \union {Null}

\* The ring is a bounded map whose snapshots are machine states.
RingGood(r) ==
    /\ r \in RingSet(Ticks, Data)
    /\ Sound(r)
    /\ \A t \in HeldTicks(r) : View(r)[t] \in States

\* q holds nothing that r does not hold.
Within(q, r) ==
    /\ RingGood(q)
    /\ HeldTicks(q) \subseteq HeldTicks(r)
    /\ \A t \in HeldTicks(q) : View(q)[t] = View(r)[t]

\* Where the emulation thread is decides what the flags can be.
Stages ==
    /\ finishing => counted
    /\ counted => sim <= MaxTick
    /\ at = "pump" => finishing
    /\ at \in {"parked", "guest"} => ~finishing
    /\ at = "parked" => ~counted

\* The snapshots that are of the current timeline; a realign to tick t will
\* drop the rest.
SnapsTo(r, t) == \A u \in HeldTicks(r) : u <= t => View(r)[u] = past[u]

\* A load not yet applied: the clock is already there, and only the save of
\* the frame in progress can lie beyond it.
LoadTrue ==
    \A t \in load :
        /\ sim = t + 1
        /\ SnapsTo(ring, t)
        /\ at # "apply" => \A u \in HeldTicks(ring) : u <= t

\* A save not yet made waits for the first pc to resume at.
SaveTrue ==
    \A k \in save :
        /\ at = "save" => (finishing /\ k = done) \/ (~known /\ k < sim)
        /\ at = "apply" => ~known /\ ((finishing /\ k = done) \/ k < sim)
        /\ at \in {"parked", "guest", "pump"} => ~known /\ k < sim

\* No load pending: everything held is of the current timeline.
HeldTrue ==
    load = {} => \A u \in HeldTicks(ring) :
        /\ View(ring)[u] = past[u]
        /\ u < sim \/ (at = "apply" /\ finishing /\ u = sim)

FrameTrue ==
    finishing =>
        /\ load = {} => done = sim
        /\ at \in {"pump", "save"} => machine = past[done]

FreshTrue == ~known => HeldTicks(ring) = {} /\ load = {}

Truth ==
    ~lost =>
        /\ ~live => load = {}
        /\ LoadTrue
        /\ SaveTrue
        /\ HeldTrue
        /\ FrameTrue
        /\ FreshTrue

IInv == TypeOK /\ RingGood(ring) /\ Stages /\ Truth
-----------------------------------------------------------------------------
(* What the operations leave in the ring *)

LEMMA Ranges ==
    /\ Ticks \in SUBSET Nat
    /\ 0 \in Ticks
    /\ Null \in Data
    /\ Nothing \in States
    /\ Ring = RingSet(Ticks, Data)
BY SnapAssumption DEF Ticks, Data, Nothing, States, Ring, RingSet

LEMMA ViewLoads ==
    ASSUME NEW r, RingGood(r)
    PROVE  /\ DOMAIN View(r) = HeldTicks(r)
           /\ \A t \in HeldTicks(r) : Load(r, t) = View(r)[t]
           /\ \A t \in HeldTicks(r) : Load(r, t) \in States
BY DEF View, RingGood

LEMMA HeldInTicks ==
    ASSUME NEW r, RingGood(r)
    PROVE  HeldTicks(r) \subseteq Ticks
<1>1. r.slots \in [Slots -> [valid : BOOLEAN, tick : Ticks, data : Data]]
  BY DEF RingGood, RingSet
<1> QED BY <1>1 DEF HeldTicks, Occupied

LEMMA EmptyGood == RingGood(EmptyRing) /\ HeldTicks(EmptyRing) = {}
<1>1. EmptyRing \in RingSet(Ticks, Data) /\ Sound(EmptyRing) /\ Occupied(EmptyRing) = {}
  BY Ranges, EmptyIsSound
<1>2. HeldTicks(EmptyRing) = {}
  BY <1>1 DEF HeldTicks
<1> QED BY <1>1, <1>2 DEF RingGood

LEMMA DropAfterWithin ==
    ASSUME NEW r, RingGood(r), NEW t
    PROVE  /\ Within(DropAfter(r, t), r)
           /\ \A u \in HeldTicks(DropAfter(r, t)) : ~(u > t)
<1> DEFINE q == DropAfter(r, t)
<1>1. q \in RingSet(Ticks, Data) /\ Sound(q) /\ View(q) = MapDropAfter(View(r), t)
  BY Ranges, DropAfterActs DEF RingGood
<1>2. DOMAIN View(q) = HeldTicks(q) /\ DOMAIN View(r) = HeldTicks(r)
  BY <1>1, ViewAt DEF Sound, RingGood
<1> HIDE DEF q
<1>3. /\ HeldTicks(q) = HeldTicks(r) \ {u \in HeldTicks(r) : u > t}
      /\ \A u \in HeldTicks(q) : View(q)[u] = View(r)[u]
  BY <1>1, <1>2 DEF MapDropAfter, MapWithout
<1>4. RingGood(q)
  BY <1>1, <1>3 DEF RingGood
<1>5. Within(q, r) /\ \A u \in HeldTicks(q) : ~(u > t)
  BY <1>3, <1>4 DEF Within
<1> QED BY <1>5 DEF q

LEMMA DropTickWithin ==
    ASSUME NEW r, RingGood(r), NEW t
    PROVE  Within(DropTick(r, t), r)
<1> DEFINE q == DropTick(r, t)
<1>1. q \in RingSet(Ticks, Data) /\ Sound(q) /\ View(q) = MapWithout(View(r), {t})
  BY Ranges, DropTickActs DEF RingGood
<1>2. DOMAIN View(q) = HeldTicks(q) /\ DOMAIN View(r) = HeldTicks(r)
  BY <1>1, ViewAt DEF Sound, RingGood
<1> HIDE DEF q
<1>3. /\ HeldTicks(q) = HeldTicks(r) \ {t}
      /\ \A u \in HeldTicks(q) : View(q)[u] = View(r)[u]
  BY <1>1, <1>2 DEF MapWithout
<1>4. RingGood(q)
  BY <1>1, <1>3 DEF RingGood
<1>5. Within(q, r)
  BY <1>3, <1>4 DEF Within
<1> QED BY <1>5 DEF q

LEMMA SameWithin ==
    ASSUME NEW r, RingGood(r)
    PROVE  Within(r, r)
BY DEF Within

LEMMA StoreGood ==
    ASSUME NEW r, RingGood(r), NEW t \in Ticks, NEW d \in States
    PROVE  /\ RingGood(Store(r, t, d))
           /\ HeldTicks(Store(r, t, d)) \subseteq HeldTicks(r) \union {t}
           /\ t \in HeldTicks(Store(r, t, d))
           /\ View(Store(r, t, d))[t] = d
           /\ \A u \in HeldTicks(Store(r, t, d)) :
                 u # t => View(Store(r, t, d))[u] = View(r)[u]
<1> DEFINE q == Store(r, t, d)
           m == View(r)
<1>1. q \in RingSet(Ticks, Data) /\ Sound(q) /\ View(q) = MapStore(m, t, d)
  BY Ranges, StoreActs DEF RingGood, Data
<1>2. DOMAIN View(q) = HeldTicks(q) /\ DOMAIN m = HeldTicks(r)
  BY <1>1, ViewAt DEF Sound, RingGood
<1> HIDE DEF q, m
<1>3. /\ DOMAIN MapStore(m, t, d) \subseteq DOMAIN m \union {t}
      /\ t \in DOMAIN MapStore(m, t, d)
      /\ MapStore(m, t, d)[t] = d
      /\ \A u \in DOMAIN MapStore(m, t, d) : u # t => MapStore(m, t, d)[u] = m[u]
  <2>1. CASE t \in DOMAIN m \/ Cardinality(DOMAIN m) < Depth
    BY <2>1 DEF MapStore, MapWith
  <2>2. CASE ~(t \in DOMAIN m \/ Cardinality(DOMAIN m) < Depth)
    BY <2>2 DEF MapStore, MapWith, MapWithout
  <2> QED BY <2>1, <2>2
<1>4. /\ HeldTicks(q) \subseteq HeldTicks(r) \union {t}
      /\ t \in HeldTicks(q)
      /\ View(q)[t] = d
      /\ \A u \in HeldTicks(q) : u # t => View(q)[u] = m[u]
  BY <1>1, <1>2, <1>3
<1>5. RingGood(q)
  BY <1>1, <1>4 DEF RingGood, m
<1> QED BY <1>4, <1>5 DEF q, m

-----------------------------------------------------------------------------
(* The ring in every step *)

LEMMA ClampTyped ==
    ASSUME NEW a \in [valid : BOOLEAN, lo : Ticks, through : Ticks], NEW t \in Ticks
    PROVE  ClampAgreed(a, t) \in [valid : BOOLEAN, lo : Ticks, through : Ticks]
BY DEF ClampAgreed

\* The snapshot an ABORT is honoured with is held, at or below its tick.
LEMMA NearestHeld ==
    ASSUME NEW wire \in 1 .. MaxTick, NEW t \in Ticks, Nearest(t, wire)
    PROVE  t \in HeldTicks(ring) /\ t <= wire /\ wire \in Ticks
<1>1. PICK cap \in 1 .. wire : t <= cap /\ Has(ring, t)
  BY DEF Nearest
<1>2. /\ wire \in Nat /\ MaxTick \in Nat /\ t \in Nat /\ cap \in Nat
      /\ cap <= wire /\ wire <= MaxTick
  BY SnapAssumption DEF Ticks
<1>3. t <= wire /\ wire \in Ticks
  BY <1>1, <1>2 DEF Ticks
<1> QED BY <1>1, <1>3, HasIsHeld

\* What PeerAbort does, whichever of the two paths it takes.
LEMMA AbortStep ==
    ASSUME TypeOK, RingGood(ring), NEW wire \in 1 .. MaxTick, PeerAbort(wire)
    PROVE  \E t \in Ticks :
              /\ t \in HeldTicks(ring)
              /\ load' = {t} /\ live' = TRUE /\ resume' = FALSE
              /\ agreed' \in [valid : BOOLEAN, lo : Ticks, through : Ticks]
              /\ ring' = DropAfter(ring, t)
              /\ sim' = t + 1
              /\ t + 1 <= MaxTick + 1
              /\ sim <= MaxTick => t + 1 <= MaxTick
<1>1. PICK t \in Ticks : Nearest(t, wire) /\ (HonorRollback(t, wire) \/ HonorLiveAhead(t, wire))
  BY DEF PeerAbort
<1>2. t \in HeldTicks(ring) /\ t <= wire
  BY <1>1, NearestHeld
<1>3. wire \in Ticks /\ t \in Nat /\ t <= MaxTick /\ MaxTick \in Nat
  BY SnapAssumption DEF Ticks
<1>4. agreed.through \in Ticks /\ agreed.through <= MaxTick /\ sim \in Nat
  BY SnapAssumption DEF TypeOK, Ticks
<1>5. CASE HonorRollback(t, wire)
  <2>1. t + 1 <= MaxTick
    BY <1>2, <1>3, <1>4, <1>5, SnapAssumption DEF HonorRollback, Ticks
  <2>2. [valid |-> TRUE, lo |-> t, through |-> wire]
          \in [valid : BOOLEAN, lo : Ticks, through : Ticks]
    BY <1>3
  <2>3. agreed' \in [valid : BOOLEAN, lo : Ticks, through : Ticks]
    BY <1>5, <2>2, ClampTyped DEF HonorRollback, ScheduleLiveRealign
  <2> QED BY <1>2, <1>3, <1>5, <2>1, <2>3 DEF HonorRollback, ScheduleLiveRealign
<1>6. CASE HonorLiveAhead(t, wire)
  <2>1. sim <= MaxTick => t + 1 <= MaxTick
    BY <1>3, <1>4, <1>6 DEF HonorLiveAhead
  <2>2. agreed' \in [valid : BOOLEAN, lo : Ticks, through : Ticks]
    BY <1>6, ClampTyped DEF HonorLiveAhead, ScheduleLiveRealign, TypeOK
  <2> QED BY <1>2, <1>3, <1>6, <2>1, <2>2 DEF HonorLiveAhead, ScheduleLiveRealign
<1> QED BY <1>1, <1>5, <1>6

\* What a load that finds its snapshot does to the machine and its past.
LEMMA ReplaceStep ==
    ASSUME TypeOK, RingGood(ring), NEW t \in load, Has(ring, t), Replace(t)
    PROVE  /\ t \in HeldTicks(ring) /\ t \in Ticks
           /\ machine' \in States
           /\ line' \in Nat
           /\ past' \in [Ticks -> States]
           /\ \A u \in Ticks : u <= t => past'[u] = past[u]
           /\ load' = {} /\ live' = FALSE
<1>1. t \in HeldTicks(ring) /\ t \in Ticks
  BY HasIsHeld, HeldInTicks
<1>2. machine' \in States
  BY <1>1, ViewLoads DEF Replace
<1>3. line' \in Nat
  BY DEF Replace, TypeOK
<1>4. past' = [u \in Ticks |-> IF u > t THEN Nothing ELSE past[u]]
  BY DEF Replace, Forget
<1>5. past' \in [Ticks -> States]
  BY <1>4, Ranges DEF TypeOK
<1>6. ASSUME NEW u \in Ticks, u <= t PROVE past'[u] = past[u]
  <2>1. ~(u > t)
    BY <1>1, <1>6 DEF Ticks
  <2> QED BY <1>4, <2>1
<1> QED BY <1>1, <1>2, <1>3, <1>5, <1>6 DEF Replace

\* ... and when it is a realign, to the ring and the watermark.
LEMMA RestoreStep ==
    ASSUME TypeOK, RingGood(ring), NEW t \in load, Has(ring, t), Restore(t)
    PROVE  /\ t \in HeldTicks(ring) /\ t \in Ticks
           /\ machine' \in States
           /\ line' \in Nat
           /\ past' \in [Ticks -> States]
           /\ \A u \in Ticks : u <= t => past'[u] = past[u]
           /\ agreed' \in [valid : BOOLEAN, lo : Ticks, through : Ticks]
           /\ load' = {} /\ live' = FALSE
           /\ Within(ring', ring)
           /\ \A u \in HeldTicks(ring') : ~(u > t)
<1>1. Replace(t) /\ ring' = DropAfter(ring, t) /\ agreed' = ClampAgreed(agreed, t)
  BY DEF Restore
<1>2. t \in Ticks
  BY <1>1, ReplaceStep
<1>3. agreed' \in [valid : BOOLEAN, lo : Ticks, through : Ticks]
  BY <1>1, <1>2, ClampTyped DEF TypeOK
<1>4. Within(ring', ring) /\ \A u \in HeldTicks(ring') : ~(u > t)
  BY <1>1, DropAfterWithin
<1> QED BY <1>1, <1>3, <1>4, ReplaceStep

\* What a load that fails leaves behind.
LEMMA FailStep ==
    ASSUME TypeOK, NEW t \in load, LoadFails(t)
    PROVE  /\ machine' \in States /\ line' \in Nat
           /\ live' = FALSE /\ lost' = TRUE
           /\ UNCHANGED <<ring, agreed, past, resume>>
<1>1. machine' \in States
  BY Ranges DEF LoadFails, TypeOK, States, Nothing
<1>2. line' \in Nat
  BY DEF LoadFails, TypeOK
<1> QED BY <1>1, <1>2 DEF LoadFails

\* What a request to save does.
LEMMA RequestStep ==
    ASSUME TypeOK, RingGood(ring), RequestSnap
    PROVE  /\ Within(ring', ring)
           /\ fifo' \in Seq(Ticks) /\ Len(fifo') <= Window
           /\ save' = {done} \/ save' = save
<1>1. fifo \in Seq(Ticks) /\ Len(fifo) <= Window /\ done \in Ticks
  BY DEF TypeOK
<1>2. CASE RequestMedia
  BY <1>1, <1>2, SameWithin DEF RequestMedia
<1>3. CASE RequestEvery
  BY <1>1, <1>3, SameWithin DEF RequestEvery
<1>4. CASE RequestTip
  <2>1. CASE done % Interval = 0 \/ Window = 0
    BY <1>1, <1>4, <2>1, SameWithin DEF RequestTip
  <2>2. CASE ~(done % Interval = 0 \/ Window = 0)
    <3>1. save' = {done} /\ TipDensePush(done)
      BY <1>4, <2>2 DEF RequestTip
    <3>2. CASE Len(fifo) < Window
      <4>1. fifo' = Append(fifo, done) /\ ring' = ring
        BY <3>1, <3>2 DEF TipDensePush
      <4>2. fifo' \in Seq(Ticks) /\ Len(fifo') = Len(fifo) + 1
        BY <1>1, <4>1
      <4>3. Len(fifo') <= Window
        BY <1>1, <3>2, <4>2, SnapAssumption
      <4> QED BY <3>1, <4>1, <4>2, <4>3, SameWithin
    <3>3. CASE ~(Len(fifo) < Window)
      <4>1. /\ fifo' = Append(Tail(fifo), done)
            /\ ring' = ring \/ ring' = DropTick(ring, Head(fifo))
        BY <3>1, <3>3 DEF TipDensePush
      <4>2. fifo # <<>> /\ Len(fifo) = Window
        BY <1>1, <2>2, <3>3, SnapAssumption
      <4>3. Tail(fifo) \in Seq(Ticks) /\ Len(Tail(fifo)) = Len(fifo) - 1
        BY <1>1, <4>2
      <4>4. fifo' \in Seq(Ticks) /\ Len(fifo') = Len(Tail(fifo)) + 1
        BY <1>1, <4>1, <4>3
      <4>5. Len(fifo') <= Window
        BY <4>2, <4>3, <4>4, SnapAssumption
      <4>6. Within(ring', ring)
        BY <4>1, SameWithin, DropTickWithin
      <4> QED BY <3>1, <4>4, <4>5, <4>6
    <3> QED BY <3>2, <3>3
  <2> QED BY <2>1, <2>2
<1> QED BY <1>2, <1>3, <1>4 DEF RequestSnap

\* Whatever a step does, it leaves the ring a bounded map of machine states.
LEMMA RingStep ==
    ASSUME TypeOK, RingGood(ring), [Next]_vars
    PROVE  RingGood(ring')
<1>1. ASSUME NEW wire \in 1 .. MaxTick, PeerAbort(wire) PROVE RingGood(ring')
  BY <1>1, AbortStep, DropAfterWithin DEF Within
<1>2. CASE RequestSnap
  BY <1>2, RequestStep DEF Within
<1>3. CASE PollSave
  <2>1. CASE ring' = ring
    BY <2>1
  <2>2. CASE \E t \in save : ring' = Store(ring, t, machine)
    <3>1. PICK t \in save : ring' = Store(ring, t, machine)
      BY <2>2
    <3>2. t \in Ticks /\ machine \in States
      BY DEF TypeOK
    <3> QED BY <3>1, <3>2, StoreGood
  <2> QED BY <1>3, <2>1, <2>2 DEF PollSave
<1>4. CASE PollApply
  <2>1. CASE ring' = ring
    BY <2>1
  <2>2. CASE \E t \in load : Has(ring, t) /\ Restore(t)
    BY <2>2, RestoreStep DEF Within
  <2> QED BY <1>4, <2>1, <2>2 DEF PollApply, LoadFails
<1>5. CASE AdmitApply
  BY <1>5, RestoreStep DEF AdmitApply, Within
<1>6. CASE ring' = ring
  BY <1>6
<1>7. Admit \/ FlushResume \/ EndFrame \/ EndUncounted \/ PollSnap
      \/ AdmitFail \/ AdmitRetry \/ AdmitGiveUp
      \/ AdvanceAgreed \/ HealAgreed \/ BootstrapAgreed \/ AtBound \/ UNCHANGED vars
      => ring' = ring
  BY DEF Admit, FlushResume, EndFrame, EndUncounted, PollSnap, AdmitFail, AdmitRetry,
         AdmitGiveUp, LoadFails, AdvanceAgreed, HealAgreed, BootstrapAgreed, RaiseTo,
         AtBound, vars
<1> QED BY <1>1, <1>2, <1>3, <1>4, <1>5, <1>6, <1>7 DEF Next
-----------------------------------------------------------------------------
(* Types and stages *)

LEMMA StagesStep ==
    ASSUME TypeOK, RingGood(ring), Stages, [Next]_vars
    PROVE  Stages'
<1> USE DEF Stages
<1>1. ASSUME NEW wire \in 1 .. MaxTick, PeerAbort(wire) PROVE Stages'
  <2>1. UNCHANGED <<at, finishing, counted>>
    BY <1>1 DEF PeerAbort
  <2>2. sim <= MaxTick => sim' <= MaxTick
    BY <1>1, AbortStep
  <2> QED BY <2>1, <2>2
<1>2. CASE Admit
  BY <1>2 DEF Admit
<1>3. CASE FlushResume
  BY <1>3 DEF FlushResume
<1>4. CASE EndFrame
  BY <1>4 DEF EndFrame
<1>5. CASE EndUncounted
  BY <1>5 DEF EndUncounted
<1>6. CASE RequestSnap
  BY <1>6 DEF RequestSnap
<1>7. CASE PollSnap
  BY <1>7 DEF PollSnap
<1>8. CASE PollSave
  BY <1>8 DEF PollSave
<1>9. CASE PollApply
  <2>1. LeavePoll /\ at = "apply"
    BY <1>9 DEF PollApply
  <2> QED BY <2>1 DEF LeavePoll
<1>10. CASE AdmitApply
  BY <1>10 DEF AdmitApply
<1>11. CASE AdmitFail \/ AdmitRetry \/ AdmitGiveUp
  BY <1>11 DEF AdmitFail, AdmitRetry, AdmitGiveUp
<1>12. CASE AdvanceAgreed \/ HealAgreed \/ BootstrapAgreed
  BY <1>12 DEF AdvanceAgreed, HealAgreed, BootstrapAgreed, RaiseTo
<1>13. CASE AtBound \/ UNCHANGED vars
  BY <1>13 DEF AtBound, vars
<1> QED BY <1>1, <1>2, <1>3, <1>4, <1>5, <1>6, <1>7, <1>8, <1>9, <1>10, <1>11,
           <1>12, <1>13 DEF Next

LEMMA TypeStep ==
    ASSUME TypeOK, RingGood(ring), Stages, [Next]_vars
    PROVE  TypeOK'
<1>0. ring' \in Ring
  BY RingStep, Ranges DEF RingGood
<1>1. ASSUME NEW wire \in 1 .. MaxTick, PeerAbort(wire) PROVE TypeOK'
  <2>1. PICK t \in Ticks :
           /\ load' = {t} /\ live' = TRUE /\ resume' = FALSE
           /\ agreed' \in [valid : BOOLEAN, lo : Ticks, through : Ticks]
           /\ sim' = t + 1 /\ t + 1 <= MaxTick + 1
    BY <1>1, AbortStep
  <2>2. sim' \in 0 .. MaxTick + 1
    BY <2>1, SnapAssumption DEF Ticks
  <2>3. UNCHANGED <<fifo, save, at, finishing, done, counted, known, machine,
                    line, past, lost>>
    BY <1>1 DEF PeerAbort
  <2> QED BY <1>0, <2>1, <2>2, <2>3 DEF TypeOK
<1>2. CASE Admit
  BY <1>0, <1>2 DEF Admit, TypeOK
<1>3. CASE FlushResume
  BY <1>0, <1>3 DEF FlushResume, TypeOK
<1>4. CASE EndFrame
  <2>1. sim \in Ticks
    BY <1>4, SnapAssumption DEF EndFrame, Stages, TypeOK, Ticks
  <2>2. NextState \in States
    BY DEF NextState, States, TypeOK
  <2>3. past' \in [Ticks -> States]
    BY <1>4, <2>1, <2>2 DEF EndFrame, TypeOK
  <2> QED BY <1>0, <1>4, <2>1, <2>2, <2>3 DEF EndFrame, TypeOK
<1>5. CASE EndUncounted
  <2>1. NextState \in States
    BY DEF NextState, States, TypeOK
  <2> QED BY <1>0, <1>5, <2>1 DEF EndUncounted, TypeOK
<1>6. CASE RequestSnap
  <2>1. /\ fifo' \in Seq(Ticks) /\ Len(fifo') <= Window
        /\ save' = {done} \/ save' = save
    BY <1>6, RequestStep
  <2>2. save' \in {{}} \union {{t} : t \in Ticks}
    BY <2>1 DEF TypeOK
  <2> QED BY <1>0, <1>6, <2>1, <2>2 DEF RequestSnap, TypeOK
<1>7. CASE PollSnap
  BY <1>0, <1>7 DEF PollSnap, TypeOK
<1>8. CASE PollSave
  <2>1. (save' = {} \/ save' = save) /\ (known' = known \/ known' = TRUE)
    BY <1>8 DEF PollSave
  <2> QED BY <1>0, <1>8, <2>1 DEF PollSave, TypeOK
<1>9. CASE PollApply
  <2>1. /\ sim' \in 0 .. MaxTick + 1
        /\ at' \in {"parked", "guest", "pump", "save", "apply"}
        /\ finishing' \in BOOLEAN /\ done' \in Ticks /\ counted' \in BOOLEAN
    <3>1. LeavePoll
      BY <1>9 DEF PollApply
    <3>2. CASE finishing
      BY <3>1, <3>2, Ranges, SnapAssumption DEF LeavePoll, Stages, TypeOK
    <3>3. CASE ~finishing
      BY <3>1, <3>3 DEF LeavePoll, TypeOK
    <3> QED BY <3>2, <3>3
  <2>2. /\ load' \in {{}} \union {{t} : t \in Ticks}
        /\ live' \in BOOLEAN /\ resume' \in BOOLEAN /\ lost' \in BOOLEAN
        /\ agreed' \in [valid : BOOLEAN, lo : Ticks, through : Ticks]
        /\ machine' \in States /\ line' \in Nat /\ past' \in [Ticks -> States]
    <3>1. CASE UNCHANGED <<load, live, agreed, machine, line, past, resume, lost>>
      BY <3>1 DEF TypeOK
    <3>2. CASE /\ \E t \in load : Has(ring, t) /\ Restore(t)
               /\ resume' = finishing /\ lost' = lost
      <4>1. PICK t \in load : Has(ring, t) /\ Restore(t)
        BY <3>2
      <4>2. /\ machine' \in States /\ line' \in Nat /\ past' \in [Ticks -> States]
            /\ agreed' \in [valid : BOOLEAN, lo : Ticks, through : Ticks]
            /\ load' = {} /\ live' = FALSE
        BY <4>1, RestoreStep
      <4> QED BY <3>2, <4>2 DEF TypeOK
    <3>3. CASE (\E t \in load : LoadFails(t)) /\ UNCHANGED load
      BY <3>3, FailStep DEF TypeOK
    <3> QED BY <1>9, <3>1, <3>2, <3>3 DEF PollApply
  <2>3. UNCHANGED <<fifo, save, known>>
    BY <1>9 DEF PollApply
  <2> QED BY <1>0, <2>1, <2>2, <2>3 DEF TypeOK
<1>10. CASE AdmitApply
  <2>1. PICK t \in load : Has(ring, t) /\ Restore(t)
    BY <1>10 DEF AdmitApply
  <2>2. /\ machine' \in States /\ line' \in Nat /\ past' \in [Ticks -> States]
        /\ agreed' \in [valid : BOOLEAN, lo : Ticks, through : Ticks]
        /\ load' = {} /\ live' = FALSE
    BY <2>1, RestoreStep
  <2> QED BY <1>0, <1>10, <2>2 DEF AdmitApply, TypeOK
<1>11. CASE AdmitFail \/ AdmitGiveUp
  <2>1. \E t \in load : LoadFails(t)
    BY <1>11 DEF AdmitFail, AdmitGiveUp
  <2>2. /\ machine' \in States /\ line' \in Nat
        /\ live' = FALSE /\ lost' = TRUE
        /\ UNCHANGED <<agreed, past, resume>>
    BY <2>1, FailStep
  <2>3. load' = load \/ load' = {}
    BY <1>11 DEF AdmitFail, AdmitGiveUp
  <2>4. UNCHANGED <<fifo, save, sim, at, finishing, done, counted, known>>
    BY <1>11 DEF AdmitFail, AdmitGiveUp
  <2> QED BY <1>0, <2>2, <2>3, <2>4 DEF TypeOK
<1>14. CASE AdmitRetry
  <2>1. PICK t \in load : Has(ring, t) /\ Replace(t)
    BY <1>14 DEF AdmitRetry
  <2>2. /\ machine' \in States /\ line' \in Nat /\ past' \in [Ticks -> States]
        /\ load' = {} /\ live' = FALSE
    BY <2>1, ReplaceStep
  <2> QED BY <1>0, <1>14, <2>2 DEF AdmitRetry, TypeOK
<1>12. CASE AdvanceAgreed \/ HealAgreed \/ BootstrapAgreed
  <2>1. PICK t \in HeldTicks(ring) : RaiseTo(t)
    BY <1>12 DEF AdvanceAgreed, HealAgreed, BootstrapAgreed
  <2>2. t \in Ticks
    BY HeldInTicks
  <2> QED BY <1>0, <2>1, <2>2 DEF RaiseTo, TypeOK
<1>13. CASE AtBound \/ UNCHANGED vars
  BY <1>13 DEF AtBound, vars, TypeOK
<1> QED BY <1>1, <1>2, <1>3, <1>4, <1>5, <1>6, <1>7, <1>8, <1>9, <1>10, <1>11,
           <1>12, <1>13, <1>14 DEF Next
-----------------------------------------------------------------------------
(* What is held is true *)

\* Steps that leave the clock, the ring, the past and the requests alone.
LEMMA QuietTruth ==
    ASSUME Truth, RingGood(ring), Stages,
           UNCHANGED <<ring, save, load, live, sim, done, known, past, lost>>,
           \/ UNCHANGED <<at, finishing, machine>>
           \/ /\ at \in {"parked", "guest"} /\ at' \in {"parked", "guest"}
              /\ finishing' = finishing
           \/ at = "guest" /\ at' = "save" /\ ~finishing'
    PROVE  Truth'
<1> SUFFICES ASSUME ~lost PROVE Truth'
  BY DEF Truth
<1>1. (~live => load = {}) /\ LoadTrue /\ SaveTrue /\ HeldTrue /\ FrameTrue /\ FreshTrue
  BY DEF Truth
<1>2. at \in {"parked", "guest"} => ~finishing
  BY DEF Stages
<1>3. LoadTrue'
  BY <1>1 DEF LoadTrue, SnapsTo
<1>4. SaveTrue'
  BY <1>1 DEF SaveTrue
<1>5. HeldTrue'
  BY <1>1 DEF HeldTrue
<1>6. FrameTrue'
  BY <1>1, <1>2 DEF FrameTrue
<1>7. FreshTrue'
  BY <1>1 DEF FreshTrue
<1> QED BY <1>1, <1>3, <1>4, <1>5, <1>6, <1>7 DEF Truth

\* A realign that is applied leaves only snapshots up to its tick.
LEMMA RestoreTruth ==
    ASSUME TypeOK, RingGood(ring), ~lost, Truth,
           NEW t \in load, Has(ring, t), Restore(t)
    PROVE  /\ sim = t + 1
           /\ load' = {} /\ known
           /\ \A u \in HeldTicks(ring') : u \in Ticks /\ u < sim /\ View(ring')[u] = past'[u]
<1>1. LoadTrue /\ FreshTrue
  BY DEF Truth
<1>2. sim = t + 1 /\ SnapsTo(ring, t)
  BY <1>1 DEF LoadTrue
<1>3. known
  BY <1>1 DEF FreshTrue
<1>4. /\ t \in Ticks /\ load' = {}
      /\ \A u \in Ticks : u <= t => past'[u] = past[u]
      /\ Within(ring', ring)
      /\ \A u \in HeldTicks(ring') : ~(u > t)
  BY RestoreStep
<1>5. ASSUME NEW u \in HeldTicks(ring')
      PROVE  u \in Ticks /\ u < sim /\ View(ring')[u] = past'[u]
  <2>1. u \in HeldTicks(ring) /\ View(ring')[u] = View(ring)[u]
    BY <1>4 DEF Within
  <2>2. u \in Ticks
    BY <2>1, HeldInTicks
  <2>3. u <= t
    BY <1>4, <2>2 DEF Ticks
  <2>4. View(ring)[u] = past[u]
    BY <1>2, <2>1, <2>3 DEF SnapsTo
  <2>5. u < sim
    BY <1>2, <1>4, <2>2, <2>3 DEF Ticks
  <2> QED BY <1>4, <2>1, <2>2, <2>3, <2>4, <2>5
<1> QED BY <1>2, <1>3, <1>4, <1>5

LEMMA AbortTruth ==
    ASSUME IInv, NEW wire \in 1 .. MaxTick, PeerAbort(wire)
    PROVE  Truth'
<1> SUFFICES ASSUME ~lost PROVE Truth'
  BY DEF Truth, PeerAbort
<1>1. TypeOK /\ RingGood(ring) /\ LoadTrue /\ SaveTrue /\ HeldTrue /\ FrameTrue /\ FreshTrue
  BY DEF Truth, IInv
<1>2. PICK t \in Ticks :
         /\ t \in HeldTicks(ring)
         /\ load' = {t} /\ live' = TRUE
         /\ ring' = DropAfter(ring, t)
         /\ sim' = t + 1
  BY <1>1, AbortStep
<1>3. /\ at \in {"parked", "guest", "pump"}
      /\ UNCHANGED <<save, at, finishing, done, known, machine, past, lost>>
  BY DEF PeerAbort
<1>4. known /\ save = {}
  BY <1>1, <1>2, <1>3 DEF FreshTrue, SaveTrue
<1>5. Within(ring', ring) /\ \A u \in HeldTicks(ring') : ~(u > t)
  BY <1>1, <1>2, DropAfterWithin
<1>6. ASSUME NEW u \in HeldTicks(ring') PROVE u <= t /\ View(ring')[u] = past[u]
  <2>1. u \in HeldTicks(ring) /\ View(ring')[u] = View(ring)[u]
    BY <1>5 DEF Within
  <2>2. u \in Ticks
    BY <1>1, <2>1, HeldInTicks
  <2>3. u <= t
    BY <1>5, <2>2 DEF Ticks
  <2>4. View(ring)[u] = past[u]
    <3>1. CASE load = {}
      BY <1>1, <2>1, <3>1 DEF HeldTrue
    <3>2. CASE load # {}
      <4>1. PICK v \in load : TRUE
        BY <3>2
      <4>2. u <= v /\ SnapsTo(ring, v)
        BY <1>1, <1>3, <2>1 DEF LoadTrue
      <4> QED BY <2>1, <4>2 DEF SnapsTo
    <3> QED BY <3>1, <3>2
  <2> QED BY <2>1, <2>3, <2>4
<1>7. LoadTrue'
  BY <1>2, <1>3, <1>6 DEF LoadTrue, SnapsTo
<1>8. SaveTrue' /\ HeldTrue' /\ FreshTrue'
  BY <1>2, <1>3, <1>4 DEF SaveTrue, HeldTrue, FreshTrue
<1>9. FrameTrue'
  BY <1>1, <1>2, <1>3 DEF FrameTrue
<1> QED BY <1>2, <1>7, <1>8, <1>9 DEF Truth

LEMMA EndFrameTruth ==
    ASSUME IInv, EndFrame
    PROVE  Truth'
<1> SUFFICES ASSUME ~lost PROVE Truth'
  BY DEF Truth, EndFrame
<1>1. /\ TypeOK /\ RingGood(ring) /\ LoadTrue /\ SaveTrue /\ HeldTrue /\ FreshTrue
      /\ ~live => load = {}
  BY DEF Truth, IInv
<1>2. sim \in Ticks
  BY <1>1, SnapAssumption DEF IInv, Stages, EndFrame, TypeOK, Ticks
<1>3. /\ past' = [past EXCEPT ![sim] = NextState] /\ machine' = NextState
      /\ at = "guest" /\ at' = "pump" /\ done' = sim /\ finishing'
      /\ UNCHANGED <<ring, save, load, live, sim, known, lost>>
  BY DEF EndFrame
<1>4. past \in [Ticks -> States]
  BY <1>1 DEF TypeOK
<1>5. \A u \in Ticks : u < sim => past'[u] = past[u]
  BY <1>2, <1>3, <1>4 DEF Ticks
<1>6. LoadTrue'
  <2> SUFFICES ASSUME NEW t \in load
               PROVE  sim = t + 1 /\ \A u \in HeldTicks(ring) : u <= t /\ View(ring)[u] = past'[u]
    BY <1>3 DEF LoadTrue, SnapsTo
  <2>1. sim = t + 1 /\ SnapsTo(ring, t) /\ \A u \in HeldTicks(ring) : u <= t
    BY <1>1, <1>3 DEF LoadTrue
  <2>2. t \in Ticks
    BY <1>1 DEF TypeOK
  <2>3. ASSUME NEW u \in HeldTicks(ring) PROVE View(ring)[u] = past'[u]
    <3>1. u \in Ticks /\ u <= t
      BY <1>1, <2>1, HeldInTicks
    <3>2. u < sim
      BY <2>1, <2>2, <3>1 DEF Ticks
    <3> QED BY <1>5, <2>1, <3>1, <3>2 DEF SnapsTo
  <2> QED BY <2>1, <2>3
<1>7. SaveTrue'
  BY <1>1, <1>3 DEF SaveTrue
<1>8. HeldTrue'
  <2> SUFFICES ASSUME load = {}, NEW u \in HeldTicks(ring)
               PROVE  View(ring)[u] = past'[u] /\ u < sim
    BY <1>3 DEF HeldTrue
  <2>1. View(ring)[u] = past[u] /\ u < sim /\ u \in Ticks
    BY <1>1, <1>3, HeldInTicks DEF HeldTrue
  <2> QED BY <1>5, <2>1
<1>9. FrameTrue'
  BY <1>2, <1>3, <1>4 DEF FrameTrue
<1>10. FreshTrue'
  BY <1>1, <1>3 DEF FreshTrue
<1> QED BY <1>1, <1>3, <1>6, <1>7, <1>8, <1>9, <1>10 DEF Truth

LEMMA RequestTruth ==
    ASSUME IInv, RequestSnap
    PROVE  Truth'
<1> SUFFICES ASSUME ~lost PROVE Truth'
  BY DEF Truth, RequestSnap
<1>1. /\ TypeOK /\ RingGood(ring) /\ LoadTrue /\ SaveTrue /\ HeldTrue
      /\ FrameTrue /\ FreshTrue
      /\ ~live => load = {}
  BY DEF Truth, IInv
<1>2. /\ at = "pump" /\ at' = "save" /\ finishing
      /\ UNCHANGED <<load, live, sim, finishing, done, known, machine, past, lost>>
  BY DEF RequestSnap, IInv, Stages
<1>3. Within(ring', ring) /\ (save' = {done} \/ save' = save)
  BY <1>1, RequestStep
<1>4. \A u \in HeldTicks(ring') : u \in HeldTicks(ring) /\ View(ring')[u] = View(ring)[u]
  BY <1>3 DEF Within
<1>5. LoadTrue'
  BY <1>1, <1>2, <1>4 DEF LoadTrue, SnapsTo
<1>6. SaveTrue'
  BY <1>1, <1>2, <1>3 DEF SaveTrue
<1>7. HeldTrue'
  BY <1>1, <1>2, <1>4 DEF HeldTrue
<1>8. FrameTrue' /\ FreshTrue'
  BY <1>1, <1>2, <1>4 DEF FrameTrue, FreshTrue
<1> QED BY <1>1, <1>2, <1>5, <1>6, <1>7, <1>8 DEF Truth

LEMMA PollSaveTruth ==
    ASSUME IInv, PollSave
    PROVE  Truth'
<1> SUFFICES ASSUME ~lost PROVE Truth'
  BY DEF Truth, PollSave
<1>1. /\ TypeOK /\ RingGood(ring) /\ LoadTrue /\ SaveTrue /\ HeldTrue
      /\ FrameTrue /\ FreshTrue
      /\ ~live => load = {}
  BY DEF Truth, IInv
<1>2. /\ at = "save" /\ at' = "apply"
      /\ UNCHANGED <<load, live, sim, finishing, done, machine, past, lost>>
  BY DEF PollSave
<1>3. CASE ring' = ring /\ known' = known /\ (save' = {} \/ (save' = save /\ ~known))
  <2>1. LoadTrue' /\ HeldTrue'
    BY <1>1, <1>2, <1>3 DEF LoadTrue, SnapsTo, HeldTrue
  <2>2. SaveTrue'
    BY <1>1, <1>2, <1>3 DEF SaveTrue
  <2>3. FrameTrue' /\ FreshTrue'
    BY <1>1, <1>2, <1>3 DEF FrameTrue, FreshTrue
  <2> QED BY <1>1, <1>2, <2>1, <2>2, <2>3 DEF Truth
<1>4. CASE \E k \in save : /\ sim <= k
                           /\ ring' = Store(ring, k, machine)
                           /\ save' = {} /\ known' = TRUE
  <2>1. PICK k \in save : sim <= k /\ ring' = Store(ring, k, machine)
    BY <1>4
  <2>2. k \in Ticks /\ machine \in States /\ sim \in Nat
    BY <1>1, SnapAssumption DEF TypeOK
  <2>3. finishing /\ k = done /\ machine = past[k]
    <3>1. ~(k < sim)
      BY <2>1, <2>2 DEF Ticks
    <3>2. finishing /\ k = done
      BY <1>1, <1>2, <3>1 DEF SaveTrue
    <3> QED BY <1>1, <1>2, <3>2 DEF FrameTrue
  <2>4. /\ HeldTicks(ring') \subseteq HeldTicks(ring) \union {k}
        /\ View(ring')[k] = machine
        /\ \A u \in HeldTicks(ring') : u # k => View(ring')[u] = View(ring)[u]
    BY <1>1, <2>1, <2>2, StoreGood
  <2>5. LoadTrue'
    <3> SUFFICES ASSUME NEW t \in load
                 PROVE  /\ sim = t + 1
                        /\ \A u \in HeldTicks(ring') : u <= t => View(ring')[u] = past[u]
      BY <1>2 DEF LoadTrue, SnapsTo
    <3>1. sim = t + 1 /\ SnapsTo(ring, t)
      BY <1>1 DEF LoadTrue
    <3>2. ASSUME NEW u \in HeldTicks(ring'), u <= t PROVE View(ring')[u] = past[u]
      <4>1. CASE u = k
        BY <2>3, <2>4, <4>1
      <4>2. CASE u # k
        BY <2>4, <3>1, <3>2, <4>2 DEF SnapsTo
      <4> QED BY <4>1, <4>2
    <3> QED BY <3>1, <3>2
  <2>6. HeldTrue'
    <3> SUFFICES ASSUME load = {}, NEW u \in HeldTicks(ring')
                 PROVE  View(ring')[u] = past[u] /\ (u < sim \/ (finishing /\ u = sim))
      BY <1>2 DEF HeldTrue
    <3>1. CASE u = k
      <4>1. k = sim
        BY <1>1, <2>3 DEF FrameTrue
      <4> QED BY <2>3, <2>4, <3>1, <4>1
    <3>2. CASE u # k
      BY <1>1, <1>2, <2>4, <3>2 DEF HeldTrue
    <3> QED BY <3>1, <3>2
  <2>7. SaveTrue' /\ FreshTrue'
    BY <1>4 DEF SaveTrue, FreshTrue
  <2>8. FrameTrue'
    BY <1>1, <1>2 DEF FrameTrue
  <2> QED BY <1>1, <1>2, <2>5, <2>6, <2>7, <2>8 DEF Truth
<1> QED BY <1>3, <1>4 DEF PollSave

LEMMA PollApplyTruth ==
    ASSUME IInv, PollApply
    PROVE  Truth'
<1> SUFFICES ASSUME ~lost, ~lost' PROVE Truth'
  BY DEF Truth, PollApply, LoadFails
<1>1. /\ TypeOK /\ RingGood(ring) /\ Truth
      /\ LoadTrue /\ SaveTrue /\ HeldTrue /\ FrameTrue /\ FreshTrue
      /\ ~live => load = {}
  BY DEF Truth, IInv
<1>2. at = "apply" /\ UNCHANGED <<save, known>> /\ LeavePoll
  BY DEF PollApply
<1>3. sim \in Nat /\ sim + 1 \in Nat
  BY <1>1, SnapAssumption DEF TypeOK
<1>4. /\ ~finishing'
      /\ at' \in {"parked", "guest"}
      /\ finishing => sim' = sim + 1
      /\ ~finishing => sim' = sim
  BY <1>2 DEF LeavePoll
<1>5. /\ load' = {}
      /\ \A u \in HeldTicks(ring') : u < sim' /\ View(ring')[u] = past'[u]
      /\ ~known => HeldTicks(ring') = {} /\ load = {}
  <2>1. CASE ~live /\ UNCHANGED <<ring, load, past>>
    <3>1. load = {} /\ (~known => HeldTicks(ring) = {})
      BY <1>1, <2>1 DEF FreshTrue
    <3>2. ASSUME NEW u \in HeldTicks(ring) PROVE u < sim' /\ View(ring)[u] = past[u]
      <4>1. View(ring)[u] = past[u] /\ (u < sim \/ (finishing /\ u = sim))
        BY <1>1, <3>1 DEF HeldTrue
      <4>2. u \in Nat
        BY <1>1, HeldInTicks, Ranges
      <4>3. u < sim'
        BY <1>3, <1>4, <4>1, <4>2
      <4> QED BY <4>1, <4>3
    <3> QED BY <2>1, <3>1, <3>2
  <2>2. CASE \E t \in load : Has(ring, t) /\ Restore(t)
    <3>1. PICK t \in load : Has(ring, t) /\ Restore(t)
      BY <2>2
    <3>2. /\ load' = {} /\ known
          /\ \A u \in HeldTicks(ring') : u \in Ticks /\ u < sim /\ View(ring')[u] = past'[u]
      BY <1>1, <3>1, RestoreTruth
    <3>3. ASSUME NEW u \in HeldTicks(ring') PROVE u < sim'
      <4>1. u \in Nat /\ u < sim
        BY <3>2, Ranges
      <4> QED BY <1>3, <1>4, <4>1
    <3> QED BY <3>2, <3>3
  <2> QED BY <2>1, <2>2 DEF PollApply, LoadFails
<1>6. LoadTrue' /\ HeldTrue' /\ FrameTrue' /\ FreshTrue'
  BY <1>2, <1>4, <1>5 DEF LoadTrue, HeldTrue, FrameTrue, FreshTrue
<1>7. SaveTrue'
  <2> SUFFICES ASSUME NEW k \in save PROVE ~known /\ k < sim'
    BY <1>2, <1>4 DEF SaveTrue
  <2>1. ~known /\ ((finishing /\ k = done) \/ k < sim)
    BY <1>1, <1>2 DEF SaveTrue
  <2>2. finishing => done = sim
    BY <1>1, <1>5, <2>1 DEF FrameTrue
  <2>3. k \in Nat
    BY <1>1, Ranges DEF TypeOK
  <2> QED BY <1>3, <1>4, <2>1, <2>2, <2>3
<1> QED BY <1>5, <1>6, <1>7 DEF Truth

LEMMA AdmitApplyTruth ==
    ASSUME IInv, AdmitApply
    PROVE  Truth'
<1> SUFFICES ASSUME ~lost PROVE Truth'
  BY DEF Truth, AdmitApply
<1>1. /\ TypeOK /\ RingGood(ring) /\ Truth /\ SaveTrue
      /\ at \in {"parked", "guest"} => ~finishing
  BY DEF Truth, IInv, Stages
<1>2. /\ at = "parked" /\ at' = "guest"
      /\ UNCHANGED <<save, sim, finishing, done, known, lost>>
  BY DEF AdmitApply
<1>3. /\ load' = {} /\ known
      /\ \A u \in HeldTicks(ring') : u < sim /\ View(ring')[u] = past'[u]
  BY <1>1, RestoreTruth DEF AdmitApply
<1>4. LoadTrue' /\ HeldTrue' /\ FreshTrue'
  BY <1>2, <1>3 DEF LoadTrue, HeldTrue, FreshTrue
<1>5. SaveTrue' /\ FrameTrue'
  BY <1>1, <1>2 DEF SaveTrue, FrameTrue
<1> QED BY <1>3, <1>4, <1>5 DEF Truth
-----------------------------------------------------------------------------
(* The agreed watermark *)

\* A pending save outlives its poll only before the first snapshot is made.
SaveAtPoll ==
    /\ known /\ at # "save" => save = {}
    /\ known /\ at = "save" => save = {} \/ (finishing /\ save = {done})
    /\ ~known => HeldTicks(ring) = {} /\ load = {} /\ ~agreed.valid

AheadFrom(n) == {u \in HeldTicks(ring) : u >= n}

AtMostOne(S) == \A u, v \in S : u = v

\* Of the ticks the clock has not passed at most one is held: what the frame
\* in progress saved while a realign was pending, if the realign was lost.
OneAhead ==
    /\ at # "apply" => AtMostOne(AheadFrom(sim))
    /\ at = "apply" /\ finishing => AtMostOne(AheadFrom(sim + 1))
    /\ at = "apply" /\ ~finishing => AtMostOne(AheadFrom(sim))
    /\ at \in {"pump", "save"} /\ finishing /\ done > sim => AheadFrom(sim) = {}

\* AgreedIsHeld made inductive: only a watermark the clock has passed ages out.
Marked ==
    agreed.valid =>
        /\ agreed.lo <= agreed.through
        /\ \/ agreed.through \in HeldTicks(ring)
           \/ /\ agreed.through < sim
              /\ \A u \in HeldTicks(ring) : u > agreed.through

MarkInv == SaveAtPoll /\ OneAhead /\ Marked

\* netplay_snap_ring_drop_after leaves every tick up to the one given.
LEMMA DropAfterKeeps ==
    ASSUME NEW r, RingGood(r), NEW t
    PROVE  \A u \in HeldTicks(r) : u \in HeldTicks(DropAfter(r, t)) \/ u > t
<1> DEFINE q == DropAfter(r, t)
<1>1. q \in RingSet(Ticks, Data) /\ Sound(q) /\ View(q) = MapDropAfter(View(r), t)
  BY Ranges, DropAfterActs DEF RingGood
<1>2. DOMAIN View(q) = HeldTicks(q) /\ DOMAIN View(r) = HeldTicks(r)
  BY <1>1, ViewAt DEF Sound, RingGood
<1> HIDE DEF q
<1>3. \A u \in HeldTicks(r) : u \in HeldTicks(q) \/ u > t
  BY <1>1, <1>2 DEF MapDropAfter, MapWithout
<1> QED BY <1>3 DEF q

\* netplay_snap_ring_drop_tick leaves every other tick.
LEMMA DropTickKeeps ==
    ASSUME NEW r, RingGood(r), NEW t
    PROVE  \A u \in HeldTicks(r) : u \in HeldTicks(DropTick(r, t)) \/ u = t
<1> DEFINE q == DropTick(r, t)
<1>1. q \in RingSet(Ticks, Data) /\ Sound(q) /\ View(q) = MapWithout(View(r), {t})
  BY Ranges, DropTickActs DEF RingGood
<1>2. DOMAIN View(q) = HeldTicks(q) /\ DOMAIN View(r) = HeldTicks(r)
  BY <1>1, ViewAt DEF Sound, RingGood
<1> HIDE DEF q
<1>3. \A u \in HeldTicks(r) : u \in HeldTicks(q) \/ u = t
  BY <1>1, <1>2 DEF MapWithout
<1> QED BY <1>3 DEF q

\* netplay_snap_ring_store gives up the lowest tick only, of several.
LEMMA StoreKeeps ==
    ASSUME Depth > 1, NEW r, RingGood(r), NEW t \in Ticks, NEW d \in States,
           NEW u \in HeldTicks(r), u \notin HeldTicks(Store(r, t, d))
    PROVE  /\ \A v \in HeldTicks(r) : u <= v
           /\ \E v \in HeldTicks(r) : v # u
<1> DEFINE q == Store(r, t, d)
           m == View(r)
<1>1. q \in RingSet(Ticks, Data) /\ Sound(q) /\ View(q) = MapStore(m, t, d)
  BY Ranges, StoreActs DEF RingGood, Data
<1>2. DOMAIN View(q) = HeldTicks(q) /\ DOMAIN m = HeldTicks(r)
  BY <1>1, ViewAt DEF Sound, RingGood
<1>3. u \in DOMAIN m /\ u \notin DOMAIN MapStore(m, t, d)
  BY <1>1, <1>2
<1> HIDE DEF q, m
<1>4. ~(t \in DOMAIN m \/ Cardinality(DOMAIN m) < Depth)
  BY <1>3 DEF MapStore, MapWith
<1>5. u \in Lowest(m)
  BY <1>3, <1>4 DEF MapStore, MapWith, MapWithout
<1>6. \A v \in HeldTicks(r) : u <= v
  BY <1>2, <1>5 DEF Lowest
<1>7. \E v \in HeldTicks(r) : v # u
  <2> SUFFICES ASSUME \A v \in HeldTicks(r) : v = u PROVE FALSE
    OBVIOUS
  <2>1. DOMAIN m = {u}
    BY <1>2, <1>3
  <2>2. Cardinality(DOMAIN m) = 1
    BY <2>1, FS_Singleton
  <2> QED BY <1>4, <2>2, DepthAssumption
<1> QED BY <1>6, <1>7

\* realign_invalidate_evidence: the watermark is cut to the tick, or was not past it.
LEMMA ClampMark ==
    ASSUME NEW a \in [valid : BOOLEAN, lo : Ticks, through : Ticks], NEW t \in Ticks,
           a.valid => a.lo <= a.through
    PROVE  /\ ClampAgreed(a, t).valid = a.valid
           /\ a.valid => /\ ClampAgreed(a, t).lo <= ClampAgreed(a, t).through
                         /\ \/ ClampAgreed(a, t).through = t /\ a.through > t
                            \/ ClampAgreed(a, t).through = a.through /\ a.through <= t
<1>1. /\ a.lo \in Nat /\ a.through \in Nat /\ t \in Nat /\ a.valid \in BOOLEAN
  BY Ranges
<1>2. CASE a.valid /\ a.through > t
  <2>1. CASE a.lo > t
    <3>1. ClampAgreed(a, t) = [valid |-> TRUE, lo |-> t, through |-> t]
      BY <1>2, <2>1 DEF ClampAgreed
    <3> QED BY <1>1, <1>2, <3>1
  <2>2. CASE ~(a.lo > t)
    <3>1. ClampAgreed(a, t) = [valid |-> TRUE, lo |-> a.lo, through |-> t]
      BY <1>2, <2>2 DEF ClampAgreed
    <3> QED BY <1>1, <1>2, <2>2, <3>1
  <2> QED BY <2>1, <2>2
<1>3. CASE ~(a.valid /\ a.through > t)
  <2>1. ClampAgreed(a, t) = a
    BY <1>3 DEF ClampAgreed
  <2> QED BY <1>1, <1>3, <2>1
<1> QED BY <1>2, <1>3

\* The ring and the watermark cut at a held tick.
LEMMA CutMark ==
    ASSUME TypeOK, RingGood(ring), Marked, NEW t \in HeldTicks(ring),
           ring' = DropAfter(ring, t), agreed' = ClampAgreed(agreed, t), agreed'.valid
    PROVE  /\ agreed'.lo <= agreed'.through
           /\ \/ agreed'.through \in HeldTicks(ring')
              \/ /\ agreed'.through <= t
                 /\ agreed'.through < sim
                 /\ \A u \in HeldTicks(ring') : u > agreed'.through
<1>1. /\ t \in Ticks /\ t \in Nat
      /\ agreed \in [valid : BOOLEAN, lo : Ticks, through : Ticks]
  BY HeldInTicks, Ranges DEF TypeOK
<1>2. agreed.valid => agreed.lo <= agreed.through
  BY DEF Marked
<1>3. /\ agreed.valid
      /\ agreed'.lo <= agreed'.through
      /\ \/ agreed'.through = t
         \/ agreed'.through = agreed.through /\ agreed.through <= t
  BY <1>1, <1>2, ClampMark
<1>4. /\ HeldTicks(ring') \subseteq HeldTicks(ring)
      /\ \A u \in HeldTicks(ring) : u \in HeldTicks(ring') \/ u > t
  BY DropAfterWithin, DropAfterKeeps DEF Within
<1>5. CASE agreed'.through = t
  <2>1. ~(t > t)
    BY <1>1
  <2> QED BY <1>3, <1>4, <1>5, <2>1
<1>6. CASE agreed'.through = agreed.through /\ agreed.through <= t
  <2>1. agreed.through \in Nat
    BY <1>1, Ranges
  <2>2. ~(agreed.through > t)
    BY <1>1, <1>6, <2>1
  <2>3. CASE agreed.through \in HeldTicks(ring)
    BY <1>3, <1>4, <1>6, <2>2, <2>3
  <2>4. CASE agreed.through \notin HeldTicks(ring)
    BY <1>3, <1>4, <1>6, <2>4 DEF Marked
  <2> QED BY <2>3, <2>4
<1> QED BY <1>3, <1>5, <1>6

\* Fewer snapshots and a clock further on leave at most one ahead.
LEMMA FewerAhead ==
    ASSUME NEW n \in Nat, NEW k \in Nat, n <= k, HeldTicks(ring') \subseteq HeldTicks(ring),
           RingGood(ring), AtMostOne(AheadFrom(n))
    PROVE  AtMostOne({u \in HeldTicks(ring') : u >= k})
<1> SUFFICES ASSUME NEW u \in HeldTicks(ring'), NEW v \in HeldTicks(ring'), u >= k, v >= k
             PROVE  u = v
  BY DEF AtMostOne
<1>1. u \in HeldTicks(ring) /\ v \in HeldTicks(ring) /\ u \in Nat /\ v \in Nat
  BY HeldInTicks, Ranges
<1>2. u >= n /\ v >= n
  BY <1>1
<1> QED BY <1>1, <1>2 DEF AtMostOne, AheadFrom

\* Steps that touch neither the ring nor the watermark, the clock or a save.
LEMMA QuietMark ==
    ASSUME MarkInv, UNCHANGED <<ring, agreed, sim, save, known, done>>,
           load' = load \/ load' = {},
           \/ UNCHANGED <<at, finishing>>
           \/ at \in {"parked", "guest"} /\ at' \in {"parked", "guest"}
           \/ at = "guest" /\ at' = "save" /\ ~finishing'
    PROVE  MarkInv'
<1>1. SaveAtPoll'
  BY DEF MarkInv, SaveAtPoll
<1>2. OneAhead'
  BY DEF MarkInv, OneAhead, AheadFrom
<1>3. Marked'
  BY DEF MarkInv, Marked
<1> QED BY <1>1, <1>2, <1>3 DEF MarkInv

\* A realign that a peer's ABORT queues keeps or cuts the watermark.
LEMMA AbortMark ==
    ASSUME IInv, MarkInv, NEW wire \in 1 .. MaxTick, PeerAbort(wire)
    PROVE  MarkInv'
<1>1. TypeOK /\ RingGood(ring) /\ SaveAtPoll /\ OneAhead /\ Marked
  BY DEF IInv, MarkInv
<1>2. PICK t \in Ticks : Nearest(t, wire) /\ (HonorRollback(t, wire) \/ HonorLiveAhead(t, wire))
  BY DEF PeerAbort
<1>3. t \in HeldTicks(ring) /\ t <= wire /\ t \in Nat /\ wire \in Nat /\ wire \in Ticks
  BY <1>2, NearestHeld, Ranges
<1>4. /\ ring' = DropAfter(ring, t) /\ sim' = t + 1
      /\ UNCHANGED <<save, at, finishing, done, known>>
      /\ at \in {"parked", "guest", "pump"}
  BY <1>2 DEF PeerAbort, HonorRollback, HonorLiveAhead, ScheduleLiveRealign
<1>5. known
  BY <1>1, <1>3 DEF SaveAtPoll
<1>6. SaveAtPoll'
  BY <1>1, <1>4, <1>5 DEF SaveAtPoll
<1>7. \A u \in HeldTicks(ring') : u \in Nat /\ ~(u > t)
  BY <1>1, <1>4, DropAfterWithin, HeldInTicks, Ranges DEF Within
<1>8. AheadFrom(sim)' = {}
  <2>1. \A u \in HeldTicks(ring') : ~(u >= t + 1)
    <3> TAKE u \in HeldTicks(ring')
    <3>1. u \in Nat /\ ~(u > t) /\ t \in Nat
      BY <1>3, <1>7
    <3> QED BY <3>1
  <2>2. AheadFrom(sim)' = {u \in HeldTicks(ring') : u >= t + 1}
    BY <1>4 DEF AheadFrom
  <2> QED BY <2>1, <2>2
<1>9. OneAhead'
  BY <1>4, <1>8 DEF OneAhead, AtMostOne
<1>10. Marked'
  <2> SUFFICES ASSUME agreed'.valid
               PROVE  /\ agreed'.lo <= agreed'.through
                      /\ \/ agreed'.through \in HeldTicks(ring')
                         \/ /\ agreed'.through < sim'
                            /\ \A u \in HeldTicks(ring') : u > agreed'.through
    BY DEF Marked
  <2>1. CASE HonorRollback(t, wire)
    <3> DEFINE a == [valid |-> TRUE, lo |-> t, through |-> wire]
    <3>1. agreed' = ClampAgreed(a, t)
      BY <2>1 DEF HonorRollback, ScheduleLiveRealign
    <3>2. a \in [valid : BOOLEAN, lo : Ticks, through : Ticks] /\ a.valid /\ a.lo <= a.through
      BY <1>3
    <3>3. /\ agreed'.lo <= agreed'.through
          /\ agreed'.through = t \/ (agreed'.through = wire /\ wire <= t)
      BY <3>1, <3>2, ClampMark
    <3>4. agreed'.through = t
      BY <1>3, <3>3
    <3>5. t \in HeldTicks(ring')
      <4>1. ~(t > t)
        BY <1>3
      <4> QED BY <1>1, <1>3, <1>4, <4>1, DropAfterKeeps
    <3> QED BY <3>3, <3>4, <3>5
  <2>2. CASE HonorLiveAhead(t, wire)
    <3>1. agreed' = ClampAgreed(agreed, t)
      BY <2>2 DEF HonorLiveAhead, ScheduleLiveRealign
    <3>2. /\ agreed'.lo <= agreed'.through
          /\ \/ agreed'.through \in HeldTicks(ring')
             \/ /\ agreed'.through <= t
                /\ \A u \in HeldTicks(ring') : u > agreed'.through
      BY <1>1, <1>3, <1>4, <3>1, CutMark
    <3>3. agreed'.through \in Nat
      BY <1>1, <1>2, <3>1, ClampTyped, Ranges DEF TypeOK
    <3>4. agreed'.through <= t => agreed'.through < sim'
      BY <1>3, <1>4, <3>3
    <3> QED BY <3>2, <3>4
  <2> QED BY <1>2, <2>1, <2>2
<1> QED BY <1>6, <1>9, <1>10 DEF MarkInv

\* A save request drops from the dense window nothing that is agreed.
LEMMA RequestMark ==
    ASSUME IInv, MarkInv, RequestSnap
    PROVE  MarkInv'
<1>1. TypeOK /\ RingGood(ring) /\ SaveAtPoll /\ OneAhead /\ Marked
  BY DEF IInv, MarkInv
<1>2. /\ at = "pump" /\ at' = "save" /\ finishing
      /\ UNCHANGED <<load, agreed, sim, finishing, done, known>>
  BY DEF RequestSnap, IInv, Stages
<1>3. /\ HeldTicks(ring') \subseteq HeldTicks(ring)
      /\ save' = {done} \/ save' = save
  BY <1>1, RequestStep DEF Within
<1>4. SaveAtPoll'
  BY <1>1, <1>2, <1>3 DEF SaveAtPoll
<1>5. OneAhead'
  <2>1. AtMostOne(AheadFrom(sim)')
    BY <1>1, <1>2, <1>3 DEF OneAhead, AtMostOne, AheadFrom
  <2>2. done > sim => AheadFrom(sim)' = {}
    BY <1>1, <1>2, <1>3 DEF OneAhead, AheadFrom
  <2> QED BY <1>2, <2>1, <2>2 DEF OneAhead
<1>6. agreed.valid /\ agreed.through \in HeldTicks(ring) => agreed.through \in HeldTicks(ring')
  <2> SUFFICES ASSUME agreed.valid, agreed.through \in HeldTicks(ring)
               PROVE  agreed.through \in HeldTicks(ring')
    OBVIOUS
  <2>1. CASE ring' = ring
    BY <2>1
  <2>2. CASE ring' = DropTick(ring, Head(fifo)) /\ ~Protected(Head(fifo))
    <3>1. agreed.through # Head(fifo)
      <4>1. agreed.lo <= agreed.through
        BY <1>1 DEF Marked
      <4>2. agreed.through \in Nat
        BY <1>1, Ranges DEF TypeOK
      <4>3. agreed.through <= agreed.through
        BY <4>2
      <4> QED BY <2>2, <4>1, <4>3 DEF Protected
    <3> QED BY <1>1, <2>2, <3>1, DropTickKeeps
  <2> QED BY <2>1, <2>2 DEF RequestSnap, RequestTip, RequestMedia, RequestEvery, TipDensePush
<1>7. Marked'
  BY <1>1, <1>2, <1>3, <1>6 DEF Marked
<1> QED BY <1>4, <1>5, <1>7 DEF MarkInv

\* What a save puts into the ring is newer than a watermark it pushes out.
LEMMA StoreMark ==
    ASSUME Depth > 1, IInv, MarkInv, at = "save", known, finishing,
           ring' = Store(ring, done, machine), sim <= done, agreed' = agreed, sim' = sim
    PROVE  Marked' /\ AtMostOne({u \in HeldTicks(ring') : u >= sim + 1})
<1>1. TypeOK /\ RingGood(ring) /\ OneAhead /\ Marked
  BY DEF IInv, MarkInv
<1>2. sim \in Nat /\ done \in Ticks /\ done \in Nat /\ machine \in States
      /\ agreed.through \in Nat
  BY <1>1, Ranges, SnapAssumption DEF TypeOK
<1>3. HeldTicks(ring') \subseteq HeldTicks(ring) \union {done} /\ done \in HeldTicks(ring')
  BY <1>1, <1>2, StoreGood
<1>4. HeldTicks(ring) \subseteq Nat
  BY <1>1, HeldInTicks, Ranges
<1>5. AtMostOne(AheadFrom(sim)) /\ (done > sim => AheadFrom(sim) = {})
  BY <1>1 DEF OneAhead
<1>6. Marked'
  <2> SUFFICES ASSUME agreed.valid, agreed.through \notin HeldTicks(ring')
               PROVE  /\ agreed.through < sim
                      /\ \A u \in HeldTicks(ring') : u > agreed.through
    BY <1>1 DEF Marked
  <2>1. CASE agreed.through \in HeldTicks(ring)
    <3>1. \A v \in HeldTicks(ring) : agreed.through <= v
      BY <1>1, <1>2, <2>1, StoreKeeps
    <3>2. PICK v \in HeldTicks(ring) : v # agreed.through
      BY <1>1, <1>2, <2>1, StoreKeeps
    <3>3. agreed.through < sim
      <4> SUFFICES ASSUME agreed.through >= sim PROVE FALSE
        BY <1>2
      <4>1. v \in Nat /\ agreed.through <= v
        BY <1>4, <3>1
      <4>2. v >= sim
        BY <1>2, <4>1
      <4> QED BY <1>5, <2>1, <3>2, <4>2 DEF AtMostOne, AheadFrom
    <3>4. ASSUME NEW u \in HeldTicks(ring') PROVE u > agreed.through
      <4>1. CASE u = done
        BY <1>2, <3>3, <4>1
      <4>2. CASE u # done
        <5>1. u \in HeldTicks(ring) /\ u \in Nat /\ u # agreed.through
          BY <1>3, <1>4, <4>2
        <5> QED BY <1>2, <3>1, <5>1
      <4> QED BY <4>1, <4>2
    <3> QED BY <3>3, <3>4
  <2>2. CASE agreed.through \notin HeldTicks(ring)
    <3>1. agreed.through < sim /\ \A u \in HeldTicks(ring) : u > agreed.through
      BY <1>1, <2>2 DEF Marked
    <3>2. done > agreed.through
      BY <1>2, <3>1
    <3> QED BY <1>3, <3>1, <3>2
  <2> QED BY <2>1, <2>2
<1>7. ASSUME NEW u \in HeldTicks(ring'), NEW v \in HeldTicks(ring'), u >= sim + 1, v >= sim + 1
      PROVE  u = v
  <2>1. u \in Nat /\ v \in Nat
    BY <1>2, <1>3, <1>4
  <2>2. u >= sim /\ v >= sim
    BY <1>2, <1>7, <2>1
  <2>3. CASE done = sim
    <3>1. u # done /\ v # done
      BY <1>2, <1>7, <2>1, <2>3
    <3> QED BY <1>3, <1>5, <2>2, <3>1 DEF AtMostOne, AheadFrom
  <2>4. CASE done > sim
    BY <1>3, <1>5, <2>2, <2>4 DEF AheadFrom
  <2> QED BY <1>2, <2>3, <2>4
<1> QED BY <1>6, <1>7 DEF AtMostOne

LEMMA PollSaveMark ==
    ASSUME Depth > 1, IInv, MarkInv, PollSave
    PROVE  MarkInv'
<1>1. TypeOK /\ RingGood(ring) /\ SaveAtPoll /\ OneAhead /\ Marked
  BY DEF IInv, MarkInv
<1>2. /\ at = "save" /\ at' = "apply"
      /\ UNCHANGED <<load, agreed, sim, finishing, done>>
  BY DEF PollSave
<1>3. sim \in Nat
  BY <1>1, SnapAssumption DEF TypeOK
<1>4. CASE ring' = ring /\ known' = known /\ (save' = {} \/ (save' = save /\ ~known))
  <2>1. SaveAtPoll' /\ Marked'
    BY <1>1, <1>2, <1>4 DEF SaveAtPoll, Marked
  <2>2. AtMostOne(AheadFrom(sim))
    BY <1>1, <1>2 DEF OneAhead
  <2>3. sim + 1 \in Nat /\ sim <= sim + 1
    BY <1>3
  <2>4. AtMostOne({u \in HeldTicks(ring') : u >= sim + 1})
    BY <1>1, <1>3, <1>4, <2>2, <2>3, FewerAhead
  <2>5. OneAhead'
    BY <1>2, <1>4, <2>2, <2>4 DEF OneAhead, AheadFrom
  <2> QED BY <2>1, <2>5 DEF MarkInv
<1>5. CASE \E k \in save : /\ sim <= k
                           /\ ring' = Store(ring, k, machine)
                           /\ save' = {} /\ known' = TRUE
  <2>1. PICK k \in save : sim <= k /\ ring' = Store(ring, k, machine)
    BY <1>5
  <2>2. SaveAtPoll'
    BY <1>2, <1>5 DEF SaveAtPoll
  <2>3. CASE ~known
    <3>1. HeldTicks(ring) = {} /\ ~agreed.valid
      BY <1>1, <2>3 DEF SaveAtPoll
    <3>2. HeldTicks(ring') \subseteq {k}
      <4>1. k \in Ticks /\ machine \in States
        BY <1>1 DEF TypeOK
      <4> QED BY <1>1, <2>1, <3>1, <4>1, StoreGood
    <3>3. Marked'
      BY <1>2, <3>1 DEF Marked
    <3>4. OneAhead'
      BY <1>2, <3>2 DEF OneAhead, AheadFrom, AtMostOne
    <3> QED BY <2>2, <3>3, <3>4 DEF MarkInv
  <2>4. CASE known
    <3>1. finishing /\ k = done
      BY <1>1, <1>2, <2>1, <2>4 DEF SaveAtPoll
    <3>2. Marked' /\ AtMostOne({u \in HeldTicks(ring') : u >= sim + 1})
      BY <1>2, <2>1, <2>4, <3>1, StoreMark
    <3>3. OneAhead'
      BY <1>2, <3>1, <3>2 DEF OneAhead, AheadFrom
    <3> QED BY <2>2, <3>2, <3>3 DEF MarkInv
  <2> QED BY <2>3, <2>4
<1> QED BY <1>4, <1>5 DEF PollSave

LEMMA PollApplyMark ==
    ASSUME IInv, MarkInv, PollApply
    PROVE  MarkInv'
<1>1. TypeOK /\ RingGood(ring) /\ SaveAtPoll /\ OneAhead /\ Marked
  BY DEF IInv, MarkInv
<1>2. at = "apply" /\ UNCHANGED <<save, known>> /\ LeavePoll
  BY DEF PollApply
<1>3. sim \in Nat
  BY <1>1, SnapAssumption DEF TypeOK
<1>4. /\ at' \in {"parked", "guest"} /\ ~finishing'
      /\ finishing => sim' = sim + 1
      /\ ~finishing => sim' = sim
  BY <1>2 DEF LeavePoll, IInv, TypeOK
<1>5. sim' \in Nat /\ sim <= sim' /\ AtMostOne(AheadFrom(sim'))
  BY <1>1, <1>2, <1>3, <1>4 DEF OneAhead
<1>6. CASE UNCHANGED <<ring, load, agreed>>
  <2>1. SaveAtPoll' /\ OneAhead'
    BY <1>1, <1>2, <1>4, <1>5, <1>6 DEF SaveAtPoll, OneAhead, AheadFrom
  <2>2. agreed.through \in Nat
    BY <1>1, Ranges DEF TypeOK
  <2>3. agreed.through < sim => agreed.through < sim'
    BY <1>3, <1>5, <2>2
  <2>4. Marked'
    BY <1>1, <1>6, <2>3 DEF Marked
  <2> QED BY <2>1, <2>4 DEF MarkInv
<1>7. CASE \E t \in load : Has(ring, t) /\ Restore(t)
  <2>1. PICK t \in load : Has(ring, t) /\ Restore(t)
    BY <1>7
  <2>2. /\ t \in HeldTicks(ring) /\ t \in Ticks /\ load' = {}
        /\ ring' = DropAfter(ring, t) /\ agreed' = ClampAgreed(agreed, t)
        /\ HeldTicks(ring') \subseteq HeldTicks(ring)
    BY <1>1, <2>1, RestoreStep DEF Restore, Within
  <2>3. SaveAtPoll'
    BY <1>1, <1>2, <1>4, <2>2 DEF SaveAtPoll
  <2>4. AtMostOne({u \in HeldTicks(ring') : u >= sim'})
    BY <1>5, <2>2 DEF AtMostOne, AheadFrom
  <2>5. OneAhead'
    BY <1>4, <2>4 DEF OneAhead, AheadFrom
  <2>6. Marked'
    <3> SUFFICES ASSUME agreed'.valid
                 PROVE  /\ agreed'.lo <= agreed'.through
                        /\ \/ agreed'.through \in HeldTicks(ring')
                           \/ /\ agreed'.through < sim'
                              /\ \A u \in HeldTicks(ring') : u > agreed'.through
      BY DEF Marked
    <3>1. /\ agreed'.lo <= agreed'.through
          /\ \/ agreed'.through \in HeldTicks(ring')
             \/ /\ agreed'.through < sim
                /\ \A u \in HeldTicks(ring') : u > agreed'.through
      BY <1>1, <2>2, CutMark
    <3>2. agreed'.through \in Nat
      BY <1>1, <2>2, ClampTyped, Ranges DEF TypeOK
    <3>3. agreed'.through < sim => agreed'.through < sim'
      BY <1>3, <1>5, <3>2
    <3> QED BY <3>1, <3>3
  <2> QED BY <2>3, <2>5, <2>6 DEF MarkInv
<1> QED BY <1>6, <1>7 DEF PollApply, LoadFails

LEMMA AdmitApplyMark ==
    ASSUME IInv, MarkInv, AdmitApply
    PROVE  MarkInv'
<1>1. TypeOK /\ RingGood(ring) /\ SaveAtPoll /\ OneAhead /\ Marked
  BY DEF IInv, MarkInv
<1>2. /\ at = "parked" /\ at' = "guest"
      /\ UNCHANGED <<save, sim, finishing, done, known>>
  BY DEF AdmitApply
<1>3. PICK t \in load : Has(ring, t) /\ Restore(t)
  BY DEF AdmitApply
<1>4. /\ t \in HeldTicks(ring) /\ load' = {}
      /\ ring' = DropAfter(ring, t) /\ agreed' = ClampAgreed(agreed, t)
      /\ HeldTicks(ring') \subseteq HeldTicks(ring)
  BY <1>1, <1>3, RestoreStep DEF Restore, Within
<1>5. SaveAtPoll'
  BY <1>1, <1>2, <1>4 DEF SaveAtPoll
<1>6. OneAhead'
  BY <1>1, <1>2, <1>4 DEF OneAhead, AtMostOne, AheadFrom
<1>7. Marked'
  BY <1>1, <1>2, <1>4, CutMark DEF Marked
<1> QED BY <1>5, <1>6, <1>7 DEF MarkInv

LEMMA RaiseMark ==
    ASSUME IInv, MarkInv, NEW t \in HeldTicks(ring), RaiseTo(t)
    PROVE  MarkInv'
<1>1. TypeOK /\ RingGood(ring) /\ SaveAtPoll /\ OneAhead
  BY DEF IInv, MarkInv
<1>2. /\ agreed' = [valid |-> TRUE, lo |-> t, through |-> t]
      /\ UNCHANGED <<ring, save, load, sim, at, finishing, done, known>>
  BY DEF RaiseTo
<1>3. t \in Nat
  BY <1>1, HeldInTicks, Ranges
<1>4. SaveAtPoll' /\ OneAhead'
  BY <1>1, <1>2 DEF SaveAtPoll, OneAhead, AheadFrom
<1>5. Marked'
  BY <1>2, <1>3 DEF Marked
<1> QED BY <1>4, <1>5 DEF MarkInv

LEMMA MarkStep ==
    ASSUME Depth > 1, IInv, MarkInv, [Next]_vars
    PROVE  MarkInv'
<1>1. CASE Admit \/ FlushResume
  BY <1>1, QuietMark DEF Admit, FlushResume
<1>2. CASE EndUncounted
  BY <1>2, QuietMark DEF EndUncounted
<1>3. CASE PollSnap
  BY <1>3, QuietMark DEF PollSnap
<1>4. CASE AdmitFail \/ AdmitRetry \/ AdmitGiveUp
  <2>1. /\ UNCHANGED <<ring, agreed, sim, save, known, done>>
        /\ load' = load \/ load' = {}
        /\ at = "parked" /\ at' \in {"parked", "guest"}
    BY <1>4 DEF AdmitFail, AdmitRetry, AdmitGiveUp, LoadFails, Replace
  <2> QED BY <2>1, QuietMark
<1>5. CASE AtBound \/ UNCHANGED vars
  BY <1>5, QuietMark DEF AtBound, vars
<1>6. CASE EndFrame
  <2>1. sim \in Nat
    BY SnapAssumption DEF IInv, TypeOK
  <2>2. /\ at = "guest" /\ at' = "pump" /\ done' = sim /\ ~(sim > sim)
        /\ UNCHANGED <<ring, agreed, sim, save, load, known>>
    BY <1>6, <2>1 DEF EndFrame
  <2> QED BY <2>2 DEF MarkInv, SaveAtPoll, OneAhead, AheadFrom, Marked
<1>7. CASE AdvanceAgreed \/ HealAgreed \/ BootstrapAgreed
  BY <1>7, RaiseMark DEF AdvanceAgreed, HealAgreed, BootstrapAgreed
<1> QED BY <1>1, <1>2, <1>3, <1>4, <1>5, <1>6, <1>7, AbortMark, RequestMark, PollSaveMark,
           PollApplyMark, AdmitApplyMark DEF Next
-----------------------------------------------------------------------------
(* The clock and the frames the machine has run *)

\* At least y and at most d above it.
Near(x, y, d) == y <= x /\ x <= y + d

\* The frames the clock accounts for: the machine is one frame ahead of the
\* clock while the end of its frame is handled, one behind while a frame runs
\* that no tick was admitted for, and level with it otherwise.
MachineNear(d) ==
    load = {} =>
        /\ finishing => Near(machine.pos, sim + 1, d)
        /\ ~finishing /\ (counted \/ (at = "parked" /\ ~resume)) =>
              Near(machine.pos, sim, d)
        /\ ~finishing /\ ~counted /\ (at # "parked" \/ resume) =>
              Near(machine.pos + 1, sim, d)

\* A snapshot that can still be loaded is the machine after its tick.
SnapsNear(d) ==
    \A u \in HeldTicks(ring) :
        (\A t \in load : u <= t) => Near(View(ring)[u].pos, u + 1, d)

\* A realign applied in finish_frame waits for flush_resume and for nothing else.
ResumeParked == resume => load = {} /\ at = "parked"

\* As long as no load was lost the machine is at most d frames ahead of the clock.
Drift(d) == ~lost => ResumeParked /\ MachineNear(d) /\ SnapsNear(d)

\* A realign applied while no admitted tick runs: by try_admit, or by the poll
\* of a frame that flush_resume or try_admit started.
AppliesUncounted == ~counted /\ \E t \in load : Has(ring, t) /\ Restore(t)

LEMMA NearWider ==
    \A x, y, d, e \in Nat : Near(x, y, d) /\ d <= e => Near(x, y, e)
BY DEF Near

LEMMA NearNext ==
    \A x, y, d \in Nat : Near(x, y, d) => Near(x + 1, y + 1, d) /\ Near(x + 1, y, d + 1)
BY DEF Near

LEMMA HeldPos ==
    ASSUME NEW r, RingGood(r), NEW u \in HeldTicks(r)
    PROVE  u \in Nat /\ View(r)[u].pos \in Nat
BY HeldInTicks, Ranges DEF RingGood, States

LEMMA Clocks ==
    ASSUME TypeOK
    PROVE  sim \in Nat /\ machine.pos \in Nat /\ line \in Nat
BY SnapAssumption DEF TypeOK, States

LEMMA SnapsWiden ==
    ASSUME RingGood(ring'), NEW d \in Nat, NEW e \in Nat, d <= e, SnapsNear(d)'
    PROVE  SnapsNear(e)'
<1> SUFFICES ASSUME NEW u \in HeldTicks(ring'), \A t \in load' : u <= t
             PROVE  Near(View(ring')[u].pos, u + 1, e)
  BY DEF SnapsNear
<1>1. Near(View(ring')[u].pos, u + 1, d)
  BY DEF SnapsNear
<1>2. u \in Nat /\ u + 1 \in Nat /\ View(ring')[u].pos \in Nat
  BY HeldPos
<1> QED BY <1>1, <1>2, NearWider

\* A bound on the drift after a step can be widened.
LEMMA WiderDrift ==
    ASSUME TypeOK', RingGood(ring'), NEW d \in Nat, NEW e \in Nat, d <= e, Drift(d)'
    PROVE  Drift(e)'
<1> SUFFICES ASSUME ~lost' PROVE ResumeParked' /\ MachineNear(e)' /\ SnapsNear(e)'
  BY DEF Drift
<1>1. ResumeParked' /\ MachineNear(d)' /\ SnapsNear(d)'
  BY DEF Drift
<1>2. /\ sim' \in Nat /\ sim' + 1 \in Nat
      /\ machine'.pos \in Nat /\ machine'.pos + 1 \in Nat
  <2>1. sim' \in 0 .. MaxTick + 1 /\ machine' \in States /\ MaxTick \in Nat
    BY SnapAssumption DEF TypeOK
  <2>2. sim' \in Nat
    BY <2>1
  <2>3. machine'.pos \in Nat
    BY <2>1 DEF States
  <2>4. \A n \in Nat : n + 1 \in Nat
    OBVIOUS
  <2> QED BY <2>2, <2>3, <2>4
<1>3. MachineNear(e)'
  BY <1>1, <1>2, NearWider DEF MachineNear
<1>4. SnapsNear(e)'
  BY <1>1, SnapsWiden
<1> QED BY <1>1, <1>3, <1>4

\* A realign loads a snapshot whose frames its tick accounts for.
LEMMA RestoreNear ==
    ASSUME TypeOK, RingGood(ring), ~lost, Truth, NEW d \in Nat, SnapsNear(d),
           NEW t \in load, Has(ring, t), Restore(t)
    PROVE  /\ sim = t + 1 /\ load' = {} /\ t \in Nat /\ machine'.pos \in Nat
           /\ Near(machine'.pos, sim, d)
           /\ SnapsNear(d)'
<1>1. sim = t + 1 /\ load' = {}
  BY RestoreTruth
<1>2. /\ t \in HeldTicks(ring) /\ Within(ring', ring)
      /\ \A u \in HeldTicks(ring') : ~(u > t)
  BY RestoreStep
<1>3. load = {t}
  BY DEF TypeOK
<1>4. t \in Nat /\ View(ring)[t].pos \in Nat
  BY <1>2, HeldPos
<1>5. machine' = View(ring)[t]
  BY <1>2, ViewLoads DEF Restore, Replace
<1>6. Near(View(ring)[t].pos, t + 1, d)
  BY <1>2, <1>3, <1>4 DEF SnapsNear
<1>7. SnapsNear(d)'
  <2> SUFFICES ASSUME NEW u \in HeldTicks(ring')
               PROVE  Near(View(ring')[u].pos, u + 1, d)
    BY DEF SnapsNear
  <2>1. u \in HeldTicks(ring) /\ View(ring')[u] = View(ring)[u] /\ ~(u > t)
    BY <1>2 DEF Within
  <2>2. u \in Nat
    BY <2>1, HeldPos
  <2>3. u <= t
    BY <1>4, <2>1, <2>2
  <2> QED BY <1>3, <2>1, <2>3 DEF SnapsNear
<1> QED BY <1>1, <1>4, <1>5, <1>6, <1>7

\* A step that neither loads nor stores, and moves neither clock nor machine.
LEMMA QuietDrift ==
    ASSUME NEW d \in Nat, Drift(d), Within(ring', ring),
           UNCHANGED <<load, sim, machine, lost, finishing>>,
           ~finishing => UNCHANGED <<at, counted, resume>>,
           finishing => resume' = resume /\ (at = "parked" => at' = "parked")
    PROVE  Drift(d)'
<1> SUFFICES ASSUME ~lost PROVE ResumeParked' /\ MachineNear(d)' /\ SnapsNear(d)'
  BY DEF Drift
<1>1. ResumeParked /\ MachineNear(d) /\ SnapsNear(d)
  BY DEF Drift
<1>2. ResumeParked'
  BY <1>1 DEF ResumeParked
<1>3. MachineNear(d)'
  BY <1>1 DEF MachineNear
<1>4. SnapsNear(d)'
  BY <1>1 DEF SnapsNear, Within
<1> QED BY <1>2, <1>3, <1>4

LEMMA PollSnapDrift ==
    ASSUME IInv, NEW d \in Nat, Drift(d), PollSnap
    PROVE  Drift(d)'
<1> SUFFICES ASSUME ~lost PROVE ResumeParked' /\ MachineNear(d)' /\ SnapsNear(d)'
  BY DEF Drift, PollSnap
<1>1. ResumeParked /\ MachineNear(d) /\ SnapsNear(d)
  BY DEF Drift
<1>2. /\ at = "guest" /\ at' = "save" /\ ~finishing /\ ~finishing'
      /\ UNCHANGED <<ring, load, sim, counted, resume, machine>>
  BY DEF PollSnap, IInv, Stages
<1> QED BY <1>1, <1>2 DEF ResumeParked, MachineNear, SnapsNear

LEMMA AbortDrift ==
    ASSUME IInv, NEW d \in Nat, Drift(d), NEW wire \in 1 .. MaxTick, PeerAbort(wire)
    PROVE  Drift(d)'
<1> SUFFICES ASSUME ~lost PROVE ResumeParked' /\ MachineNear(d)' /\ SnapsNear(d)'
  BY DEF Drift, PeerAbort
<1>1. TypeOK /\ RingGood(ring) /\ LoadTrue /\ SnapsNear(d)
  BY DEF Drift, IInv, Truth
<1>2. PICK t \in Ticks : load' = {t} /\ resume' = FALSE /\ ring' = DropAfter(ring, t)
  BY <1>1, AbortStep
<1>3. at # "apply"
  BY DEF PeerAbort
<1>4. Within(ring', ring)
  BY <1>1, <1>2, DropAfterWithin
<1>5. SnapsNear(d)'
  <2> SUFFICES ASSUME NEW u \in HeldTicks(ring')
               PROVE  Near(View(ring')[u].pos, u + 1, d)
    BY DEF SnapsNear
  <2>1. u \in HeldTicks(ring) /\ View(ring')[u] = View(ring)[u]
    BY <1>4 DEF Within
  <2>2. \A v \in load : u <= v
    BY <1>1, <1>3, <2>1 DEF LoadTrue
  <2> QED BY <1>1, <2>1, <2>2 DEF SnapsNear
<1> QED BY <1>2, <1>5 DEF ResumeParked, MachineNear

LEMMA EndFrameDrift ==
    ASSUME IInv, NEW d \in Nat, Drift(d), EndFrame
    PROVE  Drift(d)'
<1> SUFFICES ASSUME ~lost PROVE ResumeParked' /\ MachineNear(d)' /\ SnapsNear(d)'
  BY DEF Drift, EndFrame
<1>1. ResumeParked /\ MachineNear(d) /\ SnapsNear(d) /\ ~finishing
  BY DEF Drift, IInv, Stages, EndFrame
<1>2. /\ at = "guest" /\ counted /\ finishing'
      /\ machine'.pos = machine.pos + 1
      /\ UNCHANGED <<ring, load, sim, resume>>
  BY DEF EndFrame, NextState
<1>3. sim \in Nat /\ machine.pos \in Nat
  BY Clocks DEF IInv
<1>4. MachineNear(d)'
  BY <1>1, <1>2, <1>3, NearNext DEF MachineNear
<1>5. ResumeParked' /\ SnapsNear(d)'
  BY <1>1, <1>2 DEF ResumeParked, SnapsNear
<1> QED BY <1>4, <1>5

LEMMA EndUncountedDrift ==
    ASSUME IInv, NEW d \in Nat, Drift(d), EndUncounted
    PROVE  Drift(d)'
<1> SUFFICES ASSUME ~lost PROVE ResumeParked' /\ MachineNear(d)' /\ SnapsNear(d)'
  BY DEF Drift, EndUncounted
<1>1. ResumeParked /\ MachineNear(d) /\ SnapsNear(d) /\ ~finishing
  BY DEF Drift, IInv, Stages, EndUncounted
<1>2. /\ at = "guest" /\ at' = "parked" /\ ~counted
      /\ machine'.pos = machine.pos + 1
      /\ UNCHANGED <<ring, load, sim, resume, finishing, counted>>
  BY DEF EndUncounted, NextState
<1>3. ~resume
  BY <1>1, <1>2 DEF ResumeParked
<1>4. MachineNear(d)'
  BY <1>1, <1>2, <1>3 DEF MachineNear
<1>5. ResumeParked' /\ SnapsNear(d)'
  BY <1>1, <1>2, <1>3 DEF ResumeParked, SnapsNear
<1> QED BY <1>4, <1>5

LEMMA AdmitDrift ==
    ASSUME IInv, NEW d \in Nat, Drift(d), Admit \/ FlushResume
    PROVE  Drift(d)'
<1> SUFFICES ASSUME ~lost PROVE ResumeParked' /\ MachineNear(d)' /\ SnapsNear(d)'
  BY DEF Drift, Admit, FlushResume
<1>1. ResumeParked /\ MachineNear(d) /\ SnapsNear(d)
  BY DEF Drift
<1>2. /\ at = "parked" /\ at' = "guest" /\ ~finishing /\ ~counted
      /\ UNCHANGED <<ring, load, sim, finishing, machine>>
  BY DEF Admit, FlushResume, IInv, Stages
<1>3. (~resume /\ counted' /\ ~resume') \/ (resume /\ ~counted' /\ ~resume')
  BY <1>2 DEF Admit, FlushResume
<1>4. MachineNear(d)'
  BY <1>1, <1>2, <1>3 DEF MachineNear
<1>5. ResumeParked' /\ SnapsNear(d)'
  BY <1>1, <1>2, <1>3 DEF ResumeParked, SnapsNear
<1> QED BY <1>4, <1>5

LEMMA PollSaveDrift ==
    ASSUME IInv, NEW d \in Nat, Drift(d), PollSave
    PROVE  Drift(d)'
<1> SUFFICES ASSUME ~lost PROVE ResumeParked' /\ MachineNear(d)' /\ SnapsNear(d)'
  BY DEF Drift, PollSave
<1>1. /\ ResumeParked /\ MachineNear(d) /\ SnapsNear(d)
      /\ TypeOK /\ RingGood(ring) /\ LoadTrue /\ SaveTrue /\ FrameTrue
  BY DEF Drift, IInv, Truth
<1>2. /\ at = "save" /\ at' = "apply"
      /\ UNCHANGED <<load, sim, finishing, counted, resume, machine, done>>
  BY DEF PollSave
<1>3. ResumeParked' /\ MachineNear(d)'
  BY <1>1, <1>2 DEF ResumeParked, MachineNear
<1>4. CASE ring' = ring
  BY <1>1, <1>2, <1>3, <1>4 DEF SnapsNear
<1>5. CASE \E k \in save : sim <= k /\ ring' = Store(ring, k, machine)
  <2>1. PICK k \in save : sim <= k /\ ring' = Store(ring, k, machine)
    BY <1>5
  <2>2. k \in Ticks /\ k \in Nat /\ machine \in States /\ sim \in Nat
    BY <1>1, Clocks, Ranges DEF TypeOK
  <2>3. finishing /\ k = done
    <3>1. ~(k < sim)
      BY <2>1, <2>2
    <3> QED BY <1>1, <1>2, <3>1 DEF SaveTrue
  <2>4. /\ HeldTicks(ring') \subseteq HeldTicks(ring) \union {k}
        /\ View(ring')[k] = machine
        /\ \A u \in HeldTicks(ring') : u # k => View(ring')[u] = View(ring)[u]
    BY <1>1, <2>1, <2>2, StoreGood
  <2>5. SnapsNear(d)'
    <3> SUFFICES ASSUME NEW u \in HeldTicks(ring'), \A t \in load : u <= t
                 PROVE  Near(View(ring')[u].pos, u + 1, d)
      BY <1>2 DEF SnapsNear
    <3>1. CASE u # k
      BY <1>1, <2>4, <3>1 DEF SnapsNear
    <3>2. CASE u = k
      <4>1. load = {}
        <5> SUFFICES ASSUME NEW t \in load PROVE FALSE
          OBVIOUS
        <5>1. sim = t + 1 /\ k <= t /\ t \in Nat
          BY <1>1, <3>2, Ranges DEF LoadTrue, TypeOK
        <5> QED BY <2>1, <2>2, <5>1
      <4>2. k = sim
        BY <1>1, <2>3, <4>1 DEF FrameTrue
      <4>3. Near(machine.pos, sim + 1, d)
        BY <1>1, <2>3, <4>1 DEF MachineNear
      <4> QED BY <2>4, <3>2, <4>2, <4>3
    <3> QED BY <3>1, <3>2
  <2> QED BY <1>3, <2>5
<1> QED BY <1>4, <1>5 DEF PollSave

LEMMA PollApplyDrift ==
    ASSUME IInv, NEW d \in Nat, Drift(d), PollApply
    PROVE  Drift(d)' \/ (AppliesUncounted /\ Drift(d + 1)')
<1>0. CASE lost'
  BY <1>0 DEF Drift
<1> SUFFICES ASSUME ~lost, ~lost'
             PROVE  Drift(d)' \/ (AppliesUncounted /\ Drift(d + 1)')
  BY <1>0 DEF PollApply, LoadFails
<1>1. /\ ResumeParked /\ MachineNear(d) /\ SnapsNear(d)
      /\ TypeOK /\ RingGood(ring) /\ Truth /\ Stages
      /\ ~live => load = {}
  BY DEF Drift, IInv, Truth
<1>2. at = "apply" /\ LeavePoll /\ ~resume
  BY <1>1 DEF PollApply, ResumeParked
<1>3. /\ finishing => at' = "parked" /\ ~finishing' /\ ~counted' /\ sim' = sim + 1
      /\ ~finishing => at' = "guest" /\ ~finishing' /\ counted' = counted /\ sim' = sim
  BY <1>2 DEF LeavePoll
<1>4. CASE ~live /\ UNCHANGED <<ring, load, machine, resume>>
  <2>1. load = {} /\ load' = {} /\ ~resume'
    BY <1>1, <1>2, <1>4
  <2>2. MachineNear(d)'
    BY <1>1, <1>2, <1>3, <1>4, <2>1 DEF MachineNear
  <2>3. ResumeParked' /\ SnapsNear(d)'
    BY <1>1, <1>4, <2>1 DEF ResumeParked, SnapsNear
  <2> QED BY <2>2, <2>3 DEF Drift
<1>5. CASE /\ \E t \in load : Has(ring, t) /\ Restore(t)
           /\ resume' = finishing
  <2>1. PICK t \in load : Has(ring, t) /\ Restore(t)
    BY <1>5
  <2>2. /\ load' = {} /\ machine'.pos \in Nat /\ sim \in Nat
        /\ Near(machine'.pos, sim, d) /\ SnapsNear(d)'
    BY <1>1, <2>1, RestoreNear, Clocks
  <2>3. ResumeParked'
    BY <1>2, <1>3, <1>5, <2>2 DEF ResumeParked
  <2>4. Near(machine'.pos + 1, sim + 1, d) /\ Near(machine'.pos + 1, sim, d + 1)
    BY <2>2, NearNext
  <2>5. CASE counted
    <3>1. MachineNear(d)'
      BY <1>2, <1>3, <1>5, <2>2, <2>4, <2>5 DEF MachineNear
    <3> QED BY <2>2, <2>3, <3>1 DEF Drift
  <2>6. CASE ~counted
    <3>1. ~finishing
      BY <1>1, <2>6 DEF Stages
    <3>2. AppliesUncounted
      BY <2>1, <2>6 DEF AppliesUncounted
    <3>3. MachineNear(d + 1)'
      BY <1>2, <1>3, <1>5, <2>2, <2>4, <2>6, <3>1 DEF MachineNear
    <3>4. SnapsNear(d + 1)'
      <4>1. RingGood(ring')
        BY <1>1, <2>1, RestoreStep DEF Within
      <4>2. d + 1 \in Nat /\ d <= d + 1
        OBVIOUS
      <4> QED BY <2>2, <4>1, <4>2, SnapsWiden
    <3> QED BY <2>3, <3>2, <3>3, <3>4 DEF Drift
  <2> QED BY <2>5, <2>6
<1> QED BY <1>4, <1>5 DEF PollApply, LoadFails

LEMMA AdmitApplyDrift ==
    ASSUME IInv, NEW d \in Nat, Drift(d), AdmitApply
    PROVE  AppliesUncounted /\ Drift(d + 1)'
<1>1. /\ at = "parked" /\ at' = "guest" /\ ~finishing /\ ~counted
      /\ UNCHANGED <<sim, finishing, counted, resume, lost>>
  BY DEF AdmitApply, IInv, Stages
<1>2. PICK t \in load : Has(ring, t) /\ Restore(t)
  BY DEF AdmitApply
<1>3. AppliesUncounted
  BY <1>1, <1>2 DEF AppliesUncounted
<1> SUFFICES ASSUME ~lost PROVE ResumeParked' /\ MachineNear(d + 1)' /\ SnapsNear(d + 1)'
  BY <1>1, <1>3 DEF Drift
<1>4. ResumeParked /\ SnapsNear(d) /\ TypeOK /\ RingGood(ring) /\ Truth
  BY DEF Drift, IInv
<1>5. ~resume
  BY <1>2, <1>4 DEF ResumeParked
<1>6. /\ load' = {} /\ machine'.pos \in Nat /\ sim \in Nat
      /\ Near(machine'.pos, sim, d) /\ SnapsNear(d)'
  BY <1>2, <1>4, RestoreNear, Clocks
<1>7. Near(machine'.pos + 1, sim, d + 1)
  BY <1>6, NearNext
<1>8. MachineNear(d + 1)'
  BY <1>1, <1>5, <1>6, <1>7 DEF MachineNear
<1>9. SnapsNear(d + 1)'
  <2>1. RingGood(ring')
    BY <1>2, <1>4, RestoreStep DEF Within
  <2>2. d + 1 \in Nat /\ d <= d + 1
    OBVIOUS
  <2> QED BY <1>6, <2>1, <2>2, SnapsWiden
<1> QED BY <1>1, <1>5, <1>8, <1>9 DEF ResumeParked

\* A step widens the drift by at most one frame, and only a realign applied
\* with no admitted tick running widens it at all.
LEMMA DriftStep ==
    ASSUME IInv, NEW d \in Nat, Drift(d), [Next]_vars
    PROVE  Drift(d)' \/ (AppliesUncounted /\ Drift(d + 1)')
<1>1. CASE RequestSnap
  <2>1. Within(ring', ring)
    BY <1>1, RequestStep DEF IInv
  <2>2. /\ finishing
        /\ UNCHANGED <<load, sim, machine, lost, finishing, resume>> /\ at = "pump"
    BY <1>1 DEF RequestSnap, IInv, Stages
  <2> QED BY <2>1, <2>2, QuietDrift
<1>2. CASE PollSnap
  BY <1>2, PollSnapDrift
<1>3. CASE AdvanceAgreed \/ HealAgreed \/ BootstrapAgreed \/ AtBound \/ UNCHANGED vars
  <2>1. UNCHANGED <<ring, load, sim, machine, lost, finishing, at, counted, resume>>
    BY <1>3 DEF AdvanceAgreed, HealAgreed, BootstrapAgreed, RaiseTo, AtBound, vars
  <2> QED BY <2>1, SameWithin, QuietDrift DEF IInv
<1>4. CASE AdmitFail \/ AdmitGiveUp
  BY <1>4 DEF AdmitFail, AdmitGiveUp, LoadFails, Drift
<1>5. CASE AdmitRetry
  BY <1>5 DEF AdmitRetry, IInv, Truth, Drift
<1> QED BY <1>1, <1>2, <1>3, <1>4, <1>5, AbortDrift, EndFrameDrift, EndUncountedDrift, AdmitDrift,
           PollSaveDrift, PollApplyDrift, AdmitApplyDrift DEF Next

LEMMA InitDrift == Init => Drift(0)
<1> SUFFICES ASSUME Init PROVE Drift(0)
  OBVIOUS
<1>1. HeldTicks(ring) = {}
  BY EmptyGood DEF Init
<1>2. MachineNear(0)
  BY DEF Init, MachineNear, Near, Nothing
<1> QED BY <1>1, <1>2 DEF Init, Drift, ResumeParked, SnapsNear

\* The timeline number never falls.
LEMMA LineGrows ==
    ASSUME TypeOK, [Next]_vars
    PROVE  line <= line'
<1>1. line \in Nat
  BY DEF TypeOK
<1>2. line' = line \/ line' = line + 1
  BY DEF Next, PeerAbort, Admit, FlushResume, EndFrame, EndUncounted, RequestSnap, PollSnap,
         PollSave, PollApply, AdmitApply, AdmitFail, AdmitRetry, AdmitGiveUp, AdvanceAgreed,
         HealAgreed, BootstrapAgreed, RaiseTo, AtBound, Replace, Restore, LoadFails, vars
<1> QED BY <1>1, <1>2
-----------------------------------------------------------------------------
(* The snapshot a realign waits for, and the one of the watermark *)

\* Until its poll, a pending realign is to the newest tick held.
LiveTop ==
    live => \A t \in load : at # "apply" => \A u \in HeldTicks(ring) : u <= t

\* What a pending realign will load is held if its tick is agreed.
AgreedLoad == live => \A t \in load : Protected(t) => t \in HeldTicks(ring)

LoadInv == LiveTop /\ AgreedLoad

\* A full ring is what netplay_snap_ring_store evicts from.
LEMMA StoreEvictsFull ==
    ASSUME NEW r, RingGood(r), NEW t \in Ticks, NEW d \in States,
           NEW u \in HeldTicks(r), u \notin HeldTicks(Store(r, t, d))
    PROVE  Cardinality(HeldTicks(r)) = Depth
<1> DEFINE q == Store(r, t, d)
           m == View(r)
<1>1. q \in RingSet(Ticks, Data) /\ Sound(q) /\ View(q) = MapStore(m, t, d)
  BY Ranges, StoreActs DEF RingGood, Data
<1>2. DOMAIN View(q) = HeldTicks(q) /\ DOMAIN m = HeldTicks(r)
  BY <1>1, ViewAt DEF Sound, RingGood
<1>3. u \in DOMAIN m /\ u \notin DOMAIN MapStore(m, t, d)
  BY <1>1, <1>2
<1> HIDE DEF q, m
<1>4. ~(Cardinality(DOMAIN m) < Depth)
  BY <1>3 DEF MapStore, MapWith
<1>5. ActsAsMap(r, Ticks, {})
  BY Ranges, SoundActsAsMap DEF RingGood
<1>6. r.count = Cardinality(HeldTicks(r)) /\ r.count \in 0 .. Depth
  BY <1>5 DEF ActsAsMap, RingGood, RingSet
<1> QED BY <1>2, <1>4, <1>6, DepthAssumption

\* tip_dense_push drops no agreed tick.
LEMMA RequestKeeps ==
    ASSUME TypeOK, RingGood(ring), RequestSnap, NEW u \in HeldTicks(ring), Protected(u)
    PROVE  u \in HeldTicks(ring')
<1>1. CASE ring' = ring
  BY <1>1
<1>2. CASE ring' = DropTick(ring, Head(fifo)) /\ ~Protected(Head(fifo))
  BY <1>2, DropTickKeeps
<1> QED BY <1>1, <1>2 DEF RequestSnap, RequestTip, RequestMedia, RequestEvery, TipDensePush

\* The poll keeps the tick a realign waits for: the save evicts the lowest tick
\* of several, and the realign is to the highest.
LEMMA PollSaveKeeps ==
    ASSUME Depth > 1, TypeOK, RingGood(ring), PollSave, NEW t \in HeldTicks(ring),
           \A u \in HeldTicks(ring) : u <= t
    PROVE  t \in HeldTicks(ring')
<1>1. CASE ring' = ring
  BY <1>1
<1>2. CASE \E k \in save : ring' = Store(ring, k, machine)
  <2>1. PICK k \in save : ring' = Store(ring, k, machine)
    BY <1>2
  <2>2. k \in Ticks /\ machine \in States
    BY DEF TypeOK
  <2> SUFFICES ASSUME t \notin HeldTicks(ring') PROVE FALSE
    OBVIOUS
  <2>3. /\ \A v \in HeldTicks(ring) : t <= v
        /\ \E v \in HeldTicks(ring) : v # t
    BY <2>1, <2>2, StoreKeeps
  <2>4. PICK v \in HeldTicks(ring) : v # t
    BY <2>3
  <2>5. v \in Nat /\ t \in Nat
    BY HeldInTicks, Ranges
  <2> QED BY <2>3, <2>4, <2>5
<1> QED BY <1>1, <1>2 DEF PollSave

LEMMA AbortLoad ==
    ASSUME IInv, NEW wire \in 1 .. MaxTick, PeerAbort(wire)
    PROVE  LoadInv'
<1>1. TypeOK /\ RingGood(ring)
  BY DEF IInv
<1>2. PICK t \in Ticks :
         t \in HeldTicks(ring) /\ load' = {t} /\ ring' = DropAfter(ring, t)
  BY <1>1, AbortStep
<1>3. /\ HeldTicks(ring') \subseteq HeldTicks(ring)
      /\ \A u \in HeldTicks(ring') : ~(u > t)
      /\ \A u \in HeldTicks(ring) : u \in HeldTicks(ring') \/ u > t
  BY <1>1, <1>2, DropAfterWithin, DropAfterKeeps DEF Within
<1>4. HeldTicks(ring) \subseteq Nat /\ t \in Nat
  BY <1>1, <1>2, HeldInTicks, Ranges
<1>5. \A u \in HeldTicks(ring') : u <= t
  BY <1>3, <1>4
<1>6. ~(t > t)
  BY <1>4
<1> QED BY <1>2, <1>3, <1>5, <1>6 DEF LoadInv, LiveTop, AgreedLoad

LEMMA LoadStep ==
    ASSUME Depth > 1, IInv, LoadInv, [Next]_vars
    PROVE  LoadInv'
<1>1. TypeOK /\ RingGood(ring) /\ LiveTop /\ AgreedLoad
  BY DEF IInv, LoadInv
<1>2. CASE Admit \/ FlushResume \/ EndFrame \/ EndUncounted \/ PollSnap
           \/ AtBound \/ UNCHANGED vars
  <2>1. /\ UNCHANGED <<ring, live, agreed>> /\ (load' = load \/ load' = {})
        /\ at' # "apply" => at # "apply"
    BY <1>2 DEF Admit, FlushResume, EndFrame, EndUncounted, PollSnap, AtBound, vars
  <2>2. at' = "apply" => at = "apply"
    BY <1>2 DEF Admit, FlushResume, EndFrame, EndUncounted, PollSnap, AtBound, vars
  <2> QED BY <1>1, <2>1, <2>2 DEF LoadInv, LiveTop, AgreedLoad, Protected
<1>3. CASE RequestSnap
  <2>1. UNCHANGED <<load, live, agreed>> /\ at = "pump"
    BY <1>3 DEF RequestSnap
  <2>2. HeldTicks(ring') \subseteq HeldTicks(ring)
    BY <1>1, <1>3, RequestStep DEF Within
  <2>3. LiveTop'
    BY <1>1, <2>1, <2>2 DEF LiveTop
  <2>4. AgreedLoad'
    <3> SUFFICES ASSUME live, NEW t \in load, Protected(t) PROVE t \in HeldTicks(ring')
      BY <2>1 DEF AgreedLoad, Protected
    <3> QED BY <1>1, <1>3, RequestKeeps DEF AgreedLoad
  <2> QED BY <2>3, <2>4 DEF LoadInv
<1>4. CASE PollSave
  <2>1. UNCHANGED <<load, live, agreed>> /\ at = "save" /\ at' = "apply"
    BY <1>4 DEF PollSave
  <2>2. AgreedLoad'
    <3> SUFFICES ASSUME live, NEW t \in load, Protected(t) PROVE t \in HeldTicks(ring')
      BY <2>1 DEF AgreedLoad, Protected
    <3>1. t \in HeldTicks(ring) /\ \A u \in HeldTicks(ring) : u <= t
      BY <1>1, <2>1 DEF AgreedLoad, LiveTop
    <3> QED BY <1>1, <1>4, <3>1, PollSaveKeeps
  <2> QED BY <2>1, <2>2 DEF LoadInv, LiveTop
<1>5. CASE PollApply
  <2>1. ~live'
    BY <1>5 DEF PollApply, Restore, Replace, LoadFails
  <2> QED BY <2>1 DEF LoadInv, LiveTop, AgreedLoad
<1>6. CASE AdmitApply \/ AdmitFail \/ AdmitRetry \/ AdmitGiveUp
  <2>1. ~live'
    BY <1>6 DEF AdmitApply, AdmitFail, AdmitRetry, AdmitGiveUp, Restore, Replace, LoadFails
  <2> QED BY <2>1 DEF LoadInv, LiveTop, AgreedLoad
<1>7. ASSUME NEW u \in HeldTicks(ring), RaiseTo(u) PROVE LoadInv'
  <2>1. /\ UNCHANGED <<ring, load, live, at>>
        /\ agreed' = [valid |-> TRUE, lo |-> u, through |-> u]
    BY <1>7 DEF RaiseTo
  <2>2. LiveTop'
    BY <1>1, <2>1 DEF LiveTop
  <2>3. AgreedLoad'
    <3> SUFFICES ASSUME NEW t \in load, u <= t, t <= u PROVE t \in HeldTicks(ring)
      BY <2>1 DEF AgreedLoad, Protected
    <3>1. t \in Nat /\ u \in Nat
      BY <1>1, HeldInTicks, Ranges DEF TypeOK
    <3> QED BY <3>1
  <2> QED BY <2>2, <2>3 DEF LoadInv
<1>8. CASE AdvanceAgreed \/ HealAgreed \/ BootstrapAgreed
  BY <1>7, <1>8 DEF AdvanceAgreed, HealAgreed, BootstrapAgreed
<1> QED BY <1>2, <1>3, <1>4, <1>5, <1>6, <1>8, AbortLoad DEF Next

\* What a step may do with the snapshot of a watermark it does not move.
WatermarkKept ==
    agreed.valid /\ agreed'.valid /\ agreed'.through = agreed.through
    /\ agreed.through \in HeldTicks(ring) =>
        \/ agreed.through \in HeldTicks(ring')
        \/ /\ PollSave
           /\ Cardinality(HeldTicks(ring)) = Depth
           /\ \A u \in HeldTicks(ring) : agreed.through <= u

\* A cut at tick t takes a watermark beyond it down to t.
LEMMA CutKeeps ==
    ASSUME TypeOK, RingGood(ring), NEW t \in HeldTicks(ring), agreed.lo <= agreed.through,
           ring' = DropAfter(ring, t), agreed' = ClampAgreed(agreed, t)
    PROVE  WatermarkKept
<1> SUFFICES ASSUME agreed.valid, agreed'.through = agreed.through,
                    agreed.through \in HeldTicks(ring)
             PROVE  agreed.through \in HeldTicks(ring')
  BY DEF WatermarkKept
<1>1. /\ t \in Ticks /\ t \in Nat /\ agreed.through \in Nat
      /\ agreed \in [valid : BOOLEAN, lo : Ticks, through : Ticks]
  BY HeldInTicks, Ranges DEF TypeOK
<1>2. (agreed'.through = t /\ agreed.through > t) \/ agreed.through <= t
  BY <1>1, ClampMark
<1>3. ~(agreed.through > t)
  BY <1>1, <1>2
<1> QED BY <1>3, DropAfterKeeps

LEMMA KeptStep ==
    ASSUME Depth > 1, IInv, MarkInv, [Next]_vars
    PROVE  WatermarkKept
<1> SUFFICES ASSUME agreed.valid PROVE WatermarkKept
  BY DEF WatermarkKept
<1>1. TypeOK /\ RingGood(ring) /\ agreed.lo <= agreed.through
  BY DEF IInv, MarkInv, Marked
<1>2. agreed.through \in Nat /\ Protected(agreed.through)
  <2>1. agreed.through \in Nat
    BY <1>1, Ranges DEF TypeOK
  <2>2. agreed.through <= agreed.through
    BY <2>1
  <2> QED BY <1>1, <2>1, <2>2 DEF Protected
<1>3. CASE ring' = ring
  BY <1>3 DEF WatermarkKept
<1>4. CASE RequestSnap
  BY <1>1, <1>2, <1>4, RequestKeeps DEF WatermarkKept
<1>5. CASE \E t \in load : Has(ring, t) /\ Restore(t)
  BY <1>1, <1>5, RestoreStep, CutKeeps DEF Restore
<1>6. CASE PollSave
  <2>1. CASE \E k \in save : ring' = Store(ring, k, machine)
    <3>1. PICK k \in save : ring' = Store(ring, k, machine)
      BY <2>1
    <3>2. k \in Ticks /\ machine \in States
      BY <1>1 DEF TypeOK
    <3>3. ASSUME agreed.through \in HeldTicks(ring), agreed.through \notin HeldTicks(ring')
          PROVE  /\ Cardinality(HeldTicks(ring)) = Depth
                 /\ \A u \in HeldTicks(ring) : agreed.through <= u
      BY <1>1, <3>1, <3>2, <3>3, StoreKeeps, StoreEvictsFull
    <3> QED BY <1>6, <3>3 DEF WatermarkKept
  <2> QED BY <1>3, <1>6, <2>1 DEF PollSave
<1>7. ASSUME NEW wire \in 1 .. MaxTick, PeerAbort(wire) PROVE WatermarkKept
  <2>1. PICK t \in Ticks : Nearest(t, wire) /\ (HonorRollback(t, wire) \/ HonorLiveAhead(t, wire))
    BY <1>7 DEF PeerAbort
  <2>2. t \in HeldTicks(ring) /\ t <= wire /\ t \in Nat /\ wire \in Nat /\ wire \in Ticks
    BY <2>1, NearestHeld, Ranges
  <2>3. CASE HonorRollback(t, wire)
    <3> DEFINE a == [valid |-> TRUE, lo |-> t, through |-> wire]
    <3>1. agreed' = ClampAgreed(a, t) /\ agreed.through > wire
      BY <2>3 DEF HonorRollback, ScheduleLiveRealign
    <3>2. a \in [valid : BOOLEAN, lo : Ticks, through : Ticks] /\ a.valid /\ a.lo <= a.through
      BY <2>2
    <3>3. agreed'.through = t \/ (agreed'.through = wire /\ wire <= t)
      BY <3>1, <3>2, ClampMark
    <3>4. agreed'.through # agreed.through
      BY <1>2, <2>2, <3>1, <3>3
    <3> QED BY <3>4 DEF WatermarkKept
  <2>4. CASE HonorLiveAhead(t, wire)
    BY <1>1, <2>2, <2>4, CutKeeps DEF HonorLiveAhead, ScheduleLiveRealign
  <2> QED BY <2>1, <2>3, <2>4
<1>8. Admit \/ FlushResume \/ EndFrame \/ EndUncounted \/ PollSnap
      \/ AdmitFail \/ AdmitRetry \/ AdmitGiveUp
      \/ AdvanceAgreed \/ HealAgreed \/ BootstrapAgreed \/ AtBound \/ UNCHANGED vars
      => ring' = ring
  BY DEF Admit, FlushResume, EndFrame, EndUncounted, PollSnap, AdmitFail, AdmitRetry,
         AdmitGiveUp, LoadFails, AdvanceAgreed, HealAgreed, BootstrapAgreed, RaiseTo,
         AtBound, vars
<1>9. CASE PollApply \/ AdmitApply
  BY <1>3, <1>5, <1>9 DEF PollApply, AdmitApply, LoadFails
<1> QED BY <1>3, <1>4, <1>6, <1>7, <1>8, <1>9 DEF Next
-----------------------------------------------------------------------------
(* The theorems *)

LEMMA InitIInv == Init => IInv
<1> SUFFICES ASSUME Init PROVE IInv
  OBVIOUS
<1>1. RingGood(ring) /\ HeldTicks(ring) = {}
  BY EmptyGood DEF Init
<1>2. TypeOK
  <2>1. ring \in Ring
    BY <1>1, Ranges DEF RingGood
  <2>2. fifo \in Seq(Ticks) /\ Len(fifo) <= Window
    BY SnapAssumption DEF Init
  <2>3. sim \in 0 .. MaxTick + 1
    BY SnapAssumption DEF Init
  <2>4. /\ machine \in States /\ past \in [Ticks -> States] /\ done \in Ticks
        /\ agreed \in [valid : BOOLEAN, lo : Ticks, through : Ticks]
    BY Ranges DEF Init
  <2>5. line \in Nat
    BY DEF Init
  <2> QED BY <2>1, <2>2, <2>3, <2>4, <2>5 DEF Init, TypeOK
<1>3. Stages
  BY DEF Init, Stages
<1>4. Truth
  BY <1>1 DEF Init, Truth, LoadTrue, SaveTrue, HeldTrue, FrameTrue, FreshTrue
<1> QED BY <1>1, <1>2, <1>3, <1>4 DEF IInv

LEMMA TruthStep ==
    ASSUME IInv, [Next]_vars
    PROVE  Truth'
<1>1. TypeOK /\ RingGood(ring) /\ Stages /\ Truth
  BY DEF IInv
<1>2. CASE Admit \/ FlushResume
  BY <1>1, <1>2, QuietTruth DEF Admit, FlushResume
<1>3. CASE EndUncounted
  BY <1>1, <1>3, QuietTruth DEF EndUncounted
<1>4. CASE PollSnap
  BY <1>1, <1>4, QuietTruth DEF PollSnap
<1>5. CASE AdvanceAgreed \/ HealAgreed \/ BootstrapAgreed
  BY <1>1, <1>5, QuietTruth DEF AdvanceAgreed, HealAgreed, BootstrapAgreed, RaiseTo
<1>6. CASE AtBound \/ UNCHANGED vars
  BY <1>1, <1>6, QuietTruth DEF AtBound, vars
<1>7. CASE AdmitFail \/ AdmitGiveUp
  BY <1>7 DEF AdmitFail, AdmitGiveUp, LoadFails, Truth
<1>8. CASE AdmitRetry
  \* Only a load that failed is still there when no realign is pending.
  BY <1>1, <1>8 DEF AdmitRetry, Truth
<1> QED BY <1>2, <1>3, <1>4, <1>5, <1>6, <1>7, <1>8, AbortTruth, EndFrameTruth, RequestTruth,
           PollSaveTruth, PollApplyTruth, AdmitApplyTruth DEF Next

\* The inductive invariant: the types, the ring a bounded map of machine
\* states, the stage flags, and what is held is true unless a load was lost.
THEOREM Invariance == Spec => []IInv
<1>1. IInv /\ [Next]_vars => IInv'
  BY TypeStep, RingStep, StagesStep, TruthStep DEF IInv
<1> QED BY <1>1, InitIInv, PTL DEF Spec

\* psx_netplay_rb.c and netplay_snap_ring.c: count and write position stay in
\* range, the dense window within its size, no tick past the last is simulated.
THEOREM TypeCorrect == Spec => []TypeOK
<1>1. IInv => TypeOK
  BY DEF IInv
<1> QED BY <1>1, Invariance, PTL

\* netplay_snap_ring.c under the rollback engine: the ring is a bounded map
\* whatever the mix of stores, drops and realigns that brought it there.
THEOREM RingIsMap == Spec => []RingActsAsMap
<1>1. IInv => RingActsAsMap
  <2> SUFFICES ASSUME IInv PROVE ActsAsMap(ring, Ticks, {machine})
    BY DEF RingActsAsMap
  <2>1. ring \in RingSet(Ticks, Data) /\ Sound(ring) /\ {machine} \in SUBSET Data
    BY DEF IInv, RingGood, TypeOK, Data
  <2> QED BY <2>1, Ranges, SoundActsAsMap
<1> QED BY <1>1, Invariance, PTL

\* realign_invalidate_evidence: with no load outstanding and none lost, every
\* snapshot held is the state the current timeline had at its tick.
THEOREM NoStaleSnapshot == Spec => []SnapsAreTrue
<1>1. IInv => SnapsAreTrue
  <2> SUFFICES ASSUME IInv, load = {}, ~lost, at \in {"parked", "guest"},
                      NEW t \in HeldTicks(ring)
               PROVE  t < sim /\ Load(ring, t) = past[t]
    BY DEF SnapsAreTrue
  <2>1. Load(ring, t) = View(ring)[t]
    BY ViewLoads DEF IInv
  <2> QED BY <2>1 DEF IInv, Truth, HeldTrue
<1> QED BY <1>1, Invariance, PTL

LEMMA MarkInvariance == ASSUME Depth > 1 PROVE Spec => [](MarkInv /\ LoadInv)
<1>1. Init => MarkInv /\ LoadInv
  <2> SUFFICES ASSUME Init PROVE MarkInv /\ LoadInv
    OBVIOUS
  <2>1. HeldTicks(ring) = {}
    BY EmptyGood DEF Init
  <2>2. MarkInv
    BY <2>1 DEF Init, MarkInv, SaveAtPoll, OneAhead, AheadFrom, AtMostOne, Marked
  <2>3. LoadInv
    BY DEF Init, LoadInv, LiveTop, AgreedLoad
  <2> QED BY <2>2, <2>3
<1>2. IInv /\ MarkInv /\ LoadInv /\ [Next]_vars => MarkInv' /\ LoadInv'
  BY MarkStep, LoadStep
<1> QED BY <1>1, <1>2, Invariance, PTL DEF Spec

\* tip_dense_push and heal_agreed_watermark_if_aged_out: with a ring of more than
\* one slot the watermark's snapshot is held, or everything held is newer, even
\* after a realign whose load was lost, and a pending realign to an agreed tick
\* will find its snapshot.  A ring of one slot would break both.
THEOREM WatermarkIsHeld == ASSUME Depth > 1 PROVE Spec => []AgreedIsHeld
<1>1. MarkInv /\ LoadInv => AgreedIsHeld
  BY HasIsHeld DEF MarkInv, Marked, LoadInv, AgreedLoad, Protected, AgreedIsHeld
<1> QED BY <1>1, MarkInvariance, PTL

\* tip_dense_push, netplay_snap_ring_store and realign_invalidate_evidence: while
\* the watermark stands still its snapshot leaves the ring in one way only, a
\* save into a full ring in which it is the lowest tick.
THEOREM WatermarkLeavesByEviction == ASSUME Depth > 1 PROVE Spec => [][WatermarkKept]_vars
<1>1. IInv /\ MarkInv /\ [Next]_vars => [WatermarkKept]_vars
  BY KeptStep
<1> QED BY <1>1, Invariance, MarkInvariance, PTL DEF Spec

\* try_apply_pending_load: a realign fails only because memory runs out while it
\* loads a snapshot that is there, or because its tick is outside the agreed span;
\* the snapshot of an agreed tick is never missing.
THEOREM LossIsUnagreed ==
    ASSUME Depth > 1
    PROVE  Spec => [][~lost /\ lost' => \A t \in load : Has(ring, t) \/ ~Protected(t)]_vars
<1>1. IInv /\ LoadInv /\ [Next]_vars =>
        [~lost /\ lost' => \A t \in load : Has(ring, t) \/ ~Protected(t)]_vars
  <2> SUFFICES ASSUME IInv, LoadInv, [Next]_vars, ~lost, lost', NEW t \in load, Protected(t)
               PROVE  Has(ring, t)
    OBVIOUS
  <2>1. PollApply \/ AdmitFail \/ AdmitGiveUp
    BY DEF Next, PeerAbort, Admit, FlushResume, EndFrame, EndUncounted, RequestSnap, PollSnap,
           PollSave, AdmitApply, AdmitRetry, AdvanceAgreed, HealAgreed, BootstrapAgreed,
           RaiseTo, AtBound, vars
  <2>2. live
    <3>1. ~live => load = {}
      BY DEF IInv, Truth
    <3> QED BY <3>1
  <2> QED BY <2>2, HasIsHeld DEF LoadInv, AgreedLoad
<1> QED BY <1>1, Invariance, MarkInvariance, PTL DEF Spec

\* psx_netplay_rb.c, "Snap is post-tick state; continue Live at tick+1": while the
\* guest runs an admitted tick with no realign outstanding and none lost, it is
\* never behind the clock, and ahead of it by at most one frame for every realign
\* applied so far.
THEOREM DriftIsBounded ==
    Spec => [](~lost /\ at = "guest" /\ counted /\ load = {} =>
                 sim <= machine.pos /\ machine.pos <= sim + line)
<1>1. Init => Drift(line)
  BY InitDrift DEF Init
<1>2. IInv /\ Drift(line) /\ [Next]_vars => Drift(line)'
  <2> SUFFICES ASSUME IInv, Drift(line), [Next]_vars PROVE Drift(line)'
    OBVIOUS
  <2>1. TypeOK' /\ RingGood(ring') /\ line \in Nat /\ line' \in Nat /\ line <= line'
    <3>1. TypeOK' /\ RingGood(ring')
      BY TypeStep, RingStep DEF IInv
    <3> QED BY <3>1, LineGrows DEF TypeOK, IInv
  <2>2. AppliesUncounted => line' = line + 1
    BY DEF AppliesUncounted, Restore, Replace
  <2>3. PICK d \in Nat : d = line
    BY <2>1
  <2>4. Drift(d)
    BY <2>3 DEF Drift, MachineNear, SnapsNear
  <2>5. Drift(d)' \/ (AppliesUncounted /\ Drift(d + 1)')
    BY <2>4, DriftStep
  <2>6. PICK e \in Nat : e = line'
    BY <2>1
  <2>7. Drift(e)'
    BY <2>1, <2>2, <2>3, <2>5, <2>6, WiderDrift
  <2> QED BY <2>6, <2>7 DEF Drift, MachineNear, SnapsNear
<1>3. IInv /\ Drift(line) => (~lost /\ at = "guest" /\ counted /\ load = {} =>
         sim <= machine.pos /\ machine.pos <= sim + line)
  BY DEF IInv, Stages, Drift, MachineNear, Near
<1> QED BY <1>1, <1>2, <1>3, Invariance, PTL DEF Spec

\* schedule_live_realign and try_apply_pending_load: the clock goes wrong in one
\* way only.  If no realign is applied while no admitted tick runs, then as long as
\* none fails to load the guest has completed exactly the frames of the ticks
\* before its own.
THEOREM DriftHasOneCause ==
    Spec /\ [][~AppliesUncounted]_vars => []ClockCountsFrames
<1>1. Init => Drift(0)
  BY InitDrift
<1>2. IInv /\ Drift(0) /\ [Next]_vars /\ [~AppliesUncounted]_vars => Drift(0)'
  <2> SUFFICES ASSUME IInv, Drift(0), [Next]_vars, [~AppliesUncounted]_vars PROVE Drift(0)'
    OBVIOUS
  <2>1. ~AppliesUncounted \/ UNCHANGED vars
    OBVIOUS
  <2>2. CASE UNCHANGED vars
    BY <2>2 DEF vars, Drift, ResumeParked, MachineNear, SnapsNear
  <2>3. CASE ~AppliesUncounted
    BY <2>3, DriftStep
  <2> QED BY <2>1, <2>2, <2>3
<1>3. IInv /\ Drift(0) => ClockCountsFrames
  <2> SUFFICES ASSUME IInv, Drift(0), ~lost, at = "guest", counted, load = {}
               PROVE  machine.pos = sim
    BY DEF ClockCountsFrames
  <2>1. Near(machine.pos, sim, 0)
    BY DEF IInv, Stages, Drift, MachineNear
  <2>2. sim \in Nat /\ machine.pos \in Nat
    BY Clocks DEF IInv
  <2> QED BY <2>1, <2>2 DEF Near
<1> QED BY <1>1, <1>2, <1>3, Invariance, PTL DEF Spec
=============================================================================
