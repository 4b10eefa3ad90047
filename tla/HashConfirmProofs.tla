------------------------- MODULE HashConfirmProofs -------------------------
(***************************************************************************)
(* What HashConfirm guarantees for every ring size, every range of ticks,  *)
(* every set of digests and whatever the network delivers.                 *)
(***************************************************************************)
EXTENDS HashConfirm, TLAPS

-----------------------------------------------------------------------------
(* Reading the rings *)

\* A tick's slot is a slot of the ring (slot_of).
LEMMA SlotInRange == \A t \in Ticks : SlotOf(t) \in Slots
  BY HashAssumption DEF SlotOf, Slots, Ticks

\* Ticks above a watermark.
LEMMA Beyond ==
    ASSUME NEW w \in Ticks
    PROVE  /\ \A t \in Ticks : ~(t >= w + 1 /\ t <= w)
           /\ w # LastTick => \E t \in Ticks : t = w + 1 /\ t > w
  BY HashAssumption DEF Ticks

\* The next tick is a tick.
LEMMA NextIsTick ==
    ASSUME TypeOK, HasNext
    PROVE  NextTick \in Ticks
  BY HashAssumption DEF TypeOK, HasNext, NextTick, Ticks

\* Two digests a tick has in the rings are a pair that heal_stale_gap scans.
LEMMA PairScanned ==
    ASSUME TypeOK, NEW t \in Ticks, t > through,
           NEW d \in LocalAt(t), NEW e \in PeerAt(t)
    PROVE  \E ep \in PairsAbove :
             ep[1].tick = t /\ ep[1].digest = d /\ ep[2].digest = e
<1>1. SlotOf(t) \in Slots
  BY SlotInRange
<1>2. PICK a \in local[SlotOf(t)] : a.tick = t /\ a.digest = d
  BY DEF LocalAt
<1>3. PICK b \in peer[SlotOf(t)] : b.tick = t /\ b.digest = e
  BY DEF PeerAt
<1>4. <<a, b>> \in local[SlotOf(t)] \X peer[SlotOf(t)]
  BY <1>2, <1>3
<1>5. <<a, b>> \in UNION {local[i] \X peer[i] : i \in Slots}
  BY <1>1, <1>4
<1>6. <<a, b>>[1] = a /\ <<a, b>>[2] = b
  OBVIOUS
<1>7. <<a, b>> \in PairsAbove
  BY <1>2, <1>3, <1>5, <1>6 DEF PairsAbove
<1> QED BY <1>2, <1>3, <1>6, <1>7

\* And the other way round: a scanned pair holds the two digests of its tick.
LEMMA PairKnown ==
    ASSUME TypeOK, NEW ep \in PairsAbove
    PROVE  /\ ep[1].tick \in Ticks /\ ep[1].tick > through
           /\ ep[1].digest \in LocalAt(ep[1].tick)
           /\ ep[2].digest \in PeerAt(ep[1].tick)
<1>1. PICK i \in Slots : ep \in local[i] \X peer[i]
  BY DEF PairsAbove
<1>2. ep[1] \in local[i] /\ ep[2] \in peer[i]
  BY <1>1
<1>3. ep[1].tick = ep[2].tick /\ ep[1].tick > through
  BY DEF PairsAbove
<1>4. ep[1] \in Entries /\ SlotOf(ep[1].tick) = i
  BY <1>2 DEF TypeOK, RingOK
<1>5. ep[1].tick \in Ticks
  BY <1>4 DEF Entries
<1>6. ep[1].digest \in LocalAt(ep[1].tick)
  BY <1>2, <1>4 DEF LocalAt
<1>7. ep[2].digest \in PeerAt(ep[1].tick)
  BY <1>2, <1>3, <1>4 DEF PeerAt
<1> QED BY <1>3, <1>5, <1>6, <1>7

\* A tick with equal digests is counted as seen side by side.
LEMMA MatchedSideBySide ==
    ASSUME TypeOK, NEW t \in Ticks, Matched(t)
    PROVE  t \in SideBySide(local, peer)
<1>1. SlotOf(t) \in Slots
  BY SlotInRange
<1>2. PICK d \in LocalAt(t) : d \in PeerAt(t)
  BY DEF Matched
<1>3. PICK a \in local[SlotOf(t)] : a.tick = t /\ a.digest = d
  BY <1>2 DEF LocalAt
<1>4. PICK b \in peer[SlotOf(t)] : b.tick = t /\ b.digest = d
  BY <1>2 DEF PeerAt
<1>5. a \in Entries /\ b \in Entries
  BY <1>1, <1>3, <1>4 DEF TypeOK, RingOK
<1>6. a = b
  BY <1>3, <1>4, <1>5 DEF Entries
<1> QED BY <1>1, <1>3, <1>4, <1>6 DEF SideBySide

\* One ring holds at most one digest of a tick, so a matched tick is not forked.
LEMMA MatchedNotForked ==
    ASSUME TypeOK, NEW t \in Ticks, Matched(t)
    PROVE  ~Forked(t)
<1>1. SlotOf(t) \in Slots
  BY SlotInRange
<1>2. \A d, e \in LocalAt(t) : d = e
  BY <1>1 DEF LocalAt, TypeOK, RingOK
<1>3. \A d, e \in PeerAt(t) : d = e
  BY <1>1 DEF PeerAt, TypeOK, RingOK
<1> QED BY <1>2, <1>3 DEF Matched, Forked

-----------------------------------------------------------------------------
(* Types *)

\* Noting a digest keeps a ring well formed.
LEMMA PutOK ==
    ASSUME NEW ring, RingOK(ring), NEW t \in Ticks, NEW d \in Digests
    PROVE  RingOK(Put(ring, t, d))
<1> DEFINE e == [tick |-> t, digest |-> d]
<1>1. SlotOf(t) \in Slots
  BY SlotInRange
<1>2. e \in Entries /\ e.tick = t
  BY DEF Entries
<1> HIDE DEF e
<1>3. Put(ring, t, d) = [ring EXCEPT ![SlotOf(t)] = {e}]
  BY DEF Put, e
<1>4. Put(ring, t, d) \in [Slots -> SUBSET Entries]
  <2>1. {e} \in SUBSET Entries
    BY <1>2
  <2>2. ring \in [Slots -> SUBSET Entries]
    BY DEF RingOK
  <2> QED BY <1>1, <1>3, <2>1, <2>2
<1>5. \A i \in Slots : Put(ring, t, d)[i] = IF i = SlotOf(t) THEN {e} ELSE ring[i]
  BY <1>3 DEF RingOK
<1> QED BY <1>2, <1>4, <1>5 DEF RingOK

\* An empty ring is well formed.
LEMMA EmptyOK == RingOK([i \in Slots |-> {}])
  BY DEF RingOK

LEMMA TypeInit == Init => TypeOK
<1> SUFFICES ASSUME Init PROVE TypeOK
  OBVIOUS
<1>1. RingOK(local) /\ RingOK(peer)
  BY EmptyOK DEF Init
<1>2. 0 \in Ticks /\ LastTick \in Ticks /\ 0 \in 0..(LastTick + 1)
  BY HashAssumption DEF Ticks
<1>3. /\ valid \in BOOLEAN /\ emitting \in BOOLEAN /\ (pc \in {"idle", "drain"} => ~emitting)
      /\ pc \in {"idle", "advance", "drain", "heal", "check"}
  BY DEF Init
<1> QED BY <1>1, <1>2, <1>3 DEF Init, TypeOK

\* Every step of the handlers and of the rollback engine keeps the types.
LEMMA TypeStep ==
    ASSUME TypeOK, [Next]_vars
    PROVE  TypeOK'
<1> USE HashAssumption
<1>1. ASSUME NEW d \in Digests, NoteLocal(d) PROVE TypeOK'
  <2>1. RingOK(local')
    BY <1>1, PutOK DEF NoteLocal, TypeOK
  <2>2. agreed' \subseteq Ticks
    BY <1>1 DEF NoteLocal, TypeOK, SideBySide
  <2> QED BY <1>1, <2>1, <2>2 DEF NoteLocal, TypeOK, RingOK, watermark, fork
<1>2. ASSUME NEW t \in Ticks, NEW d \in Digests, NotePeer(t, d) PROVE TypeOK'
  <2>1. RingOK(peer')
    BY <1>2, PutOK DEF NotePeer, TypeOK
  <2>2. agreed' \subseteq Ticks
    BY <1>2 DEF NotePeer, TypeOK, SideBySide
  <2> QED BY <1>2, <2>1, <2>2 DEF NotePeer, TypeOK, RingOK, watermark, fork
<1>3. CASE TryAdvance
  <2>1. through' \in Ticks
    BY <1>3, NextIsTick DEF TryAdvance
  <2> QED BY <1>3, <2>1 DEF TryAdvance, TypeOK, RingOK, rings, fork
<1>4. CASE TryAdvanceEnd
  BY <1>4 DEF TryAdvanceEnd, TypeOK, RingOK, rings, watermark, fork
<1>5. CASE SkipCommit
  BY <1>5 DEF SkipCommit, TypeOK, RingOK, rings, watermark, fork, Ticks
<1>6. CASE DrainEnd
  BY <1>6 DEF DrainEnd, TypeOK, RingOK, rings, watermark, fork
<1>7. ASSUME HealStaleGap
      PROVE  through' \in Ticks /\ valid' = valid /\ from' \in 0..(LastTick + 1)
  <2>1. CASE HealMoves
    <3>1. PICK ep \in PairsAbove : through' = ep[1].tick /\ from' = ep[1].tick + 1
      BY <2>1 DEF HealMoves
    <3>2. ep[1].tick \in Ticks
      BY PairKnown
    <3> QED BY <2>1, <3>1, <3>2 DEF HealMoves, Ticks
  <2>2. CASE ~Healable /\ UNCHANGED <<watermark, from>>
    BY <2>2 DEF TypeOK, watermark
  <2> QED BY <1>7, <2>1, <2>2 DEF HealStaleGap
<1>8. CASE Heal
  BY <1>7, <1>8 DEF Heal, TypeOK, RingOK, rings, fork
<1>9. CASE PumpHeal
  BY <1>7, <1>9 DEF PumpHeal, TypeOK, RingOK, rings, fork
<1>10. ASSUME Return, forkTick' \in Ticks, forkFirst' \in Ticks, forkLast' \in Ticks
       PROVE  TypeOK'
  <2>1. sim' \in Ticks
    BY <1>10 DEF Return, TypeOK, Ticks
  <2>2. Observed \subseteq [fork : Ticks, since : Ticks]
    <3>1. CASE PeekMismatch
      <4>1. NextTick \in Ticks /\ sim \in Ticks
        BY <3>1, NextIsTick DEF PeekMismatch, TypeOK
      <4> QED BY <3>1, <4>1 DEF Observed, TypeOK
    <3> QED BY <3>1 DEF Observed
  <2> QED BY <1>10, <2>1, <2>2 DEF Return, TypeOK, RingOK, rings, watermark
<1>11. CASE CheckQuiet
  BY <1>10, <1>11 DEF CheckQuiet, TypeOK, Ticks
<1>12. CASE CheckBusy
  BY <1>10, <1>12 DEF CheckBusy, TypeOK, fork
<1>13. CASE ForkSeen
  BY <1>10, <1>13, NextIsTick DEF ForkSeen, TypeOK, PeekMismatch
<1>14. CASE ForkWaits
  BY <1>10, <1>14 DEF ForkWaits, TypeOK, fork
<1>15. CASE ForkRecovery
  BY <1>10, <1>15 DEF ForkRecovery, TypeOK
<1>16. ASSUME NEW t \in 0..sim, Primed(t)
       PROVE  /\ RingOK(local') /\ RingOK(peer') /\ through' \in Ticks /\ t \in Ticks
              /\ from' \in 0..(LastTick + 1)
  <2>1. t \in Ticks
    BY DEF TypeOK, Ticks
  <2> QED BY <1>16, <2>1, EmptyOK DEF Primed, Ticks
<1>17. ASSUME NEW t \in 0..sim, PrimeAfter(t) PROVE TypeOK'
  <2>1. Primed(t) /\ sim' \in Ticks
    BY <1>17 DEF PrimeAfter
  <2> QED BY <1>16, <1>17, <2>1 DEF PrimeAfter, Primed, TypeOK, RingOK
<1>18. ASSUME NEW t \in 0..sim, AbandonTipExtend(t) PROVE TypeOK'
  BY <1>16, <1>18 DEF AbandonTipExtend, Primed, TypeOK, RingOK
<1>19. CASE Reset
  <2>1. RingOK(local') /\ RingOK(peer')
    BY <1>19, EmptyOK DEF Reset
  <2>2. 0 \in Ticks /\ LastTick \in Ticks /\ 0 \in 0..(LastTick + 1)
    BY DEF Ticks
  <2>3. valid' \in BOOLEAN /\ pc' = pc /\ emitting' = emitting
    BY <1>19 DEF Reset
  <2> QED BY <1>19, <2>1, <2>2, <2>3 DEF Reset, TypeOK
<1>20. CASE RecoveryClear
  BY <1>20 DEF RecoveryClear, TypeOK, RingOK, rings, watermark, Ticks
<1>21. CASE UNCHANGED vars
  BY <1>21 DEF vars, TypeOK, RingOK, rings, watermark, fork
<1> QED BY <1>1, <1>2, <1>3, <1>4, <1>5, <1>6, <1>8, <1>9, <1>11, <1>12, <1>13, <1>14,
           <1>15, <1>17, <1>18, <1>19, <1>20, <1>21 DEF Next

\* Type correctness of the rings, the watermark and the fork bookkeeping.
THEOREM TypeCorrect == Spec => []TypeOK
<1>1. Init => TypeOK
  BY TypeInit
<1>2. TypeOK /\ [Next]_vars => TypeOK'
  BY TypeStep
<1> QED BY <1>1, <1>2, PTL DEF Spec
-----------------------------------------------------------------------------
(* The inductive invariant *)

\* What the rings show side by side now is part of the evidence.
EvidenceKept == SideBySide(local, peer) \subseteq agreed

\* The watermark is unstuck from the heal of a handler to its return.
Settled == pc \in {"idle", "check"} => Unstuck

IInv == TypeOK /\ EvidenceKept /\ ConfirmedWereMatched /\ WatermarkMaximal /\ Settled

\* A prime or a reset: nothing is in the rings, and nothing is confirmed that
\* has to be accounted for.
Cleared ==
    /\ local' = [i \in Slots |-> {}]
    /\ peer' = [i \in Slots |-> {}]
    /\ agreed' = {}
    /\ valid' => from' = through' + 1
    /\ pc' = "idle"

\* A step of the handlers that leaves rings and watermark alone.
Calm ==
    /\ UNCHANGED <<rings, watermark, from, agreed>>
    /\ \/ pc' = pc
       \/ pc \in {"idle", "drain"} /\ pc' = "heal"
       \/ pc = "check" /\ pc' = "idle"

\* What a step may do to the rings and the watermark.
LEMMA StepKinds ==
    ASSUME [Next]_vars
    PROVE  \/ \E d \in Digests : NoteLocal(d)
           \/ \E t \in Ticks, d \in Digests : NotePeer(t, d)
           \/ TryAdvance
           \/ TryAdvanceEnd
           \/ Heal \/ PumpHeal
           \/ Cleared
           \/ Calm
<1>1. SkipCommit \/ DrainEnd \/ RecoveryClear \/ UNCHANGED vars => Calm
  BY DEF SkipCommit, DrainEnd, RecoveryClear, Calm, vars
<1>2. Return => Calm
  BY DEF Return, Calm
<1>3. CheckQuiet \/ CheckBusy \/ ForkSeen \/ ForkWaits \/ ForkRecovery => Return
  BY DEF CheckQuiet, CheckBusy, ForkSeen, ForkWaits, ForkRecovery
<1>4. ASSUME NEW t \in 0..sim, PrimeAfter(t) \/ AbandonTipExtend(t) PROVE Cleared
  BY <1>4 DEF PrimeAfter, AbandonTipExtend, Primed, Cleared
<1>5. Reset => Cleared
  BY DEF Reset, Cleared
<1> QED BY <1>1, <1>2, <1>3, <1>4, <1>5 DEF Next

\* An empty ring holds no digest.
LEMMA NothingHeld ==
    ASSUME Cleared
    PROVE  \A t \in Ticks : LocalAt(t)' = {} /\ PeerAt(t)' = {}
<1> SUFFICES ASSUME NEW t \in Ticks PROVE LocalAt(t)' = {} /\ PeerAt(t)' = {}
  OBVIOUS
<1>1. SlotOf(t) \in Slots
  BY SlotInRange
<1>2. local'[SlotOf(t)] = {} /\ peer'[SlotOf(t)] = {}
  BY <1>1 DEF Cleared
<1> QED BY <1>2 DEF LocalAt, PeerAt

LEMMA EvidenceStep ==
    ASSUME TypeOK, EvidenceKept, [Next]_vars
    PROVE  EvidenceKept'
<1>1. ASSUME NEW d \in Digests, NoteLocal(d) PROVE EvidenceKept'
  BY <1>1 DEF NoteLocal, EvidenceKept, SideBySide
<1>2. ASSUME NEW t \in Ticks, NEW d \in Digests, NotePeer(t, d) PROVE EvidenceKept'
  BY <1>2 DEF NotePeer, EvidenceKept, SideBySide
<1>3. CASE Cleared
  BY <1>3 DEF Cleared, EvidenceKept, SideBySide
<1>4. CASE UNCHANGED <<rings, agreed>>
  BY <1>4 DEF rings, EvidenceKept, SideBySide
<1>5. TryAdvance \/ TryAdvanceEnd \/ Heal \/ PumpHeal \/ Calm => UNCHANGED <<rings, agreed>>
  BY DEF TryAdvance, TryAdvanceEnd, Heal, PumpHeal, Calm
<1> QED BY <1>1, <1>2, <1>3, <1>4, <1>5, StepKinds

\* A heal that moves puts the ghost behind the watermark, so nothing it jumped
\* over has to be accounted for.
LEMMA HealPlaces ==
    ASSUME TypeOK, HealMoves
    PROVE  /\ through' \in Ticks /\ through' > through /\ from' = through' + 1
           /\ valid /\ valid' = valid
           /\ \A ep \in PairsAbove : ep[1].tick <= through'
           /\ \A ep \in PairsAbove : ep[1].digest = ep[2].digest
<1>1. PICK ep \in PairsAbove :
        /\ \A other \in PairsAbove : other[1].tick <= ep[1].tick
        /\ through' = ep[1].tick
        /\ from' = ep[1].tick + 1
  BY DEF HealMoves
<1>2. ep[1].tick \in Ticks /\ ep[1].tick > through
  BY PairKnown
<1> QED BY <1>1, <1>2 DEF HealMoves, Healable, HealAllowed

LEMMA MatchedStep ==
    ASSUME TypeOK, EvidenceKept, ConfirmedWereMatched, [Next]_vars
    PROVE  ConfirmedWereMatched'
<1> USE DEF ConfirmedWereMatched, ConfirmThrough
<1>1. ASSUME UNCHANGED <<watermark, from>>, agreed \subseteq agreed'
      PROVE  ConfirmedWereMatched'
  BY <1>1 DEF watermark
<1>2. ASSUME NEW d \in Digests, NoteLocal(d) PROVE ConfirmedWereMatched'
  BY <1>1, <1>2 DEF NoteLocal
<1>3. ASSUME NEW t \in Ticks, NEW d \in Digests, NotePeer(t, d) PROVE ConfirmedWereMatched'
  BY <1>1, <1>3 DEF NotePeer
<1>4. CASE TryAdvance
  <2>1. NextTick \in Ticks /\ NextTick \in agreed
    BY <1>4, NextIsTick, MatchedSideBySide DEF TryAdvance, EvidenceKept
  <2>2. from' = from /\ agreed' = agreed /\ through' = NextTick
    BY <1>4 DEF TryAdvance
  <2> SUFFICES ASSUME NEW t \in Ticks, t >= from, t <= NextTick PROVE t \in agreed
    BY <2>2
  <2>3. CASE t = NextTick
    BY <2>1, <2>3
  <2>4. CASE t # NextTick
    <3>1. valid /\ t <= through
      BY <2>1, <2>4, HashAssumption DEF NextTick, TypeOK, Ticks
    <3> QED BY <3>1
  <2> QED BY <2>3, <2>4
<1>5. CASE TryAdvanceEnd
  BY <1>1, <1>5 DEF TryAdvanceEnd
<1>6. CASE Heal \/ PumpHeal
  <2>1. CASE HealMoves
    <3>1. through' \in Ticks /\ from' = through' + 1
      BY <2>1, HealPlaces
    <3>2. \A t \in Ticks : ~(t >= from' /\ t <= through')
      BY <3>1, Beyond
    <3> QED BY <3>2
  <2>2. CASE ~Healable /\ UNCHANGED <<watermark, from>>
    BY <1>1, <1>6, <2>2 DEF Heal, PumpHeal
  <2> QED BY <1>6, <2>1, <2>2 DEF Heal, PumpHeal, HealStaleGap
<1>7. CASE Cleared
  <2>1. through' \in Ticks
    BY TypeStep DEF TypeOK
  <2>2. valid' => \A t \in Ticks : ~(t >= from' /\ t <= through')
    BY <1>7, <2>1, Beyond DEF Cleared
  <2> QED BY <2>2
<1>8. CASE Calm
  BY <1>1, <1>8 DEF Calm
<1> QED BY <1>2, <1>3, <1>4, <1>5, <1>6, <1>7, <1>8, StepKinds

-----------------------------------------------------------------------------
(* The watermark is as far as the rings allow *)

\* Digests do not move while the rings are kept.
LEMMA RingsKept ==
    ASSUME UNCHANGED rings
    PROVE  \A t : /\ LocalAt(t)' = LocalAt(t) /\ PeerAt(t)' = PeerAt(t)
  BY DEF rings, LocalAt, PeerAt

\* After a heal no tick above the watermark matches.
LEMMA HealTopmost ==
    ASSUME TypeOK, HealMoves, NEW t \in Ticks, t > through'
    PROVE  ~Matched(t)
<1> SUFFICES ASSUME Matched(t) PROVE FALSE
  OBVIOUS
<1>1. through' \in Ticks /\ through' > through /\ through \in Ticks
  BY HealPlaces DEF TypeOK
<1>2. t > through
  BY <1>1, HashAssumption DEF Ticks
<1>3. PICK d \in LocalAt(t) : d \in PeerAt(t)
  BY DEF Matched
<1>4. PICK ep \in PairsAbove : ep[1].tick = t
  BY <1>2, <1>3, PairScanned
<1>5. t <= through'
  BY <1>4, HealPlaces
<1> QED BY <1>1, <1>5, HashAssumption DEF Ticks

LEMMA MaximalStep ==
    ASSUME TypeOK, WatermarkMaximal, [Next]_vars
    PROVE  WatermarkMaximal'
<1>1. ASSUME NEW d \in Digests, NoteLocal(d) PROVE WatermarkMaximal'
  BY <1>1 DEF NoteLocal, WatermarkMaximal
<1>2. ASSUME NEW t \in Ticks, NEW d \in Digests, NotePeer(t, d) PROVE WatermarkMaximal'
  BY <1>2 DEF NotePeer, WatermarkMaximal
<1>3. CASE TryAdvance
  BY <1>3 DEF TryAdvance, WatermarkMaximal
<1>4. ASSUME UNCHANGED rings, UNCHANGED watermark, HasNext => ~Matched(NextTick)
      PROVE  WatermarkMaximal'
  BY <1>4 DEF rings, watermark, WatermarkMaximal, HasNext, NextTick, Matched, LocalAt, PeerAt
<1>5. CASE TryAdvanceEnd
  BY <1>4, <1>5 DEF TryAdvanceEnd
<1>6. CASE Heal \/ PumpHeal
  <2>1. UNCHANGED rings
    BY <1>6 DEF Heal, PumpHeal
  <2>2. CASE HealMoves
    <3> SUFFICES ASSUME HasNext' PROVE ~Matched(NextTick)'
      BY DEF WatermarkMaximal
    <3>1. valid' /\ through' \in Ticks
      BY <2>2, HealPlaces
    <3>2. NextTick' = through' + 1 /\ through' # LastTick
      BY <3>1 DEF NextTick, HasNext
    <3>3. PICK t \in Ticks : t = through' + 1 /\ t > through'
      BY <3>1, <3>2, Beyond
    <3>4. ~Matched(t)
      BY <2>2, <3>3, HealTopmost
    <3>5. NextTick' = t
      BY <3>2, <3>3
    <3> QED BY <2>1, <3>4, <3>5 DEF Matched, LocalAt, PeerAt, rings
  <2>3. CASE ~Healable /\ UNCHANGED <<watermark, from>>
    BY <1>4, <1>6, <2>1, <2>3 DEF Heal, PumpHeal, WatermarkMaximal
  <2> QED BY <1>6, <2>2, <2>3 DEF Heal, PumpHeal, HealStaleGap
<1>7. CASE Cleared
  <2> SUFFICES ASSUME HasNext' PROVE ~Matched(NextTick)'
    BY DEF WatermarkMaximal
  <2>1. NextTick' \in Ticks
    BY TypeStep, HashAssumption DEF TypeOK, HasNext, NextTick, Ticks
  <2>2. local'[SlotOf(NextTick')] = {}
    BY <1>7, <2>1, SlotInRange DEF Cleared
  <2> QED BY <2>2 DEF Matched, LocalAt
<1>8. CASE Calm
  BY <1>4, <1>8 DEF Calm, WatermarkMaximal
<1> QED BY <1>1, <1>2, <1>3, <1>5, <1>6, <1>7, <1>8, StepKinds

-----------------------------------------------------------------------------
(* The watermark is not stuck *)

\* If a heal finds nothing to do and the next tick is in neither ring, either a
\* fork is visible or nothing matches.
LEMMA NothingToHeal ==
    ASSUME TypeOK, ~Healable
    PROVE  Unstuck
<1> SUFFICES ASSUME valid, HasNext, LocalAt(NextTick) = {}, PeerAt(NextTick) = {},
                    \A t \in Ticks : ~(t > through /\ Forked(t)),
                    NEW u \in Ticks, u > through, Matched(u)
             PROVE  FALSE
  BY DEF Unstuck
<1>1. PICK d \in LocalAt(u) : d \in PeerAt(u)
  BY DEF Matched
<1>2. PairsAbove # {}
  BY <1>1, PairScanned
<1>3. PICK ep \in PairsAbove : ep[1].digest # ep[2].digest
  BY <1>2 DEF Healable, HealAllowed, HasNext
<1>4. ep[1].tick \in Ticks /\ ep[1].tick > through /\ Forked(ep[1].tick)
  BY <1>3, PairKnown DEF Forked
<1> QED BY <1>4

\* A step that keeps the rings and the watermark keeps it unstuck.
LEMMA UnstuckKept ==
    ASSUME Unstuck, UNCHANGED rings, UNCHANGED watermark
    PROVE  Unstuck'
<1>1. \A t \in Ticks : Matched(t)' <=> Matched(t)
  BY DEF Matched, LocalAt, PeerAt, rings
<1>2. \A t \in Ticks : Forked(t)' <=> Forked(t)
  BY DEF Forked, LocalAt, PeerAt, rings
<1>3. LocalAt(NextTick)' = LocalAt(NextTick) /\ PeerAt(NextTick)' = PeerAt(NextTick)
  BY DEF LocalAt, PeerAt, NextTick, rings, watermark
<1>4. HasNext' <=> HasNext
  BY DEF HasNext, watermark
<1> QED BY <1>1, <1>2, <1>3, <1>4 DEF Unstuck, watermark

LEMMA SettledStep ==
    ASSUME TypeOK, Settled, [Next]_vars
    PROVE  Settled'
<1>1. ASSUME NEW d \in Digests, NoteLocal(d) PROVE Settled'
  BY <1>1 DEF NoteLocal, Settled
<1>2. ASSUME NEW t \in Ticks, NEW d \in Digests, NotePeer(t, d) PROVE Settled'
  BY <1>2 DEF NotePeer, Settled
<1>3. CASE TryAdvance
  BY <1>3 DEF TryAdvance, Settled
<1>4. CASE TryAdvanceEnd
  BY <1>4 DEF TryAdvanceEnd, Settled
<1>5. CASE Heal \/ PumpHeal
  <2>1. UNCHANGED rings
    BY <1>5 DEF Heal, PumpHeal
  <2>2. CASE HealMoves
    <3>1. \A t \in Ticks : t > through' => ~Matched(t)
      BY <2>2, HealTopmost
    <3>2. \A t \in Ticks : Matched(t)' <=> Matched(t)
      BY <2>1 DEF Matched, LocalAt, PeerAt, rings
    <3> QED BY <3>1, <3>2 DEF Settled, Unstuck
  <2>3. CASE ~Healable /\ UNCHANGED <<watermark, from>>
    BY <2>1, <2>3, NothingToHeal, UnstuckKept DEF Settled
  <2> QED BY <1>5, <2>2, <2>3 DEF Heal, PumpHeal, HealStaleGap
<1>6. CASE Cleared
  <2>1. \A t \in Ticks : LocalAt(t)' = {}
    BY <1>6, NothingHeld
  <2>2. \A t \in Ticks : ~Matched(t)'
    BY <2>1 DEF Matched
  <2> QED BY <2>2 DEF Settled, Unstuck
<1>7. CASE Calm
  <2>1. pc' \in {"idle", "check"} => pc \in {"idle", "check"}
    BY <1>7 DEF Calm
  <2> QED BY <1>7, <2>1, UnstuckKept DEF Calm, Settled
<1> QED BY <1>1, <1>2, <1>3, <1>4, <1>5, <1>6, <1>7, StepKinds

-----------------------------------------------------------------------------
(* The theorems *)

LEMMA InvariantInit == Init => IInv
<1> SUFFICES ASSUME Init PROVE IInv
  OBVIOUS
<1>1. TypeOK
  BY TypeInit
<1>2. EvidenceKept
  BY DEF Init, EvidenceKept, SideBySide
<1>3. ConfirmedWereMatched
  BY DEF Init, ConfirmedWereMatched, ConfirmThrough
<1>4. \A t \in Ticks : LocalAt(t) = {}
  BY SlotInRange DEF Init, LocalAt
<1>5. WatermarkMaximal
  BY <1>1, <1>4, NextIsTick DEF WatermarkMaximal, Matched
<1>6. Settled
  BY DEF Init, Settled, Unstuck
<1> QED BY <1>1, <1>2, <1>3, <1>5, <1>6 DEF IInv

LEMMA InvariantStep == IInv /\ [Next]_vars => IInv'
  BY TypeStep, EvidenceStep, MatchedStep, MaximalStep, SettledStep DEF IInv

\* The invariant holds in every reachable state.
THEOREM Invariance == Spec => []IInv
  BY InvariantInit, InvariantStep, PTL DEF Spec

\* The watermark passes only ticks whose two digests were equal side by side
\* (try_advance), except where a prime or a heal placed it.
THEOREM MatchedOnly == Spec => []ConfirmedWereMatched
<1>1. IInv => ConfirmedWereMatched
  BY DEF IInv
<1> QED BY <1>1, Invariance, PTL

\* The watermark is as far as the rings allow, also after a heal.
THEOREM Maximal == Spec => []WatermarkMaximal
<1>1. IInv => WatermarkMaximal
  BY DEF IInv
<1> QED BY <1>1, Invariance, PTL

\* Between handlers the watermark is never stuck behind visible matches.
THEOREM NotStuck == Spec => []NeverStuckBehindMatches
<1>1. IInv => NeverStuckBehindMatches
  BY DEF IInv, Settled, NeverStuckBehindMatches
<1> QED BY <1>1, Invariance, PTL

\* Steps that move the watermark while the rings are kept: try_advance and heal.
LEMMA CrossingStep ==
    ASSUME TypeOK, [Next]_vars, valid, valid', UNCHANGED rings,
           NEW t \in Ticks, through < t, t <= through'
    PROVE  ~Forked(t)
<1>1. through \in Ticks /\ through' \in Ticks
  BY TypeStep DEF TypeOK
<1>2. through' # through
  BY <1>1, HashAssumption DEF Ticks
<1>3. ASSUME NEW d \in Digests, NoteLocal(d) PROVE FALSE
  BY <1>2, <1>3 DEF NoteLocal, watermark
<1>4. ASSUME NEW u \in Ticks, NEW d \in Digests, NotePeer(u, d) PROVE FALSE
  BY <1>2, <1>4 DEF NotePeer, watermark
<1>5. CASE TryAdvance
  <2>1. through' = through + 1 /\ Matched(through + 1)
    BY <1>5 DEF TryAdvance, NextTick
  <2>2. t = through + 1
    BY <1>1, <2>1, HashAssumption DEF Ticks
  <2> QED BY <2>1, <2>2, MatchedNotForked
<1>6. CASE TryAdvanceEnd \/ Calm
  BY <1>2, <1>6 DEF TryAdvanceEnd, Calm, watermark
<1>7. CASE Heal \/ PumpHeal
  <2>1. HealMoves
    BY <1>2, <1>7 DEF Heal, PumpHeal, HealStaleGap, watermark
  <2> SUFFICES ASSUME Forked(t) PROVE FALSE
    OBVIOUS
  <2>2. PICK d \in LocalAt(t), e \in PeerAt(t) : d # e
    BY DEF Forked
  <2>3. t > through
    BY <1>1, HashAssumption DEF Ticks
  <2>4. PICK ep \in PairsAbove : ep[1].digest = d /\ ep[2].digest = e
    BY <2>2, <2>3, PairScanned
  <2> QED BY <2>1, <2>2, <2>4, HealPlaces
<1>8. CASE Cleared
  <2>1. local = [i \in Slots |-> {}]
    BY <1>8 DEF Cleared, rings
  <2>2. local[SlotOf(t)] = {}
    BY <2>1, SlotInRange
  <2> QED BY <2>2 DEF Forked, LocalAt
<1> QED BY <1>3, <1>4, <1>5, <1>6, <1>7, <1>8, StepKinds

\* No step moves the watermark across a visible fork
\* (netplay_hc_heal_stale_gap, try_advance).
THEOREM NoForkCrossed == Spec => NeverCrossesVisibleFork
<1>1. TypeOK /\ [Next]_vars =>
        [ valid /\ valid' /\ UNCHANGED rings =>
          \A t \in Ticks : through < t /\ t <= through' => ~Forked(t) ]_vars
  BY CrossingStep
<1> QED BY <1>1, TypeCorrect, PTL DEF Spec, NeverCrossesVisibleFork

\* Steps that do not empty the rings keep every confirmation.
LEMMA ConfirmationStep ==
    ASSUME TypeOK, [Next]_vars, ~Cleared, NEW t \in Ticks, ConfirmThrough(t)
    PROVE  ConfirmThrough(t)'
<1>1. ASSUME UNCHANGED watermark PROVE ConfirmThrough(t)'
  BY <1>1 DEF watermark, ConfirmThrough
<1>2. ASSUME valid', through' \in Ticks, through' > through PROVE ConfirmThrough(t)'
  <2>1. through \in Ticks /\ t <= through
    BY DEF TypeOK, ConfirmThrough
  <2>2. t <= through'
    BY <1>2, <2>1, HashAssumption DEF Ticks
  <2> QED BY <1>2, <2>2 DEF ConfirmThrough
<1>3. ASSUME NEW d \in Digests, NoteLocal(d) PROVE UNCHANGED watermark
  BY <1>3 DEF NoteLocal
<1>4. ASSUME NEW u \in Ticks, NEW d \in Digests, NotePeer(u, d) PROVE UNCHANGED watermark
  BY <1>4 DEF NotePeer
<1>5. CASE TryAdvance
  <2>1. valid' /\ through' = through + 1 /\ through \in Ticks
    BY <1>5 DEF TryAdvance, NextTick, ConfirmThrough, TypeOK
  <2>2. through' \in Ticks
    BY TypeStep DEF TypeOK
  <2>3. through' > through
    BY <2>1, HashAssumption DEF Ticks
  <2> QED BY <1>2, <2>1, <2>2, <2>3
<1>6. CASE TryAdvanceEnd \/ Calm
  BY <1>1, <1>6 DEF TryAdvanceEnd, Calm
<1>7. CASE Heal \/ PumpHeal
  <2>1. HealMoves \/ UNCHANGED watermark
    BY <1>7 DEF Heal, PumpHeal, HealStaleGap
  <2> QED BY <1>1, <1>2, <2>1, HealPlaces
<1> QED BY <1>1, <1>3, <1>4, <1>5, <1>6, <1>7, StepKinds

\* Only a prime or a reset takes back a confirmation (netplay_hc_prime_after,
\* netplay_hc_reset).
THEOREM TakenBackByPrime == Spec => OnlyPrimeTakesBack
<1>1. Cleared => \A i \in Slots : local'[i] = {} /\ peer'[i] = {}
  BY DEF Cleared
<1>2. TypeOK /\ [Next]_vars =>
        [ \/ \A t \in Ticks : ConfirmThrough(t) => ConfirmThrough(t)'
          \/ \A i \in Slots : local'[i] = {} /\ peer'[i] = {} ]_vars
  BY <1>1, ConfirmationStep
<1> QED BY <1>2, TypeCorrect, PTL DEF Spec, OnlyPrimeTakesBack
-----------------------------------------------------------------------------
(* The recovery count *)

Emptied(ring) == \A i \in Slots : ring[i] = {}

\* After a prime or a reset one ring stays empty up to the end of the handler
\* that notes the first digest, so its look at the rings finds no fork.
Restarting ==
    \/ Emptied(local) /\ Emptied(peer)
    \/ pc # "idle" /\ emitting /\ Emptied(peer)
    \/ pc # "idle" /\ ~emitting /\ Emptied(local)

\* Otherwise the count of np_try_hc_fork_recovery is that of a fork the watermark
\* has passed, or of the fork that every look since forkFirst has found.
Counted ==
    forkTick # LastTick =>
        \/ NextTick > forkTick
        \/ /\ NextTick = forkTick
           /\ \E s \in seen : s.fork = forkTick /\ s.since <= forkFirst

Tracked == (\A s \in seen : s.since <= sim) /\ Counted

CountInv == Restarting \/ Tracked

LEMMA RestartingIsQuiet ==
    ASSUME TypeOK, Restarting
    PROVE  ~PeekMismatch
<1> SUFFICES ASSUME PeekMismatch PROVE FALSE
  OBVIOUS
<1>1. SlotOf(NextTick) \in Slots
  BY NextIsTick, SlotInRange DEF PeekMismatch
<1>2. local[SlotOf(NextTick)] # {} /\ peer[SlotOf(NextTick)] # {}
  BY DEF PeekMismatch, LocalAt, PeerAt
<1> QED BY <1>1, <1>2 DEF Restarting, Emptied

LEMMA NextTickNat ==
    ASSUME TypeOK
    PROVE  NextTick \in Nat /\ forkTick \in Nat /\ sim \in Nat
<1> USE HashAssumption
<1>1. through \in Nat /\ forkTick \in Nat /\ sim \in Nat
  BY DEF TypeOK, Ticks
<1> QED BY <1>1 DEF NextTick

\* The handlers between two looks keep an empty ring empty.
LEMMA RestartingStays ==
    ASSUME TypeOK, Restarting, [Next]_vars, ~Return
    PROVE  Restarting'
<1> USE DEF Restarting, Emptied
<1>1. ASSUME NEW d \in Digests, NoteLocal(d) PROVE Restarting'
  BY <1>1 DEF NoteLocal
<1>2. ASSUME NEW t \in Ticks, NEW d \in Digests, NotePeer(t, d) PROVE Restarting'
  <2>1. Emptied(local) /\ local' = local /\ pc' = "advance" /\ emitting' = FALSE
    BY <1>2 DEF NotePeer, TypeOK
  <2> QED BY <2>1
<1>3. ASSUME UNCHANGED <<rings, emitting>>, pc # "idle" => pc' # "idle"
      PROVE  Restarting'
  BY <1>3 DEF rings
<1>4. CASE TryAdvance \/ TryAdvanceEnd \/ SkipCommit \/ DrainEnd \/ Heal \/ PumpHeal
           \/ RecoveryClear \/ UNCHANGED vars
  <2>1. UNCHANGED <<rings, emitting>> /\ (pc # "idle" => pc' # "idle")
    BY <1>4 DEF TryAdvance, TryAdvanceEnd, SkipCommit, DrainEnd, Heal, PumpHeal,
       RecoveryClear, vars
  <2> QED BY <1>3, <2>1
<1>5. ASSUME NEW t \in 0..sim, PrimeAfter(t) \/ AbandonTipExtend(t) PROVE Restarting'
  BY <1>5 DEF PrimeAfter, AbandonTipExtend, Primed
<1>6. CASE Reset
  BY <1>6 DEF Reset
<1>7. ~(CheckQuiet \/ CheckBusy \/ ForkSeen \/ ForkWaits \/ ForkRecovery)
  BY DEF CheckQuiet, CheckBusy, ForkSeen, ForkWaits, ForkRecovery
<1> QED BY <1>1, <1>2, <1>4, <1>5, <1>6, <1>7 DEF Next

LEMMA Successors == \A m, n \in Nat : m > n => m + 1 >= n + 1
  OBVIOUS

\* A watermark that stays or rises keeps the count tracked.
LEMMA TrackedRises ==
    ASSUME TypeOK, Tracked, UNCHANGED <<seen, forkTick, forkFirst>>,
           sim' \in Nat, sim' >= sim, NextTick' \in Nat, NextTick' >= NextTick
    PROVE  Tracked'
<1>1. NextTick \in Nat /\ forkTick \in Nat /\ sim \in Nat
  BY NextTickNat
<1>2. \A s \in seen : s.since <= sim'
  <2> TAKE s \in seen
  <2>1. s.since \in Nat /\ s.since <= sim
    BY HashAssumption DEF Tracked, TypeOK, Ticks
  <2> QED BY <1>1, <2>1
<1>3. NextTick > forkTick => NextTick' > forkTick
  BY <1>1
<1>4. NextTick = forkTick => NextTick' > forkTick \/ NextTick' = forkTick
  BY <1>1
<1>5. Counted'
  BY <1>3, <1>4 DEF Tracked, Counted
<1> QED BY <1>2, <1>5 DEF Tracked

\* The steps between two looks never lower the watermark, unless they empty the
\* rings.
LEMMA TrackedStays ==
    ASSUME TypeOK, Tracked, [Next]_vars, ~Return
    PROVE  CountInv'
<1> USE HashAssumption
<1>t. /\ NextTick \in Nat /\ forkTick \in Nat /\ sim \in Nat /\ sim' \in Nat
      /\ NextTick' \in Nat
  <2>1. sim' \in Nat /\ through' \in Nat
    BY TypeStep DEF TypeOK, Ticks
  <2>2. NextTick' = through' + 1 \/ NextTick' = 0
    BY DEF NextTick
  <2>3. NextTick' \in Nat
    BY <2>1, <2>2
  <2> QED BY <2>1, <2>3, NextTickNat
<1>0. ASSUME UNCHANGED <<watermark, seen, forkTick, forkFirst>>, sim' >= sim
      PROVE  CountInv'
  <2>1. NextTick' = NextTick
    BY <1>0 DEF NextTick, watermark
  <2>2. NextTick' >= NextTick
    BY <1>t, <2>1
  <2> QED BY <1>0, <1>t, <2>2, TrackedRises DEF CountInv
<1>1. sim >= sim
  BY <1>t
<1>2. CASE \/ \E d \in Digests : NoteLocal(d)
           \/ \E t \in Ticks, d \in Digests : NotePeer(t, d)
           \/ TryAdvanceEnd \/ DrainEnd \/ UNCHANGED vars
  <2>1. UNCHANGED <<watermark, seen, forkTick, forkFirst, sim>>
    BY <1>2 DEF NoteLocal, NotePeer, TryAdvanceEnd, DrainEnd, vars, fork
  <2> QED BY <1>0, <1>1, <2>1
<1>3. CASE SkipCommit
  <2>1. UNCHANGED <<watermark, seen, forkTick, forkFirst>> /\ sim' = sim + 1
    BY <1>3 DEF SkipCommit, fork
  <2>2. sim' >= sim
    BY <1>t, <2>1
  <2> QED BY <1>0, <2>1, <2>2
<1>4. CASE TryAdvance
  <2>1. UNCHANGED <<seen, forkTick, forkFirst, sim>> /\ through' = NextTick /\ valid' = TRUE
    BY <1>4 DEF TryAdvance, fork
  <2>2. NextTick' = NextTick + 1
    BY <2>1 DEF NextTick
  <2>3. NextTick' >= NextTick
    BY <1>t, <2>2
  <2> QED BY <1>1, <1>t, <2>1, <2>3, TrackedRises DEF CountInv
<1>5. CASE Heal \/ PumpHeal
  <2>1. UNCHANGED <<seen, forkTick, forkFirst, sim>> /\ HealStaleGap
    BY <1>5 DEF Heal, PumpHeal, fork
  <2>2. CASE HealMoves
    <3>1. valid /\ valid'
      BY <2>2, HealPlaces
    <3>2. NextTick' = through' + 1 /\ NextTick = through + 1
      BY <3>1 DEF NextTick
    <3>3. through' + 1 >= through + 1
      <4>1. through \in Nat /\ through' \in Nat /\ through' > through
        BY <2>2, HealPlaces DEF TypeOK, Ticks
      <4> QED BY <4>1, Successors
    <3>4. NextTick' >= NextTick
      BY <3>2, <3>3
    <3> QED BY <1>1, <1>t, <2>1, <3>4, TrackedRises DEF CountInv
  <2>3. CASE UNCHANGED <<watermark, from>>
    BY <1>0, <1>1, <2>1, <2>3
  <2> QED BY <2>1, <2>2, <2>3 DEF HealStaleGap
<1>6. ASSUME NEW t \in 0..sim, PrimeAfter(t) \/ AbandonTipExtend(t) PROVE CountInv'
  BY <1>6 DEF PrimeAfter, AbandonTipExtend, Primed, CountInv, Restarting, Emptied
<1>7. CASE Reset
  BY <1>7 DEF Reset, CountInv, Restarting, Emptied
<1>8. CASE RecoveryClear
  <2>1. /\ forkTick' = LastTick /\ UNCHANGED <<seen, sim>>
    BY <1>8 DEF RecoveryClear
  <2> QED BY <2>1 DEF CountInv, Tracked, Counted
<1>9. ~(CheckQuiet \/ CheckBusy \/ ForkSeen \/ ForkWaits \/ ForkRecovery)
  BY DEF CheckQuiet, CheckBusy, ForkSeen, ForkWaits, ForkRecovery
<1> QED BY <1>2, <1>3, <1>4, <1>5, <1>6, <1>7, <1>8, <1>9 DEF Next

\* A look that finds a fork keeps what was seen of it, or starts a new count.
LEMMA LookKeeps ==
    ASSUME TypeOK, Tracked, Return, PeekMismatch
    PROVE  /\ \A s \in seen' : s.since <= sim'
           /\ \E s \in seen' : s.fork = NextTick /\ s.since <= sim
           /\ NextTick' = NextTick
           /\ \A s \in seen : s.fork = NextTick => s \in seen'
<1> USE HashAssumption
<1>1. sim \in Nat /\ sim' \in Nat /\ sim' >= sim
  BY DEF Return, TypeOK, Ticks
<1>2. NextTick' = NextTick
  BY DEF Return, watermark, NextTick
<1>3. \A s \in seen : s.since \in Nat /\ s.since <= sim /\ s.since <= sim'
  <2> TAKE s \in seen
  <2>1. s.since \in Nat /\ s.since <= sim
    BY DEF Tracked, TypeOK, Ticks
  <2> QED BY <1>1, <2>1
<1>4. CASE \E s \in seen : s.fork = NextTick
  <2>1. seen' = seen
    BY <1>4 DEF Return, Observed
  <2> QED BY <1>2, <1>3, <1>4, <2>1
<1>5. CASE ~\E s \in seen : s.fork = NextTick
  <2> DEFINE new == [fork |-> NextTick, since |-> sim]
  <2>1. seen' = {new}
    BY <1>5 DEF Return, Observed
  <2>2. new.fork = NextTick /\ new.since = sim
    OBVIOUS
  <2> HIDE DEF new
  <2>3. new.since <= sim /\ new.since <= sim'
    BY <1>1, <2>2
  <2> QED BY <1>2, <1>5, <2>1, <2>2, <2>3
<1> QED BY <1>4, <1>5

LEMMA CountStep ==
    ASSUME TypeOK, CountInv, [Next]_vars
    PROVE  CountInv'
<1>1. CASE ~Return
  BY <1>1, RestartingStays, TrackedStays DEF CountInv
<1>2. CASE Return /\ ~PeekMismatch
  <2>1. CASE UNCHANGED vars
    BY <1>2, <2>1 DEF Return, vars
  <2>2. seen' = {}
    BY <1>2 DEF Return, Observed
  <2>3. pc = "check"
    BY <1>2 DEF Return
  <2>4. CASE CheckQuiet
    <3>1. forkTick' = LastTick
      BY <2>4 DEF CheckQuiet
    <3> QED BY <2>2, <3>1 DEF CountInv, Tracked, Counted
  <2>5. pc' = "idle"
    BY <1>2 DEF Return
  <2>6. ~(CheckBusy \/ ForkSeen \/ ForkWaits \/ ForkRecovery)
    BY <1>2 DEF CheckBusy, ForkSeen, ForkWaits, ForkRecovery
  <2> QED BY <2>1, <2>3, <2>4, <2>5, <2>6
          DEF Next, NoteLocal, NotePeer, TryAdvance, TryAdvanceEnd, SkipCommit, DrainEnd, Heal,
              PumpHeal, PrimeAfter, AbandonTipExtend, Primed, Reset, RecoveryClear
<1>3. CASE Return /\ PeekMismatch
  <2>0. Tracked
    BY <1>3, RestartingIsQuiet DEF CountInv
  <2>1. /\ \A s \in seen' : s.since <= sim'
        /\ \E s \in seen' : s.fork = NextTick /\ s.since <= sim
        /\ NextTick' = NextTick
        /\ \A s \in seen : s.fork = NextTick => s \in seen'
    BY <1>3, <2>0, LookKeeps
  <2>2. CASE UNCHANGED fork
    <3>1. Counted'
      BY <2>0, <2>1, <2>2 DEF Tracked, Counted, fork
    <3> QED BY <2>1, <3>1 DEF CountInv, Tracked
  <2>3. CASE ForkSeen
    <3>1. forkTick' = NextTick /\ forkFirst' = sim
      BY <2>3 DEF ForkSeen
    <3>2. Counted'
      BY <2>1, <3>1 DEF Counted
    <3> QED BY <2>1, <3>2 DEF CountInv, Tracked
  <2>4. CASE ForkRecovery
    <3>1. UNCHANGED <<forkTick, forkFirst>>
      BY <2>4 DEF ForkRecovery
    <3>2. Counted'
      BY <2>0, <2>1, <3>1 DEF Tracked, Counted
    <3> QED BY <2>1, <3>2 DEF CountInv, Tracked
  <2>5. pc = "check" /\ pc' = "idle" /\ ~CheckQuiet
    BY <1>3 DEF Return, CheckQuiet
  <2>6. CheckBusy \/ ForkWaits => UNCHANGED fork
    BY DEF CheckBusy, ForkWaits
  <2>7. CASE UNCHANGED vars
    BY <2>5, <2>7 DEF vars
  <2> QED BY <2>2, <2>3, <2>4, <2>5, <2>6, <2>7
          DEF Next, NoteLocal, NotePeer, TryAdvance, TryAdvanceEnd, SkipCommit, DrainEnd, Heal,
              PumpHeal, PrimeAfter, AbandonTipExtend, Primed, Reset, RecoveryClear
<1> QED BY <1>1, <1>2, <1>3

\* A recovery opens for a fork that every look has found for long enough.
LEMMA RecoveryStep ==
    ASSUME TypeOK, CountInv, ForkRecovery, NextTick # LastTick
    PROVE  \E s \in seen : s.fork = NextTick /\ sim - s.since >= PersistTicks
<1>1. Tracked
  BY RestartingIsQuiet DEF CountInv, ForkRecovery
<1>2. NextTick = forkTick /\ NextTick \in Nat
  BY NextTickNat DEF ForkRecovery
<1>3. ~(NextTick > forkTick)
  BY <1>2
<1>4. PICK s \in seen : s.fork = forkTick /\ s.since <= forkFirst
  BY <1>1, <1>2, <1>3 DEF Tracked, Counted
<1>5. s.since \in Nat /\ forkFirst \in Nat /\ sim \in Nat /\ PersistTicks \in Nat
  BY <1>4, HashAssumption DEF TypeOK, Ticks
<1>6. sim - forkFirst >= PersistTicks
  BY DEF ForkRecovery, Persisted
<1>7. sim - s.since >= PersistTicks
  BY <1>4, <1>5, <1>6
<1> QED BY <1>2, <1>4, <1>7

\* np_try_hc_fork_recovery opens an episode only for a fork that stood at the
\* same tick for PersistTicks ticks, whatever primes, resets and rewinds of the
\* session's clock came before.
THEOREM RecoveryNeedsPersistence == Spec => RecoveryOfPersistentFork
<1>1. Init => CountInv
  BY DEF Init, CountInv, Restarting, Emptied
<1>2. TypeOK /\ CountInv /\ [Next]_vars => CountInv'
  BY CountStep
<1>3. TypeOK /\ CountInv /\ [Next]_vars =>
        [ ForkRecovery /\ NextTick # LastTick =>
          \E s \in seen : s.fork = NextTick /\ sim - s.since >= PersistTicks ]_vars
  BY RecoveryStep
<1> QED BY <1>1, <1>2, <1>3, TypeCorrect, PTL DEF Spec, RecoveryOfPersistentFork
=============================================================================
