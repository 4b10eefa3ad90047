--------------------------- MODULE SnapRingProofs ---------------------------
(***************************************************************************)
(* For a ring of any depth, any set of ticks and any snapshots: a ring     *)
(* that holds no tick twice and whose count is the number of its occupied  *)
(* slots stays so under every operation, and every operation acts on it as *)
(* the operation of the same name on a bounded map.                        *)
(***************************************************************************)
EXTENDS SnapRing, FunctionTheorems, FiniteSetTheorems, WellFoundedInduction, TLAPS

RingSet(T, D) ==
    [slots : [Slots -> [valid : BOOLEAN, tick : T, data : D]],
     count : 0 .. Depth, head : Slots]

Unique(r) ==
    \A i, j \in Occupied(r) : r.slots[i].tick = r.slots[j].tick => i = j

Sound(r) == Unique(r) /\ r.count = Cardinality(Occupied(r))
-----------------------------------------------------------------------------
(* Numbers and sets *)

\* A nonempty set of ticks has a lowest one.
LEMMA Least ==
    ASSUME NEW S \in SUBSET Nat, S # {}
    PROVE  \E m \in S : \A n \in S : m <= n
<1> DEFINE R == OpToRel(<, Nat)
<1>1. IsWellFoundedOn(R, Nat)
  BY NatLessThanWellFounded
<1>2. PICK m \in S : \A n \in S : <<n, m>> \notin R
  <2> HIDE DEF R
  <2> QED BY <1>1, WFMin
<1>3. ASSUME NEW n \in S PROVE m <= n
  <2>1. n \in Nat /\ m \in Nat /\ ~(n < m)
    BY <1>2, <1>3 DEF OpToRel
  <2> QED BY <2>1
<1> QED BY <1>2, <1>3

\* The slots are finitely many, and so are those in use.
LEMMA SlotCount ==
    /\ IsFiniteSet(Slots)
    /\ Cardinality(Slots) = Depth
    /\ \A S \in SUBSET Slots :
          /\ IsFiniteSet(S)
          /\ Cardinality(S) \in 0 .. Depth
          /\ Cardinality(S) = Depth => S = Slots
<1>1. IsFiniteSet(Slots) /\ Cardinality(Slots) = Depth
  BY FS_Interval, DepthAssumption DEF Slots
<1>2. ASSUME NEW S \in SUBSET Slots
      PROVE  /\ IsFiniteSet(S)
             /\ Cardinality(S) \in 0 .. Depth
             /\ Cardinality(S) = Depth => S = Slots
  <2>1. /\ IsFiniteSet(S)
        /\ Cardinality(S) <= Depth
        /\ Cardinality(S) = Depth => S = Slots
    BY <1>1, FS_Subset
  <2>2. Cardinality(S) \in Nat
    BY <2>1, FS_CardinalityType
  <2> QED BY <2>1, <2>2, DepthAssumption
<1> QED BY <1>1, <1>2

-----------------------------------------------------------------------------
(* Finding *)

\* A tick is found exactly where it is held.
LEMMA Found ==
    ASSUME NEW r, Unique(r), NEW i \in Occupied(r)
    PROVE  /\ SlotsOf(r, r.slots[i].tick) = {i}
           /\ FindSlot(r, r.slots[i].tick) = i
           /\ Load(r, r.slots[i].tick) = r.slots[i].data
<1>1. SlotsOf(r, r.slots[i].tick) = {i}
  BY DEF SlotsOf, Unique
<1>2. FindSlot(r, r.slots[i].tick) = i
  <2>1. i <= i
    BY DepthAssumption DEF Occupied, Slots
  <2> QED BY <1>1, <2>1 DEF FindSlot
<1> QED BY <1>1, <1>2 DEF Load

LEMMA HasIsHeld ==
    ASSUME NEW r, NEW t
    PROVE  Has(r, t) <=> t \in HeldTicks(r)
BY DEF Has, SlotsOf, HeldTicks

LEMMA HeldAt ==
    ASSUME NEW r, Unique(r), NEW t, Has(r, t)
    PROVE  /\ FindSlot(r, t) \in Occupied(r)
           /\ r.slots[FindSlot(r, t)].tick = t
           /\ Load(r, t) = r.slots[FindSlot(r, t)].data
<1>1. PICK i \in Occupied(r) : r.slots[i].tick = t
  BY DEF Has, SlotsOf
<1> QED BY <1>1, Found

\* As many ticks are held as slots are occupied.
LEMMA HeldCount ==
    ASSUME NEW r, Unique(r)
    PROVE  Cardinality(HeldTicks(r)) = Cardinality(Occupied(r))
<1> DEFINE f == [i \in Occupied(r) |-> r.slots[i].tick]
<1>1. f \in Bijection(Occupied(r), HeldTicks(r))
  BY DEF Unique, HeldTicks, Bijection, Injection, Surjection, IsInjective
<1>2. ExistsBijection(Occupied(r), HeldTicks(r))
  BY <1>1 DEF ExistsBijection
<1>3. IsFiniteSet(Occupied(r))
  <2>1. Occupied(r) \in SUBSET Slots
    BY DEF Occupied
  <2> QED BY <2>1, SlotCount
<1> QED BY <1>2, <1>3, FS_Bijection

\* What the callers see, slot by slot.
LEMMA ViewIs ==
    ASSUME NEW r, Unique(r), NEW m,
           m = [u \in DOMAIN m |-> m[u]],
           DOMAIN m = HeldTicks(r),
           \A i \in Occupied(r) : m[r.slots[i].tick] = r.slots[i].data
    PROVE  View(r) = m
<1>1. ASSUME NEW t \in HeldTicks(r) PROVE Load(r, t) = m[t]
  <2>1. PICK i \in Occupied(r) : t = r.slots[i].tick
    BY DEF HeldTicks
  <2> QED BY <2>1, Found
<1> QED BY <1>1 DEF View

LEMMA ViewAt ==
    ASSUME NEW r, Unique(r)
    PROVE  /\ View(r) = [t \in HeldTicks(r) |-> View(r)[t]]
           /\ DOMAIN View(r) = HeldTicks(r)
           /\ \A i \in Occupied(r) : View(r)[r.slots[i].tick] = r.slots[i].data
<1>1. ASSUME NEW i \in Occupied(r)
      PROVE  View(r)[r.slots[i].tick] = r.slots[i].data
  <2>1. r.slots[i].tick \in HeldTicks(r)
    BY DEF HeldTicks
  <2> QED BY <2>1, Found DEF View
<1> QED BY <1>1 DEF View
-----------------------------------------------------------------------------
(* Filling a slot *)

\* Slot i takes a tick no other slot holds.
LEMMA FillSlots ==
    ASSUME NEW T, NEW D, NEW r \in RingSet(T, D), Unique(r),
           NEW i \in Slots, NEW t \in T, NEW d \in D,
           \A j \in Occupied(r) : j # i => r.slots[j].tick # t,
           NEW q, q.slots = Filled(r, i, t, d)
    PROVE  /\ q.slots \in [Slots -> [valid : BOOLEAN, tick : T, data : D]]
           /\ Occupied(q) = Occupied(r) \union {i}
           /\ q.slots[i].tick = t /\ q.slots[i].data = d
           /\ \A j \in Slots : j # i => q.slots[j] = r.slots[j]
           /\ Unique(q)
<1>1. r.slots \in [Slots -> [valid : BOOLEAN, tick : T, data : D]]
  BY DEF RingSet
<1>2. /\ q.slots[i] = [valid |-> TRUE, tick |-> t, data |-> d]
      /\ \A j \in Slots : j # i => q.slots[j] = r.slots[j]
  BY <1>1 DEF Filled
<1>3. q.slots \in [Slots -> [valid : BOOLEAN, tick : T, data : D]]
  BY <1>1 DEF Filled
<1>4. Occupied(q) = Occupied(r) \union {i}
  BY <1>2 DEF Occupied
<1>5. Unique(q)
  <2> SUFFICES ASSUME NEW a \in Occupied(q), NEW b \in Occupied(q),
                      q.slots[a].tick = q.slots[b].tick
               PROVE  a = b
    BY DEF Unique
  <2>1. a \in Slots /\ b \in Slots
    BY DEF Occupied
  <2> QED BY <1>2, <1>4, <2>1 DEF Unique
<1> QED BY <1>2, <1>3, <1>4, <1>5

\* An unused slot, or the slot of the same tick: the map gains the tick.
LEMMA FillAdds ==
    ASSUME NEW T, NEW D, NEW r \in RingSet(T, D), Unique(r),
           NEW i \in Slots, NEW t \in T, NEW d \in D,
           \A j \in Occupied(r) : j # i => r.slots[j].tick # t,
           i \in Occupied(r) => r.slots[i].tick = t,
           NEW q, q.slots = Filled(r, i, t, d)
    PROVE  View(q) = MapWith(View(r), t, d)
<1> DEFINE m == MapWith(View(r), t, d)
<1>1. /\ Occupied(q) = Occupied(r) \union {i}
      /\ q.slots[i].tick = t /\ q.slots[i].data = d
      /\ \A j \in Slots : j # i => q.slots[j] = r.slots[j]
      /\ Unique(q)
  BY FillSlots
<1>2. /\ DOMAIN View(r) = HeldTicks(r)
      /\ \A j \in Occupied(r) : View(r)[r.slots[j].tick] = r.slots[j].data
  BY ViewAt
<1>3. DOMAIN m = HeldTicks(r) \union {t}
  BY <1>2 DEF MapWith
<1>4. HeldTicks(q) = HeldTicks(r) \union {t}
  <2>1. ASSUME NEW j \in Occupied(q) PROVE q.slots[j].tick \in HeldTicks(r) \union {t}
    BY <1>1, <2>1 DEF HeldTicks, Occupied
  <2>2. ASSUME NEW j \in Occupied(r) PROVE r.slots[j].tick \in HeldTicks(q)
    <3>1. CASE j = i
      BY <1>1, <3>1 DEF HeldTicks
    <3>2. CASE j # i
      BY <1>1, <3>2 DEF HeldTicks, Occupied
    <3> QED BY <3>1, <3>2
  <2>3. t \in HeldTicks(q)
    BY <1>1 DEF HeldTicks
  <2> QED BY <2>1, <2>2, <2>3 DEF HeldTicks
<1>5. ASSUME NEW j \in Occupied(q) PROVE m[q.slots[j].tick] = q.slots[j].data
  <2>1. CASE j = i
    BY <1>1, <2>1 DEF MapWith
  <2>2. CASE j # i
    <3>1. j \in Occupied(r) /\ q.slots[j] = r.slots[j] /\ r.slots[j].tick # t
      BY <1>1, <2>2 DEF Occupied
    <3>2. r.slots[j].tick \in HeldTicks(r)
      BY <3>1 DEF HeldTicks
    <3> QED BY <1>2, <3>1, <3>2 DEF MapWith
  <2> QED BY <2>1, <2>2
<1>6. m = [u \in DOMAIN m |-> m[u]]
  BY DEF MapWith
<1>7. DOMAIN m = HeldTicks(q)
  BY <1>3, <1>4
<1>8. Unique(q)
  BY <1>1
<1> HIDE DEF m
<1>9. View(q) = m
  BY <1>5, <1>6, <1>7, <1>8, ViewIs
<1> QED BY <1>9 DEF m

\* The slot of another tick: the map loses that tick and gains the new one.
LEMMA FillReplaces ==
    ASSUME NEW T, NEW D, NEW r \in RingSet(T, D), Unique(r),
           NEW i \in Occupied(r), NEW t \in T, NEW d \in D, ~Has(r, t),
           NEW q, q.slots = Filled(r, i, t, d)
    PROVE  View(q) = MapWith(MapWithout(View(r), {r.slots[i].tick}), t, d)
<1> DEFINE v == r.slots[i].tick
           w == MapWithout(View(r), {v})
           m == MapWith(w, t, d)
<1>0. i \in Slots /\ \A j \in Occupied(r) : r.slots[j].tick # t
  BY DEF Has, SlotsOf, Occupied
<1>1. /\ Occupied(q) = Occupied(r)
      /\ q.slots[i].tick = t /\ q.slots[i].data = d
      /\ \A j \in Slots : j # i => q.slots[j] = r.slots[j]
      /\ Unique(q)
  <2>1. /\ Occupied(q) = Occupied(r) \union {i}
        /\ q.slots[i].tick = t /\ q.slots[i].data = d
        /\ \A j \in Slots : j # i => q.slots[j] = r.slots[j]
        /\ Unique(q)
    BY <1>0, FillSlots
  <2> QED BY <2>1
<1>2. /\ DOMAIN View(r) = HeldTicks(r)
      /\ \A j \in Occupied(r) : View(r)[r.slots[j].tick] = r.slots[j].data
  BY ViewAt
<1>3. DOMAIN w = HeldTicks(r) \ {v} /\ DOMAIN m = (HeldTicks(r) \ {v}) \union {t}
  BY <1>2 DEF MapWith, MapWithout
<1>4. \A j \in Occupied(r) : j # i => r.slots[j].tick # v
  BY DEF Unique
<1>5. HeldTicks(q) = (HeldTicks(r) \ {v}) \union {t}
  <2>1. ASSUME NEW j \in Occupied(q) PROVE q.slots[j].tick \in (HeldTicks(r) \ {v}) \union {t}
    BY <1>1, <1>4, <2>1 DEF HeldTicks, Occupied
  <2>2. ASSUME NEW j \in Occupied(r), r.slots[j].tick # v PROVE r.slots[j].tick \in HeldTicks(q)
    BY <1>1, <2>2 DEF HeldTicks, Occupied
  <2>3. t \in HeldTicks(q)
    BY <1>1 DEF HeldTicks
  <2> QED BY <2>1, <2>2, <2>3 DEF HeldTicks
<1>6. ASSUME NEW j \in Occupied(q) PROVE m[q.slots[j].tick] = q.slots[j].data
  <2>1. CASE j = i
    BY <1>1, <2>1 DEF MapWith
  <2>2. CASE j # i
    <3>1. /\ j \in Occupied(r) /\ q.slots[j] = r.slots[j]
          /\ r.slots[j].tick # t /\ r.slots[j].tick # v
      BY <1>0, <1>1, <1>4, <2>2 DEF Occupied
    <3>2. r.slots[j].tick \in HeldTicks(r) \ {v}
      BY <3>1 DEF HeldTicks
    <3>3. w[r.slots[j].tick] = r.slots[j].data
      BY <1>2, <3>1, <3>2 DEF MapWithout
    <3> QED BY <1>3, <3>1, <3>2, <3>3 DEF MapWith
  <2> QED BY <2>1, <2>2
<1>7. m = [u \in DOMAIN m |-> m[u]]
  BY DEF MapWith
<1>8. DOMAIN m = HeldTicks(q)
  BY <1>3, <1>5
<1>9. Unique(q)
  BY <1>1
<1> HIDE DEF m
<1>10. View(q) = m
  BY <1>6, <1>7, <1>8, <1>9, ViewIs
<1> QED BY <1>10 DEF m, w, v
-----------------------------------------------------------------------------
(* Clearing slots *)

LEMMA ClearActs ==
    ASSUME NEW T, NEW D, 0 \in T, Null \in D,
           NEW r \in RingSet(T, D), Sound(r), NEW S \in SUBSET Occupied(r)
    PROVE  /\ Cleared(r, S) \in RingSet(T, D)
           /\ Sound(Cleared(r, S))
           /\ Occupied(Cleared(r, S)) = Occupied(r) \ S
           /\ \A i \in Slots \ S : Cleared(r, S).slots[i] = r.slots[i]
           /\ View(Cleared(r, S)) = MapWithout(View(r), {r.slots[i].tick : i \in S})
<1> DEFINE q == Cleared(r, S)
           gone == {r.slots[i].tick : i \in S}
           m == MapWithout(View(r), gone)
<1>1. /\ r.slots \in [Slots -> [valid : BOOLEAN, tick : T, data : D]]
      /\ r.count \in 0 .. Depth /\ r.head \in Slots
      /\ r = [slots |-> r.slots, count |-> r.count, head |-> r.head]
  BY DEF RingSet
<1>2. /\ q.slots = [i \in Slots |-> IF i \in S THEN EmptySlot ELSE r.slots[i]]
      /\ q.count = r.count - Cardinality(S)
      /\ q.head = r.head
      /\ q = [slots |-> q.slots, count |-> q.count, head |-> q.head]
  BY <1>1 DEF Cleared
<1> HIDE DEF q
<1>3. Occupied(q) = Occupied(r) \ S /\ \A i \in Slots \ S : q.slots[i] = r.slots[i]
  BY <1>2 DEF Occupied, EmptySlot
<1>4. EmptySlot \in [valid : BOOLEAN, tick : T, data : D]
  BY DEF EmptySlot
<1>5. q.slots \in [Slots -> [valid : BOOLEAN, tick : T, data : D]]
  BY <1>1, <1>2, <1>4
<1>6. q.count = Cardinality(Occupied(q)) /\ q.count \in 0 .. Depth
  <2>1. Occupied(r) \in SUBSET Slots /\ Occupied(q) \in SUBSET Slots
    BY <1>3 DEF Occupied
  <2>2. IsFiniteSet(Occupied(r)) /\ Cardinality(Occupied(q)) \in 0 .. Depth
    BY <2>1, SlotCount
  <2>3. Cardinality(Occupied(r) \ S) = Cardinality(Occupied(r)) - Cardinality(Occupied(r) \cap S)
    BY <2>2, FS_Difference
  <2>4. Occupied(r) \cap S = S
    OBVIOUS
  <2> QED BY <1>2, <1>3, <2>2, <2>3, <2>4 DEF Sound
<1>7. q \in RingSet(T, D)
  BY <1>1, <1>2, <1>5, <1>6 DEF RingSet
<1>8. Unique(q)
  BY <1>3 DEF Unique, Sound, Occupied
<1>9. /\ DOMAIN View(r) = HeldTicks(r)
      /\ \A j \in Occupied(r) : View(r)[r.slots[j].tick] = r.slots[j].data
  BY ViewAt DEF Sound
<1>10. DOMAIN m = HeldTicks(r) \ gone
  BY <1>9 DEF MapWithout
<1>11. \A j \in Occupied(r) : r.slots[j].tick \in gone <=> j \in S
  BY DEF Sound, Unique
<1>12. HeldTicks(q) = HeldTicks(r) \ gone
  <2>1. ASSUME NEW j \in Occupied(q) PROVE q.slots[j].tick \in HeldTicks(r) \ gone
    BY <1>3, <1>11, <2>1 DEF HeldTicks, Occupied
  <2>2. ASSUME NEW j \in Occupied(r), r.slots[j].tick \notin gone
        PROVE  r.slots[j].tick \in HeldTicks(q)
    BY <1>3, <1>11, <2>2 DEF HeldTicks, Occupied
  <2> QED BY <2>1, <2>2 DEF HeldTicks
<1>13. ASSUME NEW j \in Occupied(q) PROVE m[q.slots[j].tick] = q.slots[j].data
  <2>1. j \in Occupied(r) /\ q.slots[j] = r.slots[j]
    BY <1>3 DEF Occupied
  <2>2. q.slots[j].tick \in HeldTicks(r) \ gone
    BY <1>12 DEF HeldTicks
  <2> QED BY <1>9, <2>1, <2>2 DEF MapWithout
<1>14. m = [u \in DOMAIN m |-> m[u]]
  BY DEF MapWithout
<1>15. DOMAIN m = HeldTicks(q)
  BY <1>10, <1>12
<1> HIDE DEF m
<1>16. View(q) = m
  BY <1>8, <1>13, <1>14, <1>15, ViewIs
<1> QED BY <1>3, <1>6, <1>7, <1>8, <1>16 DEF q, m, gone, Sound

\* netplay_snap_ring_drop_tick.
LEMMA DropTickActs ==
    ASSUME NEW T, NEW D, 0 \in T, Null \in D,
           NEW r \in RingSet(T, D), Sound(r), NEW t
    PROVE  /\ DropTick(r, t) \in RingSet(T, D)
           /\ Sound(DropTick(r, t))
           /\ View(DropTick(r, t)) = MapWithout(View(r), {t})
<1>1. CASE Has(r, t)
  <2> DEFINE i == FindSlot(r, t)
  <2>1. i \in Occupied(r) /\ r.slots[i].tick = t
    BY <1>1, HeldAt DEF Sound
  <2> HIDE DEF i
  <2>2. {i} \in SUBSET Occupied(r) /\ {r.slots[j].tick : j \in {i}} = {t}
    BY <2>1
  <2> DEFINE S == {i}
  <2> HIDE DEF S
  <2>3. /\ Cleared(r, S) \in RingSet(T, D)
        /\ Sound(Cleared(r, S))
        /\ View(Cleared(r, S)) = MapWithout(View(r), {r.slots[j].tick : j \in S})
    <3>1. S \in SUBSET Occupied(r)
      BY <2>2 DEF S
    <3> QED BY <3>1, ClearActs
  <2> QED BY <1>1, <2>2, <2>3 DEF DropTick, S, i
<1>2. CASE ~Has(r, t)
  <2>1. DOMAIN View(r) = HeldTicks(r) /\ View(r) = [u \in HeldTicks(r) |-> View(r)[u]]
    BY ViewAt DEF Sound
  <2>2. t \notin HeldTicks(r)
    BY <1>2, HasIsHeld
  <2>3. HeldTicks(r) \ {t} = HeldTicks(r)
    BY <2>2
  <2>4. MapWithout(View(r), {t}) = View(r)
    BY <2>1, <2>3 DEF MapWithout
  <2> QED BY <1>2, <2>4 DEF DropTick
<1> QED BY <1>1, <1>2

\* netplay_snap_ring_drop_after.
LEMMA DropAfterActs ==
    ASSUME NEW T, NEW D, 0 \in T, Null \in D,
           NEW r \in RingSet(T, D), Sound(r), NEW t
    PROVE  /\ DropAfter(r, t) \in RingSet(T, D)
           /\ Sound(DropAfter(r, t))
           /\ View(DropAfter(r, t)) = MapDropAfter(View(r), t)
<1> DEFINE S == {i \in Occupied(r) : r.slots[i].tick > t}
<1>1. S \in SUBSET Occupied(r)
  OBVIOUS
<1>2. {r.slots[i].tick : i \in S} = {u \in HeldTicks(r) : u > t}
  BY DEF HeldTicks
<1>3. DOMAIN View(r) = HeldTicks(r)
  BY ViewAt DEF Sound
<1> HIDE DEF S
<1>4. /\ Cleared(r, S) \in RingSet(T, D)
      /\ Sound(Cleared(r, S))
      /\ View(Cleared(r, S)) = MapWithout(View(r), {r.slots[i].tick : i \in S})
  BY <1>1, ClearActs
<1> QED BY <1>2, <1>3, <1>4 DEF DropAfter, MapDropAfter, S
-----------------------------------------------------------------------------
(* Storing *)

LEMMA ModuloFacts ==
    /\ \A x \in Nat : x % Depth \in Slots
    /\ \A x \in Slots : x % Depth = x /\ (x + Depth) % Depth = x
BY DepthAssumption DEF Slots

\* A ring with an unused slot finds one from its write position.
LEMMA FreeFound ==
    ASSUME NEW T, NEW D, NEW r \in RingSet(T, D), Occupied(r) # Slots
    PROVE  /\ Index(r, FreeOffset(r)) \in Slots
           /\ Index(r, FreeOffset(r)) \notin Occupied(r)
<1> DEFINE F == {k \in Slots : Index(r, k) \notin Occupied(r)}
<1>0. r.head \in Slots /\ Depth \in Nat
  BY DepthAssumption DEF RingSet
<1>1. PICK s \in Slots : s \notin Occupied(r)
  BY DEF Occupied
<1>2. F # {}
  <2>1. CASE s >= r.head
    <3>1. s - r.head \in Slots /\ r.head + (s - r.head) = s
      BY <1>0, <2>1 DEF Slots
    <3>2. Index(r, s - r.head) = s
      BY <3>1, ModuloFacts DEF Index
    <3> QED BY <1>1, <3>1, <3>2
  <2>2. CASE s < r.head
    <3>1. s - r.head + Depth \in Slots /\ r.head + (s - r.head + Depth) = s + Depth
      BY <1>0, <2>2 DEF Slots
    <3>2. Index(r, s - r.head + Depth) = s
      BY <3>1, ModuloFacts DEF Index
    <3> QED BY <1>1, <3>1, <3>2
  <2> QED BY <1>0, <2>1, <2>2 DEF Slots
<1>3. PICK k \in F : \A n \in F : k <= n
  <2>1. F \in SUBSET Nat
    BY <1>0 DEF Slots
  <2> QED BY <1>2, <2>1, Least
<1>4. \A j \in Slots : j < k => Index(r, j) \in Occupied(r)
  BY <1>0, <1>3 DEF Slots
<1>5. FreeOffset(r) \in Slots /\ Index(r, FreeOffset(r)) \notin Occupied(r)
  BY <1>3, <1>4 DEF FreeOffset
<1>6. r.head + FreeOffset(r) \in Nat
  BY <1>0, <1>5 DEF Slots
<1> QED BY <1>5, <1>6, ModuloFacts DEF Index

\* A ring in use has exactly one slot with the lowest tick.
LEMMA VictimFound ==
    ASSUME NEW T \in SUBSET Nat, NEW D, NEW r \in RingSet(T, D), Unique(r),
           Occupied(r) # {}
    PROVE  /\ Victim(r) \in Occupied(r)
           /\ Lowest(View(r)) = {r.slots[Victim(r)].tick}
<1>0. ASSUME NEW i \in Occupied(r) PROVE i \in Nat /\ r.slots[i].tick \in Nat
  <2>1. i \in Slots
    BY DEF Occupied
  <2>2. r.slots \in [Slots -> [valid : BOOLEAN, tick : T, data : D]]
    BY DEF RingSet
  <2>3. r.slots[i].tick \in T
    BY <2>1, <2>2
  <2>4. i \in Nat
    BY <2>1, DepthAssumption DEF Slots
  <2>5. r.slots[i].tick \in Nat
    BY <2>3
  <2> QED BY <2>4, <2>5
<1>1. HeldTicks(r) \in SUBSET Nat /\ HeldTicks(r) # {}
  BY <1>0 DEF HeldTicks
<1>2. PICK v \in HeldTicks(r) : \A u \in HeldTicks(r) : v <= u
  BY <1>1, Least
<1>3. PICK i \in Occupied(r) : r.slots[i].tick = v
  BY <1>2 DEF HeldTicks
<1>4. ASSUME NEW j \in Occupied(r)
      PROVE  \/ r.slots[i].tick < r.slots[j].tick
             \/ r.slots[i].tick = r.slots[j].tick /\ j <= i
  <2>1. r.slots[i].tick <= r.slots[j].tick
    BY <1>2, <1>3 DEF HeldTicks
  <2>2. CASE r.slots[i].tick = r.slots[j].tick
    BY <1>0, <2>2 DEF Unique
  <2>3. CASE r.slots[i].tick # r.slots[j].tick
    BY <1>0, <2>1, <2>3
  <2> QED BY <2>2, <2>3
<1>5. /\ Victim(r) \in Occupied(r)
      /\ \A j \in Occupied(r) :
            \/ r.slots[Victim(r)].tick < r.slots[j].tick
            \/ r.slots[Victim(r)].tick = r.slots[j].tick /\ j <= Victim(r)
  BY <1>4 DEF Victim
<1>6. r.slots[Victim(r)].tick = v
  <2>1. r.slots[Victim(r)].tick <= v
    BY <1>0, <1>3, <1>5
  <2>2. v <= r.slots[Victim(r)].tick
    BY <1>2, <1>5 DEF HeldTicks
  <2> QED BY <1>0, <1>3, <1>5, <2>1, <2>2
<1>7. DOMAIN View(r) = HeldTicks(r)
  BY ViewAt
<1>8. Lowest(View(r)) = {v}
  <2>1. ASSUME NEW u \in HeldTicks(r), \A w \in HeldTicks(r) : u <= w PROVE u = v
    BY <1>1, <1>2, <2>1
  <2> QED BY <1>2, <1>7, <2>1 DEF Lowest
<1> QED BY <1>5, <1>6, <1>8

\* netplay_snap_ring_store.
LEMMA StoreActs ==
    ASSUME NEW T \in SUBSET Nat, NEW D, NEW r \in RingSet(T, D), Sound(r),
           NEW t \in T, NEW d \in D
    PROVE  /\ Store(r, t, d) \in RingSet(T, D)
           /\ Sound(Store(r, t, d))
           /\ View(Store(r, t, d)) = MapStore(View(r), t, d)
<1> USE DepthAssumption
<1> DEFINE q == Store(r, t, d)
<1>1. r.count \in 0 .. Depth /\ r.head \in Slots
  BY DEF RingSet
<1>2. Occupied(r) \in SUBSET Slots /\ IsFiniteSet(Occupied(r))
  <2>1. Occupied(r) \in SUBSET Slots
    BY DEF Occupied
  <2> QED BY <2>1, SlotCount
<1>3. Unique(r) /\ r.count = Cardinality(Occupied(r))
  BY DEF Sound
<1>4. /\ DOMAIN View(r) = HeldTicks(r)
      /\ Cardinality(DOMAIN View(r)) = r.count
      /\ Has(r, t) <=> t \in DOMAIN View(r)
  BY <1>3, ViewAt, HeldCount, HasIsHeld
<1>5. CASE Has(r, t)
  <2> DEFINE i == FindSlot(r, t)
  <2>1. i \in Occupied(r) /\ r.slots[i].tick = t
    BY <1>3, <1>5, HeldAt
  <2>2. q = [slots |-> Filled(r, i, t, d), count |-> r.count, head |-> r.head]
    BY <1>5 DEF Store, StoreOver
  <2> HIDE DEF i, q
  <2>3. i \in Slots /\ \A j \in Occupied(r) : j # i => r.slots[j].tick # t
    BY <1>2, <1>3, <2>1 DEF Unique
  <2>4. q.slots = Filled(r, i, t, d) /\ q.count = r.count /\ q.head = r.head
    BY <2>2
  <2>5. /\ q.slots \in [Slots -> [valid : BOOLEAN, tick : T, data : D]]
        /\ Occupied(q) = Occupied(r) \union {i}
        /\ Unique(q)
    BY <1>3, <2>3, <2>4, FillSlots
  <2>6. View(q) = MapWith(View(r), t, d)
    BY <1>3, <2>1, <2>3, <2>4, FillAdds
  <2>7. Occupied(q) = Occupied(r)
    BY <2>1, <2>5
  <2>8. q \in RingSet(T, D)
    BY <1>1, <2>2, <2>4, <2>5 DEF RingSet
  <2> QED BY <1>3, <1>4, <1>5, <2>4, <2>5, <2>6, <2>7, <2>8 DEF MapStore, Sound, q
<1>6. CASE ~Has(r, t) /\ r.count < Depth /\ Occupied(r) # Slots
  <2> DEFINE i == Index(r, FreeOffset(r))
  <2>1. i \in Slots /\ i \notin Occupied(r)
    BY <1>6, FreeFound
  <2>2. q = [slots |-> Filled(r, i, t, d), count |-> r.count + 1, head |-> (i + 1) % Depth]
    BY <1>6 DEF Store, StoreFree
  <2> HIDE DEF i, q
  <2>3. \A j \in Occupied(r) : r.slots[j].tick # t
    BY <1>6 DEF Has, SlotsOf
  <2>4. /\ q.slots = Filled(r, i, t, d) /\ q.count = r.count + 1
        /\ q.head = (i + 1) % Depth
    BY <2>2
  <2>5. /\ q.slots \in [Slots -> [valid : BOOLEAN, tick : T, data : D]]
        /\ Occupied(q) = Occupied(r) \union {i}
        /\ Unique(q)
    BY <1>3, <2>1, <2>3, <2>4, FillSlots
  <2>6. View(q) = MapWith(View(r), t, d)
    BY <1>3, <2>1, <2>3, <2>4, FillAdds
  <2>7. Cardinality(Occupied(q)) = r.count + 1
    <3>1. Cardinality(Occupied(r) \union {i}) = Cardinality(Occupied(r)) + 1
      BY <1>2, <2>1, FS_AddElement
    <3> QED BY <1>3, <2>5, <3>1
  <2>8. q.head \in Slots
    <3>1. i + 1 \in Nat
      BY <2>1 DEF Slots
    <3> QED BY <2>4, <3>1, ModuloFacts
  <2>9. q \in RingSet(T, D)
    BY <1>1, <1>6, <2>2, <2>4, <2>5, <2>8 DEF RingSet
  <2> QED BY <1>4, <1>6, <2>4, <2>5, <2>6, <2>7, <2>9 DEF MapStore, Sound, q
<1>7. CASE ~Has(r, t) /\ ~(r.count < Depth /\ Occupied(r) # Slots)
  <2> DEFINE i == Victim(r)
  <2>1. Occupied(r) = Slots /\ r.count = Depth
    BY <1>1, <1>2, <1>3, <1>7, SlotCount
  <2>2. 0 \in Occupied(r)
    BY <2>1 DEF Slots
  <2>3. i \in Occupied(r) /\ Lowest(View(r)) = {r.slots[i].tick}
    BY <1>3, <2>2, VictimFound
  <2>4. q = [slots |-> Filled(r, i, t, d), count |-> r.count, head |-> (i + 1) % Depth]
    BY <1>7 DEF Store, StoreEvict
  <2> HIDE DEF i, q
  <2>5. i \in Slots /\ \A j \in Occupied(r) : r.slots[j].tick # t
    BY <1>7, <2>1, <2>3 DEF Has, SlotsOf
  <2>6. /\ q.slots = Filled(r, i, t, d) /\ q.count = r.count
        /\ q.head = (i + 1) % Depth
    BY <2>4
  <2>7. /\ q.slots \in [Slots -> [valid : BOOLEAN, tick : T, data : D]]
        /\ Occupied(q) = Occupied(r) \union {i}
        /\ Unique(q)
    BY <1>3, <2>5, <2>6, FillSlots
  <2>8. View(q) = MapWith(MapWithout(View(r), Lowest(View(r))), t, d)
    <3>1. View(q) = MapWith(MapWithout(View(r), {r.slots[i].tick}), t, d)
      BY <1>3, <1>7, <2>3, <2>6, FillReplaces
    <3> QED BY <2>3, <3>1
  <2>9. q.head \in Slots
    <3>1. i + 1 \in Nat
      BY <2>5 DEF Slots
    <3> QED BY <2>6, <3>1, ModuloFacts
  <2>10. Occupied(q) = Occupied(r)
    BY <2>3, <2>7
  <2>11. q \in RingSet(T, D)
    BY <1>1, <2>4, <2>6, <2>7, <2>9 DEF RingSet
  <2>12. ~(Cardinality(DOMAIN View(r)) < Depth)
    BY <1>4, <2>1
  <2> QED BY <1>3, <1>4, <1>7, <2>6, <2>7, <2>8, <2>10, <2>11, <2>12 DEF MapStore, Sound, q
<1> QED BY <1>5, <1>6, <1>7

-----------------------------------------------------------------------------
\* The empty ring, what netplay_snap_ring_create returns.
LEMMA EmptyIsSound ==
    ASSUME NEW T, NEW D, 0 \in T, Null \in D
    PROVE  EmptyRing \in RingSet(T, D) /\ Sound(EmptyRing) /\ Occupied(EmptyRing) = {}
<1>1. Occupied(EmptyRing) = {}
  BY DEF Occupied, EmptyRing, EmptySlot
<1>2. EmptyRing \in RingSet(T, D)
  BY DepthAssumption DEF EmptyRing, EmptySlot, RingSet, Slots
<1>3. Cardinality(Occupied(EmptyRing)) = 0
  BY <1>1, FS_EmptySet
<1> QED BY <1>1, <1>2, <1>3 DEF Sound, Unique, EmptyRing

(***************************************************************************)
(* netplay_snap_ring.c as a whole: whatever the depth, a ring that holds   *)
(* no tick twice and counts its occupied slots acts as a bounded map.      *)
(***************************************************************************)
THEOREM SoundActsAsMap ==
    ASSUME NEW T \in SUBSET Nat, NEW D, 0 \in T, Null \in D,
           NEW r \in RingSet(T, D), Sound(r), NEW E \in SUBSET D
    PROVE  ActsAsMap(r, T, E)
<1>1. r.count = Cardinality(HeldTicks(r)) /\ DOMAIN View(r) = HeldTicks(r)
  BY HeldCount, ViewAt DEF Sound
<1>2. ASSUME NEW t \in T
      PROVE  /\ Has(r, t) <=> t \in DOMAIN View(r)
             /\ View(DropTick(r, t)) = MapWithout(View(r), {t})
             /\ View(DropAfter(r, t)) = MapDropAfter(View(r), t)
             /\ \A d \in E : View(Store(r, t, d)) = MapStore(View(r), t, d)
  <2>1. Has(r, t) <=> t \in DOMAIN View(r)
    BY <1>1, HasIsHeld
  <2>2. View(DropTick(r, t)) = MapWithout(View(r), {t})
    BY DropTickActs
  <2>3. View(DropAfter(r, t)) = MapDropAfter(View(r), t)
    BY DropAfterActs
  <2>4. \A d \in E : View(Store(r, t, d)) = MapStore(View(r), t, d)
    BY StoreActs
  <2> QED BY <2>1, <2>2, <2>3, <2>4
<1> QED BY <1>1, <1>2 DEF ActsAsMap
=============================================================================
