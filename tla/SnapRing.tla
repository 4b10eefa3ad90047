------------------------------ MODULE SnapRing ------------------------------
(***************************************************************************)
(* The snapshot ring of rollback netplay, netplay_snap_ring.c: a fixed     *)
(* array of slots with a fill count and a write position, searched by      *)
(* tick.  The operators take a ring and return the ring the C function     *)
(* leaves.  What a caller relies on is stated below them as operations of  *)
(* a bounded map from ticks to snapshots, in which nothing is left of      *)
(* slots, count and write position.                                        *)
(***************************************************************************)
EXTENDS Integers, FiniteSets

CONSTANTS
    Depth,      \* slots of the ring (NETPLAY_SNAP_RING_DEFAULT_DEPTH, 80)
    Null        \* the data of a cleared slot

ASSUME DepthAssumption == Depth \in Nat \ {0}

Slots == 0 .. Depth - 1

EmptySlot == [valid |-> FALSE, tick |-> 0, data |-> Null]

EmptyRing == [slots |-> [i \in Slots |-> EmptySlot], count |-> 0, head |-> 0]

Occupied(r) == {i \in Slots : r.slots[i].valid}

(* find_slot: the first occupied slot with the tick. *)
SlotsOf(r, t) == {i \in Occupied(r) : r.slots[i].tick = t}
FindSlot(r, t) == CHOOSE i \in SlotsOf(r, t) : \A j \in SlotsOf(r, t) : i <= j
Has(r, t) == SlotsOf(r, t) # {}

HeldTicks(r) == {r.slots[i].tick : i \in Occupied(r)}

Filled(r, i, t, d) ==
    [r.slots EXCEPT ![i] = [valid |-> TRUE, tick |-> t, data |-> d]]

(* The first unused slot at or after the write position, cyclically. *)
Index(r, k) == (r.head + k) % Depth
FreeOffset(r) ==
    CHOOSE k \in Slots :
        /\ Index(r, k) \notin Occupied(r)
        /\ \A j \in Slots : j < k => Index(r, j) \in Occupied(r)

(* The scan for the lowest tick; of two slots with one tick, the later. *)
Victim(r) ==
    CHOOSE i \in Occupied(r) :
        \A j \in Occupied(r) :
            \/ r.slots[i].tick < r.slots[j].tick
            \/ r.slots[i].tick = r.slots[j].tick /\ j <= i

StoreOver(r, t, d) ==
    [slots |-> Filled(r, FindSlot(r, t), t, d), count |-> r.count, head |-> r.head]

StoreFree(r, t, d) ==
    LET i == Index(r, FreeOffset(r))
    IN  [slots |-> Filled(r, i, t, d), count |-> r.count + 1,
         head |-> (i + 1) % Depth]

StoreEvict(r, t, d) ==
    LET i == Victim(r)
    IN  [slots |-> Filled(r, i, t, d), count |-> r.count,
         head |-> (i + 1) % Depth]

Store(r, t, d) ==
    IF Has(r, t) THEN StoreOver(r, t, d)
    ELSE IF r.count < Depth /\ Occupied(r) # Slots THEN StoreFree(r, t, d)
    ELSE StoreEvict(r, t, d)

\* MUTANT of Cleared: the cleared slots stay in the count.
ClearedUncounted(r, S) ==
    [r EXCEPT !.slots = [i \in Slots |-> IF i \in S THEN EmptySlot ELSE r.slots[i]]]

(* slot_clear on every slot of S, each taking one off the count. *)
Cleared(r, S) ==
    [slots |-> [i \in Slots |-> IF i \in S THEN EmptySlot ELSE r.slots[i]],
     count |-> r.count - Cardinality(S), head |-> r.head]

DropTick(r, t) == IF Has(r, t) THEN Cleared(r, {FindSlot(r, t)}) ELSE r

DropAfter(r, t) == Cleared(r, {i \in Occupied(r) : r.slots[i].tick > t})

Load(r, t) == r.slots[FindSlot(r, t)].data

-----------------------------------------------------------------------------
(* The ring as its callers see it. *)

View(r) == [t \in HeldTicks(r) |-> Load(r, t)]

MapWith(m, t, d) == [u \in DOMAIN m \union {t} |-> IF u = t THEN d ELSE m[u]]
MapWithout(m, S) == [u \in DOMAIN m \ S |-> m[u]]
Lowest(m) == {u \in DOMAIN m : \A v \in DOMAIN m : u <= v}

MapStore(m, t, d) ==
    IF t \in DOMAIN m \/ Cardinality(DOMAIN m) < Depth
    THEN MapWith(m, t, d)
    ELSE MapWith(MapWithout(m, Lowest(m)), t, d)

MapDropAfter(m, t) == MapWithout(m, {u \in DOMAIN m : u > t})

(***************************************************************************)
(* Every operation of ring r, applied now, has exactly the effect of the   *)
(* map operation on what r holds, and the count is the number of snapshots *)
(* held.                                                                   *)
(***************************************************************************)
ActsAsMap(r, ticks, datas) ==
    /\ r.count = Cardinality(HeldTicks(r))
    /\ \A t \in ticks :
          /\ Has(r, t) <=> t \in DOMAIN View(r)
          /\ View(DropTick(r, t)) = MapWithout(View(r), {t})
          /\ View(DropAfter(r, t)) = MapDropAfter(View(r), t)
          /\ \A d \in datas : View(Store(r, t, d)) = MapStore(View(r), t, d)

=============================================================================
