---------------------------- MODULE HashConfirm ----------------------------
(***************************************************************************)
(* The agreement watermark of a netplay peer                               *)
(* (psxrecomp/runtime/src/netplay_hash_confirm.c) under the handlers of    *)
(* psx_netplay.c that drive it, all on the emulation thread:               *)
(*                                                                         *)
(*   np_emit_frame_commit         after a simulated tick: note the local   *)
(*                                digest, heal, look for a fork;           *)
(*   np_drain_peer_frame_commits  note every commit the peer sent, heal,   *)
(*                                look for a fork;                         *)
(*   netplay_hc_prime_after       the rollback engine moves the watermark. *)
(*                                                                         *)
(* A digest of a tick is kept in the slot tick % Ring, so a slot may hold  *)
(* an older or a newer tick than the one asked for.  Commits of the peer   *)
(* come from the network: lost, repeated, late and in any order, and the   *)
(* peer may send a second digest for a tick it simulated again.            *)
(***************************************************************************)
EXTENDS Integers

CONSTANTS
    Ring,          \* NETPLAY_HC_RING, 128
    LastTick,      \* 0xffffffff: the last tick, and the "no fork" mark
    Digests,       \* CRCs of the core state
    PersistTicks,  \* how long a fork must last before recovery, 16
    RetryGaps,     \* ticks between two recoveries: 32, or 256 after failures
    Busy           \* may an episode, tip-hold, load or movie be in flight

ASSUME HashAssumption ==
    /\ Ring \in Nat \ {0}
    /\ LastTick \in Nat
    /\ PersistTicks \in Nat
    /\ RetryGaps \subseteq Nat
    /\ Busy \subseteq BOOLEAN

Ticks == 0..LastTick
Slots == 0..(Ring - 1)
Entries == [tick : Ticks, digest : Digests]

VARIABLES
    local,      \* local_tick, local_digest, local_valid: a set of at most one
                \*   entry per slot
    peer,       \* the same for peer_*
    valid,      \* resolved_valid
    through,    \* resolved_through
    pc,         \* idle, or the part of the handler to run next: advance, drain,
                \*   heal, check
    emitting,   \* the handler is np_emit_frame_commit
    sim,        \* rnet_session_sim_tick
    forkTick,   \* s_fork_tick
    forkFirst,  \* s_fork_first_sim
    forkLast,   \* s_fork_last_attempt_sim
    from,       \* ghost: first tick after the last prime, reset or heal
    agreed,     \* ghost: ticks whose two digests stood equal side by side
    seen        \* ghost: the fork every check since some tick has found, a
                \*   set of at most one [fork, since]

rings == <<local, peer>>
watermark == <<valid, through>>
fork == <<forkTick, forkFirst, forkLast>>
vars == <<rings, watermark, pc, emitting, sim, fork, from, agreed, seen>>

-----------------------------------------------------------------------------
(* netplay_hash_confirm.c: reading the rings *)

SlotOf(t) == t % Ring

\* MUTANT of PeerAt: the tick stored in the slot is not compared.
PeerAtAnyTick(t) == {e.digest : e \in peer[SlotOf(t)]}

\* The digest a ring holds for a tick, as a set of at most one.
LocalAt(t) == {e.digest : e \in {x \in local[SlotOf(t)] : x.tick = t}}
PeerAt(t) == {e.digest : e \in {x \in peer[SlotOf(t)] : x.tick = t}}

\* The first tick that is not confirmed.
NextTick == IF valid THEN through + 1 ELSE 0
HasNext == valid => through # LastTick

Matched(t) == \E d \in LocalAt(t) : d \in PeerAt(t)

\* netplay_hc_peek_mismatch.
PeekMismatch ==
    /\ HasNext
    /\ \E d \in LocalAt(NextTick), e \in PeerAt(NextTick) : d # e

\* netplay_hc_confirm_through.
ConfirmThrough(t) == valid /\ t <= through

-----------------------------------------------------------------------------
(* netplay_hash_confirm.c: moving the watermark *)

Init ==
    /\ local = [i \in Slots |-> {}]
    /\ peer = [i \in Slots |-> {}]
    /\ valid = FALSE
    /\ through = 0
    /\ pc = "idle"
    /\ emitting = FALSE
    /\ sim = 0
    /\ forkTick = LastTick
    /\ forkFirst = 0
    /\ forkLast = 0
    /\ from = 0
    /\ agreed = {}
    /\ seen = {}

\* Ticks for which both rings hold the same entry.
SideBySide(l, p) == {t \in Ticks : \E i \in Slots : \E e \in l[i] : e \in p[i] /\ e.tick = t}

\* One turn of the loop of try_advance, and its end.
TryAdvance ==
    /\ pc = "advance"
    /\ HasNext /\ Matched(NextTick)
    /\ through' = NextTick
    /\ valid' = TRUE
    /\ UNCHANGED <<rings, pc, emitting, sim, fork, from, agreed, seen>>

\* MUTANT of TryAdvanceEnd: the emit handler falls into the drain loop.
TryAdvanceEndDrains ==
    /\ pc = "advance"
    /\ ~(HasNext /\ Matched(NextTick))
    /\ pc' = "drain"
    /\ UNCHANGED <<rings, watermark, emitting, sim, fork, from, agreed, seen>>

TryAdvanceEnd ==
    /\ pc = "advance"
    /\ ~(HasNext /\ Matched(NextTick))
    /\ pc' = IF emitting THEN "heal" ELSE "drain"
    /\ UNCHANGED <<rings, watermark, emitting, sim, fork, from, agreed, seen>>

\* MUTANT of PairsAbove: pairs at and below the watermark are scanned too.
PairsAnywhere ==
    {ep \in UNION {local[i] \X peer[i] : i \in Slots} : ep[1].tick = ep[2].tick}

\* The pairs heal_stale_gap scans: one tick, both digests, above the watermark.
PairsAbove ==
    {ep \in UNION {local[i] \X peer[i] : i \in Slots} :
        ep[1].tick = ep[2].tick /\ ep[1].tick > through}

\* MUTANT of HealAllowed: a differing pair is passed over, not a refusal.
HealAllowedOverForks ==
    /\ valid /\ through # LastTick
    /\ LocalAt(NextTick) = {} /\ PeerAt(NextTick) = {}

HealAllowed ==
    /\ valid /\ through # LastTick
    /\ LocalAt(NextTick) = {} /\ PeerAt(NextTick) = {}
    /\ \A ep \in PairsAbove : ep[1].digest = ep[2].digest

Healable == HealAllowed /\ PairsAbove # {}

\* MUTANT of HealMoves: any tick that still matches, not the highest.
HealMovesAnywhere ==
    /\ Healable
    /\ \E ep \in PairsAbove :
        /\ through' = ep[1].tick
        /\ from' = ep[1].tick + 1
    /\ UNCHANGED valid

\* netplay_hc_heal_stale_gap: jump to the highest tick that still matches.
HealMoves ==
    /\ Healable
    /\ \E ep \in PairsAbove :
        /\ \A other \in PairsAbove : other[1].tick <= ep[1].tick
        /\ through' = ep[1].tick
        /\ from' = ep[1].tick + 1
    /\ UNCHANGED valid

HealStaleGap ==
    \/ HealMoves
    \/ ~Healable /\ UNCHANGED <<watermark, from>>

-----------------------------------------------------------------------------
(* psx_netplay.c: the handlers *)

Put(ring, t, d) == [ring EXCEPT ![SlotOf(t)] = {[tick |-> t, digest |-> d]}]

\* np_emit_frame_commit up to the loop of netplay_hc_note_local.
NoteLocal(d) ==
    /\ pc = "idle"
    /\ local' = Put(local, sim, d)
    /\ agreed' = agreed \union SideBySide(local', peer)
    /\ pc' = "advance"
    /\ emitting' = TRUE
    /\ UNCHANGED <<peer, watermark, sim, fork, from, seen>>

\* np_emit_frame_commit returns early: tip-hold, or a movie is decoding.
SkipCommit ==
    /\ pc = "idle"
    /\ sim < LastTick
    /\ sim' = sim + 1
    /\ UNCHANGED <<rings, watermark, pc, emitting, fork, from, agreed, seen>>

\* One turn of the loop of np_drain_peer_frame_commits, up to try_advance.  A
\* commit that psx_netplay_rb_ignore_peer_frame_commit drops never gets here.
NotePeer(t, d) ==
    /\ pc \in {"idle", "drain"}
    /\ peer' = Put(peer, t, d)
    /\ agreed' = agreed \union SideBySide(local, peer')
    /\ pc' = "advance"
    /\ emitting' = FALSE
    /\ UNCHANGED <<local, watermark, sim, fork, from, seen>>

\* No commit is left, or none was there at all: the handler heals before it looks
\* for a fork.
DrainEnd ==
    /\ pc \in {"idle", "drain"}
    /\ pc' = "heal"
    /\ UNCHANGED <<rings, watermark, emitting, sim, fork, from, agreed, seen>>

\* MUTANT of Heal: the handler does not heal.
HealForgotten ==
    /\ pc = "heal"
    /\ pc' = "check"
    /\ UNCHANGED <<rings, watermark, from, emitting, sim, fork, agreed, seen>>

Heal ==
    /\ pc = "heal"
    /\ HealStaleGap
    /\ pc' = "check"
    /\ UNCHANGED <<rings, emitting, sim, fork, agreed, seen>>

\* psx_netplay_rb_pump heals on its own before it uses the watermark.
PumpHeal ==
    /\ pc = "idle"
    /\ HealStaleGap
    /\ UNCHANGED <<rings, pc, emitting, sim, fork, agreed, seen>>

Observed ==
    IF ~PeekMismatch THEN {}
    ELSE IF \E s \in seen : s.fork = NextTick THEN seen
    ELSE {[fork |-> NextTick, since |-> sim]}

\* The end of a handler; finish_frame then lets the session advance.
Return ==
    /\ pc = "check"
    /\ pc' = "idle"
    /\ emitting' = FALSE
    /\ sim' = IF emitting /\ sim < LastTick THEN sim + 1 ELSE sim
    /\ seen' = Observed
    /\ UNCHANGED <<rings, watermark, from, agreed>>

\* MUTANT of CheckQuiet: the fork that is gone stays recorded.
CheckQuietKeepsFork ==
    /\ Return
    /\ ~PeekMismatch
    /\ UNCHANGED fork

\* np_check_core_diverge without a complete differing pair at the next tick.
CheckQuiet ==
    /\ Return
    /\ ~PeekMismatch
    /\ forkTick' = LastTick
    /\ UNCHANGED <<forkFirst, forkLast>>

\* A mismatch while an episode handles it (abort_resim_core_mismatch), or while
\* np_try_hc_fork_recovery must not keep count.
CheckBusy ==
    /\ Return
    /\ PeekMismatch
    /\ TRUE \in Busy
    /\ UNCHANGED fork

\* np_try_hc_fork_recovery: a fork at a tick not seen before.
ForkSeen ==
    /\ Return
    /\ PeekMismatch
    /\ FALSE \in Busy
    /\ NextTick # forkTick
    /\ forkTick' = NextTick
    /\ forkFirst' = sim
    /\ UNCHANGED forkLast

Persisted == sim >= forkFirst /\ sim - forkFirst >= PersistTicks
TooSoon(gap) == forkLast # 0 /\ sim >= forkLast /\ sim - forkLast < gap

ForkWaits ==
    /\ Return
    /\ PeekMismatch
    /\ FALSE \in Busy
    /\ NextTick = forkTick
    /\ ~Persisted \/ \E gap \in RetryGaps : TooSoon(gap)
    /\ UNCHANGED fork

\* The recovery episode opens (psx_netplay_rb_begin_rewind).
ForkRecovery ==
    /\ Return
    /\ PeekMismatch
    /\ FALSE \in Busy
    /\ NextTick = forkTick
    /\ Persisted
    /\ \E gap \in RetryGaps : ~TooSoon(gap)
    /\ forkLast' = sim
    /\ UNCHANGED <<forkTick, forkFirst>>

\* netplay_hc_prime_after.
Primed(lastOk) ==
    /\ pc = "idle"
    /\ local' = [i \in Slots |-> {}]
    /\ peer' = [i \in Slots |-> {}]
    /\ through' = lastOk
    /\ valid' = TRUE
    /\ from' = lastOk + 1
    /\ agreed' = {}
    /\ UNCHANGED <<pc, emitting, forkTick, seen>>

\* The rollback engine primes: with a reload (the session goes on from the tick
\* after it) or in place (an episode commits, or a movie ends).
PrimeAfter(lastOk) ==
    /\ Primed(lastOk)
    /\ sim' \in {sim, lastOk + 1} \intersect Ticks
    /\ UNCHANGED <<forkFirst, forkLast>>

\* maybe_abandon_tip_extend: prime at the peer's commit, then
\* psx_netplay_hc_fork_recovery_restart.
AbandonTipExtend(snapTick) ==
    /\ Primed(snapTick)
    /\ forkFirst' = sim
    /\ forkLast' = sim
    /\ UNCHANGED sim

\* netplay_hc_reset with np_part_ring_reset: a new session, a loaded save state,
\* or the end of netplay.  The session counts its ticks from 0 again.
Reset ==
    /\ pc = "idle"
    /\ local' = [i \in Slots |-> {}]
    /\ peer' = [i \in Slots |-> {}]
    /\ through' = 0
    /\ valid' = FALSE
    /\ from' = 0
    /\ agreed' = {}
    /\ sim' = 0
    /\ forkTick' = LastTick
    /\ forkFirst' = 0
    /\ forkLast' = 0
    /\ seen' = {}
    /\ UNCHANGED <<pc, emitting>>

\* psx_netplay_hc_fork_recovery_clear: the peer refused a load it has passed.
RecoveryClear ==
    /\ pc = "idle"
    /\ forkTick' = LastTick
    /\ forkFirst' = 0
    /\ forkLast' = 0
    /\ UNCHANGED <<rings, watermark, pc, emitting, sim, from, agreed, seen>>

Next ==
    \/ \E d \in Digests : NoteLocal(d)
    \/ \E t \in Ticks, d \in Digests : NotePeer(t, d)
    \/ TryAdvance \/ TryAdvanceEnd \/ SkipCommit \/ DrainEnd
    \/ Heal \/ PumpHeal
    \/ CheckQuiet \/ CheckBusy \/ ForkSeen \/ ForkWaits \/ ForkRecovery
    \/ \E t \in 0..sim : PrimeAfter(t)
    \/ \E t \in 0..sim : AbandonTipExtend(t)
    \/ Reset \/ RecoveryClear

Spec == Init /\ [][Next]_vars

-----------------------------------------------------------------------------
(* Properties *)

RingOK(ring) ==
    /\ ring \in [Slots -> SUBSET Entries]
    /\ \A i \in Slots : \A a, b \in ring[i] : a = b
    /\ \A i \in Slots : \A e \in ring[i] : SlotOf(e.tick) = i

\* Types: one entry per slot, in its own slot, ticks in range, and a handler that emits never
\* enters the drain loop.
TypeOK ==
    /\ RingOK(local) /\ RingOK(peer)
    /\ valid \in BOOLEAN /\ through \in Ticks /\ sim \in Ticks
    /\ pc \in {"idle", "advance", "drain", "heal", "check"}
    /\ emitting \in BOOLEAN
    /\ pc \in {"idle", "drain"} => ~emitting
    /\ forkTick \in Ticks /\ forkFirst \in Ticks /\ forkLast \in Ticks
    /\ from \in 0..(LastTick + 1)
    /\ agreed \subseteq Ticks
    /\ seen \subseteq [fork : Ticks, since : Ticks]

Forked(t) == \E d \in LocalAt(t), e \in PeerAt(t) : d # e

\* Since it was last placed by a prime, a reset or a heal, the watermark has
\* only passed ticks whose local digest and peer digest stood in the rings
\* together and were equal: a slot reused by another tick never confirms one
\* (try_advance, local_at and peer_at).
ConfirmedWereMatched == \A t \in Ticks : t >= from /\ ConfirmThrough(t) => t \in agreed

\* Outside try_advance the watermark is as far as the rings allow: whatever the
\* order in which digests and commits arrived, and wherever a heal has moved
\* it, the next tick is not a known match.
WatermarkMaximal == pc # "advance" /\ HasNext => ~Matched(NextTick)

Unstuck ==
    valid /\ HasNext /\ LocalAt(NextTick) = {} /\ PeerAt(NextTick) = {}
        => \/ \A t \in Ticks : t > through => ~Matched(t)
           \/ \E t \in Ticks : t > through /\ Forked(t)

\* Between two handlers the watermark is never stuck behind matches: if the next
\* tick has left both rings and no fork is visible, no match is visible either
\* (the trailing netplay_hc_heal_stale_gap of both handlers).
NeverStuckBehindMatches == pc = "idle" => Unstuck

\* As long as the rings are kept, no step of any handler moves the watermark
\* across a tick whose two digests are both known and differ.
NeverCrossesVisibleFork ==
    [][ valid /\ valid' /\ UNCHANGED rings =>
        \A t \in Ticks : through < t /\ t <= through' => ~Forked(t) ]_vars

\* Only a prime or a reset, which empty the rings, take back a confirmation.
OnlyPrimeTakesBack ==
    [][ \/ \A t \in Ticks : ConfirmThrough(t) => ConfirmThrough(t)'
        \/ \A i \in Slots : local'[i] = {} /\ peer'[i] = {} ]_vars

\* A recovery episode opens only for a fork that every look at the rings, for at
\* least PersistTicks ticks, has found at the same tick: a fork that went away in
\* between, or was primed away, starts a new count.  The last tick is left out:
\* it is also the mark for "no fork".
RecoveryOfPersistentFork ==
    [][ ForkRecovery /\ NextTick # LastTick =>
        \E s \in seen : s.fork = NextTick /\ sim - s.since >= PersistTicks ]_vars
=============================================================================
