----------------------------- MODULE LiveRealign -----------------------------
(***************************************************************************)
(* Snapshots and Live realigns of one rollback peer outside its own        *)
(* episodes: psx_netplay_rb.c (the dense window, the save request, the     *)
(* poll, the realign a peer's ABORT queues, its application), driven by    *)
(* the vblank of psx_netplay.c and main.cpp.                               *)
(*                                                                         *)
(* All of it runs on the emulation thread.  `at' is where that thread is:  *)
(* parked in the admit wait, in the guest, or at one of the stages of      *)
(* psx_netplay_finish_frame.  Pumps run while parked, from the cycle       *)
(* watchdog inside the guest, and in finish_frame, so an ABORT is handled  *)
(* at each of them.                                                        *)
(*                                                                         *)
(* A machine state is a timeline number and the frames run since boot.     *)
(* Every realign starts a timeline.  `past' is a history variable: the     *)
(* machine state at the end of each tick of the current timeline.  `lost'  *)
(* records that the load of a realign failed: the snapshot was not there,  *)
(* or boot_state_load_buffer ran out of memory half way through it.        *)
(*                                                                         *)
(* Not modelled: this peer's own episodes and what belongs to them (pins,  *)
(* TipHold, sealed replay snapshots, media keyframes; but the cap a failed *)
(* one leaves on the choice of a snapshot is), a snapshot whose buffer     *)
(* cannot be allocated, and the way out of a load that finds no pc to      *)
(* resume at: a snapshot is saved with a pc that passes the same test.     *)
(***************************************************************************)
EXTENDS SnapRing, Sequences

CONSTANTS
    Interval,       \* snap_interval(), 16
    MediaInterval,  \* fmv_media_snap_interval(), 4
    Window,         \* tip_dense_window(), 8
    MaxTick,        \* bound: the last tick simulated
    MaxRealigns     \* bound: realigns applied or failed

ASSUME SnapAssumption ==
    /\ Interval \in Nat \ {0}
    /\ MediaInterval \in Nat \ {0}
    /\ Window \in Nat
    /\ MaxTick \in Nat
    /\ MaxRealigns \in Nat

VARIABLES
    ring,       \* g_snaps
    fifo,       \* g_tip_dense_fifo, oldest first
    save,       \* g_pending_save_tick, empty when not valid
    load,       \* g_pending_load_tick, empty when not valid
    live,       \* g_live_realign_pending
    agreed,     \* g_agreed_valid, g_agreed_span_lo, g_agreed_through
    sim,        \* the session's simulation tick
    at,         \* "parked", "guest", "pump", "save" or "apply"
    finishing,  \* the poll is the one of finish_frame
    done,       \* the tick finish_frame finishes
    counted,    \* needs_advance: this guest frame is an admitted tick
    resume,     \* g_pending_resume_valid
    known,      \* a dispatchable pc has been found before (g_last_good_bb_pc)
    machine,    \* the guest machine
    line,       \* the current timeline
    past,       \* history: the machine at the end of each tick
    lost        \* history: the load of a realign failed

vars == <<ring, fifo, save, load, live, agreed, sim, at, finishing, done,
          counted, resume, known, machine, line, past, lost>>

Ticks == 0 .. MaxTick
States == [line : Nat, pos : Nat]
Nothing == [line |-> 0, pos |-> 0]

Init ==
    /\ ring = EmptyRing
    /\ fifo = <<>>
    /\ save = {}
    /\ load = {}
    /\ live = FALSE
    /\ agreed = [valid |-> FALSE, lo |-> 0, through |-> 0]
    /\ sim = 0
    /\ at = "parked"
    /\ finishing = FALSE
    /\ done = 0
    /\ counted = FALSE
    /\ resume = FALSE
    /\ known = FALSE
    /\ machine = Nothing
    /\ line = 0
    /\ past = [t \in Ticks |-> Nothing]
    /\ lost = FALSE

-----------------------------------------------------------------------------
(* Realigns *)

\* realign_invalidate_evidence, the part about the agreed watermark.
ClampAgreed(a, t) ==
    IF a.valid /\ a.through > t
    THEN [valid |-> TRUE, lo |-> IF a.lo > t THEN t ELSE a.lo, through |-> t]
    ELSE a

\* schedule_live_realign, for a tick the ring holds.
ScheduleLiveRealign(t, a) ==
    /\ load' = {t}
    /\ live' = TRUE
    /\ resume' = FALSE
    /\ agreed' = ClampAgreed(a, t)
    /\ ring' = DropAfter(ring, t)
    /\ sim' = t + 1

\* The nearest snapshot at or below a tick that is the one on the wire, or
\* less where an episode of this peer's own has failed (g_bl_fork_cap).
Nearest(t, wire) ==
    \E cap \in 1 .. wire :
        /\ t <= cap
        /\ Has(ring, t)
        /\ \A u \in HeldTicks(ring) : u <= cap => u <= t

\* honor_peer_abort_realign, idle: this peer has agreed past the tick.
HonorRollback(t, wire) ==
    /\ agreed.valid
    /\ agreed.through > wire
    /\ ScheduleLiveRealign(t, [valid |-> TRUE, lo |-> t, through |-> wire])

\* ... and its Live play has gone past the snapshot.
HonorLiveAhead(t, wire) ==
    /\ ~(agreed.valid /\ agreed.through > wire)
    /\ sim > t + 1
    /\ ScheduleLiveRealign(t, agreed)

\* An ABORT taken by a pump.
PeerAbort(wire) ==
    /\ at \in {"parked", "guest", "pump"}
    /\ line < MaxRealigns
    /\ \E t \in Ticks :
          /\ Nearest(t, wire)
          /\ HonorRollback(t, wire) \/ HonorLiveAhead(t, wire)
    /\ UNCHANGED <<fifo, save, at, finishing, done, counted, known, machine,
                   line, past, lost>>

\* The timeline after t is abandoned.
Forget(t) == [u \in Ticks |-> IF u > t THEN Nothing ELSE past[u]]

\* The machine becomes the snapshot; the request is done.
Replace(t) ==
    /\ machine' = Load(ring, t)
    /\ line' = line + 1
    /\ past' = Forget(t)
    /\ load' = {}
    /\ live' = FALSE

\* MUTANT of Restore: the evidence is clamped only when the realign is queued.
RestoreUnclamped(t) == Replace(t) /\ UNCHANGED <<ring, agreed>>

\* try_apply_pending_load, the snapshot loaded for a realign.
Restore(t) ==
    /\ Replace(t)
    /\ ring' = DropAfter(ring, t)
    /\ agreed' = ClampAgreed(agreed, t)

\* ... the load failed.  Of a snapshot that is there a part has been applied
\* by then: the machine is of no timeline.
LoadFails(t) ==
    /\ machine' = IF Has(ring, t) THEN Nothing ELSE machine
    /\ line' = line + 1
    /\ live' = FALSE
    /\ lost' = TRUE
    /\ UNCHANGED <<ring, agreed, past, resume>>

-----------------------------------------------------------------------------
(* The vblank *)

\* poll_admit with nothing pending.
Admit ==
    /\ at = "parked"
    /\ load = {} /\ ~resume
    /\ sim <= MaxTick
    /\ at' = "guest"
    /\ counted' = TRUE
    /\ UNCHANGED <<ring, fifo, save, load, live, agreed, sim, finishing, done,
                   resume, known, machine, line, past, lost>>

\* flush_resume after a realign applied in finish_frame: the guest runs on
\* from the snapshot, and poll_admit has not admitted a tick.
FlushResume ==
    /\ at = "parked"
    /\ resume
    /\ at' = "guest"
    /\ resume' = FALSE
    /\ UNCHANGED <<ring, fifo, save, load, live, agreed, sim, finishing, done,
                   counted, known, machine, line, past, lost>>

NextState == [line |-> line, pos |-> machine.pos + 1]

\* The guest's frame ends; finish_frame starts.
EndFrame ==
    /\ at = "guest"
    /\ counted
    /\ machine' = NextState
    /\ past' = [past EXCEPT ![sim] = NextState]
    /\ done' = sim
    /\ finishing' = TRUE
    /\ at' = "pump"
    /\ UNCHANGED <<ring, fifo, save, load, live, agreed, sim, counted, resume,
                   known, line, lost>>

\* finish_frame returns at once when no tick was admitted.
EndUncounted ==
    /\ at = "guest"
    /\ ~counted
    /\ machine' = NextState
    /\ at' = "parked"
    /\ UNCHANGED <<ring, fifo, save, load, live, agreed, sim, finishing, done,
                   counted, resume, known, line, past, lost>>

\* MUTANT of Protected: a dense snapshot is dropped although it is agreed.
ProtectedNever(t) == FALSE

\* What tip_dense_push keeps although it left the window.
Protected(t) == agreed.valid /\ agreed.lo <= t /\ t <= agreed.through

\* MUTANT of TipDensePush: nothing leaves the window.
TipDensePushOnly(t) == fifo' = Append(fifo, t) /\ UNCHANGED ring

\* tip_dense_push.
TipDensePush(t) ==
    IF Len(fifo) < Window
    THEN fifo' = Append(fifo, t) /\ UNCHANGED ring
    ELSE /\ fifo' = Append(Tail(fifo), t)
         /\ ring' = IF Protected(Head(fifo)) THEN ring
                    ELSE DropTick(ring, Head(fifo))

\* psx_netplay_rb_request_snap in Live play.
RequestTip ==
    IF done % Interval = 0
    THEN save' = {done} /\ UNCHANGED <<ring, fifo>>
    ELSE IF Window = 0
    THEN UNCHANGED <<ring, fifo, save>>
    ELSE save' = {done} /\ TipDensePush(done)

\* ... while a movie plays.
RequestMedia ==
    /\ save' = IF done % MediaInterval = 0 THEN {done} ELSE save
    /\ UNCHANGED <<ring, fifo>>

\* ... and just after one, every tick.
RequestEvery ==
    /\ save' = {done}
    /\ UNCHANGED <<ring, fifo>>

RequestSnap ==
    /\ at = "pump"
    /\ RequestTip \/ RequestMedia \/ RequestEvery
    /\ at' = "save"
    /\ UNCHANGED <<load, live, agreed, sim, finishing, done, counted, resume,
                   known, machine, line, past, lost>>

\* A poll at a basic-block edge of the guest.
PollSnap ==
    /\ at = "guest"
    /\ save # {} \/ live
    /\ at' = "save"
    /\ finishing' = FALSE
    /\ UNCHANGED <<ring, fifo, save, load, live, agreed, sim, done, counted,
                   resume, known, machine, line, past, lost>>

\* psx_netplay_rb_poll, first half: a save whose tick has passed is dropped,
\* any other is made as soon as a pc to resume at is known.
PollSave ==
    /\ at = "save"
    /\ at' = "apply"
    /\ \/ /\ save = {}
          /\ UNCHANGED <<ring, save, known>>
       \/ \E t \in save :
             /\ sim > t
             /\ save' = {}
             /\ UNCHANGED <<ring, known>>
       \/ \E t \in save :
             /\ sim <= t
             /\ ring' = Store(ring, t, machine)
             /\ save' = {}
             /\ known' = TRUE
       \/ /\ \E t \in save : sim <= t
          /\ ~known
          /\ UNCHANGED <<ring, save, known>>
    /\ UNCHANGED <<fifo, load, live, agreed, sim, finishing, done, counted,
                   resume, machine, line, past, lost>>

\* The rest of finish_frame, or the return to the guest.
LeavePoll ==
    IF finishing
    THEN /\ at' = "parked"
         /\ finishing' = FALSE
         /\ done' = 0
         /\ counted' = FALSE
         /\ sim' = sim + 1
    ELSE /\ at' = "guest"
         /\ UNCHANGED <<finishing, done, counted, sim>>

\* psx_netplay_rb_poll, second half.  At a block edge the resume follows at
\* once, in finish_frame it waits for the admit loop.
PollApply ==
    /\ at = "apply"
    /\ \/ /\ ~live
          /\ UNCHANGED <<ring, load, live, agreed, machine, line, past, resume, lost>>
       \/ /\ live
          /\ \E t \in load : Has(ring, t) /\ Restore(t)
          /\ resume' = finishing
          /\ UNCHANGED lost
       \/ /\ live
          /\ \E t \in load : LoadFails(t)
          /\ UNCHANGED load
    /\ LeavePoll
    /\ UNCHANGED <<fifo, save, known>>

\* try_admit while parked: load and resume, the frame that runs is not
\* admitted.
AdmitApply ==
    /\ at = "parked"
    /\ live
    /\ \E t \in load : Has(ring, t) /\ Restore(t)
    /\ at' = "guest"
    /\ UNCHANGED <<fifo, save, sim, finishing, done, counted, resume, known,
                   lost>>

\* ... the load fails, and stays pending.
AdmitFail ==
    /\ at = "parked"
    /\ live
    /\ \E t \in load : LoadFails(t)
    /\ UNCHANGED <<fifo, save, load, sim, at, finishing, done, counted, known>>

\* try_admit with a load that has failed: it is tried again, no longer as a
\* realign, so nothing is clamped.
AdmitRetry ==
    /\ at = "parked"
    /\ ~live
    /\ \E t \in load : Has(ring, t) /\ Replace(t)
    /\ at' = "guest"
    /\ UNCHANGED <<ring, fifo, save, agreed, sim, finishing, done, counted,
                   resume, known, lost>>

\* ... and when it fails again, abort_episode clears it.
AdmitGiveUp ==
    /\ at = "parked"
    /\ ~live
    /\ \E t \in load : LoadFails(t)
    /\ load' = {}
    /\ UNCHANGED <<fifo, save, sim, at, finishing, done, counted, known>>

RaiseTo(t) ==
    /\ at \in {"parked", "guest", "pump"}
    /\ t % Interval = 0
    /\ agreed' = [valid |-> TRUE, lo |-> t, through |-> t]
    /\ UNCHANGED <<ring, fifo, save, load, live, sim, at, finishing, done,
                   counted, resume, known, machine, line, past, lost>>

\* advance_agreed_watermark_from_hc: up to a held interval tick the hash
\* exchange has confirmed, never while a load is pending.
AdvanceAgreed ==
    /\ agreed.valid
    /\ load = {} /\ ~resume
    /\ \E t \in HeldTicks(ring) : t > agreed.through /\ RaiseTo(t)

\* heal_agreed_watermark_if_aged_out, called when the peer opens an episode:
\* nothing at or below the watermark is held any more.
HealAgreed ==
    /\ agreed.valid
    /\ \A u \in HeldTicks(ring) : u > agreed.through
    /\ \E t \in HeldTicks(ring) : RaiseTo(t)

\* ... or there is no watermark yet: the newest interval tick.
BootstrapAgreed ==
    /\ ~agreed.valid
    /\ \E t \in HeldTicks(ring) :
          /\ \A u \in HeldTicks(ring) : u > t => u % Interval # 0
          /\ RaiseTo(t)

\* The bound on ticks is reached.
AtBound ==
    /\ at = "parked"
    /\ load = {} /\ ~resume
    /\ sim > MaxTick
    /\ UNCHANGED vars

Next ==
    \/ \E wire \in 1 .. MaxTick : PeerAbort(wire)
    \/ Admit \/ FlushResume \/ EndFrame \/ EndUncounted
    \/ RequestSnap \/ PollSnap \/ PollSave \/ PollApply
    \/ AdmitApply \/ AdmitFail \/ AdmitRetry \/ AdmitGiveUp
    \/ AdvanceAgreed \/ HealAgreed \/ BootstrapAgreed
    \/ AtBound

Spec == Init /\ [][Next]_vars
-----------------------------------------------------------------------------
(* Properties *)

Ring == [slots : [Slots -> [valid : BOOLEAN, tick : Ticks, data : States \union {Null}]],
         count : 0 .. Depth, head : Slots]

(***************************************************************************)
(* Every variable has its type: the ring's count and write position are in *)
(* range, the dense window is never larger than its size, at most one save *)
(* and one load are pending, and no tick past the last is simulated.       *)
(***************************************************************************)
TypeOK ==
    /\ ring \in Ring
    /\ fifo \in Seq(Ticks) /\ Len(fifo) <= Window
    /\ save \in {{}} \union {{t} : t \in Ticks}
    /\ load \in {{}} \union {{t} : t \in Ticks}
    /\ live \in BOOLEAN
    /\ agreed \in [valid : BOOLEAN, lo : Ticks, through : Ticks]
    /\ sim \in 0 .. MaxTick + 1
    /\ at \in {"parked", "guest", "pump", "save", "apply"}
    /\ finishing \in BOOLEAN
    /\ done \in Ticks
    /\ counted \in BOOLEAN
    /\ resume \in BOOLEAN
    /\ known \in BOOLEAN
    /\ machine \in States
    /\ line \in Nat
    /\ past \in [Ticks -> States]
    /\ lost \in BOOLEAN

(***************************************************************************)
(* netplay_snap_ring.c.  In every state the rollback engine brings the     *)
(* ring to, store, drop_tick and drop_after act as on a bounded map from   *)
(* ticks to snapshots: a tick is held once, a store touches no other tick  *)
(* unless the ring is full, and then gives up the lowest one only.         *)
(***************************************************************************)
RingActsAsMap == ActsAsMap(ring, Ticks, {machine})

(***************************************************************************)
(* realign_invalidate_evidence.  With no realign outstanding, and as long  *)
(* as none failed to load, every snapshot in the ring is of a tick before  *)
(* the clock and is the state this timeline had at that tick: nothing of   *)
(* an abandoned timeline, saved before or after the realign was queued,    *)
(* can be loaded later.                                                    *)
(***************************************************************************)
SnapsAreTrue ==
    (load = {} /\ ~lost /\ at \in {"parked", "guest"}) =>
        \A t \in HeldTicks(ring) : t < sim /\ Load(ring, t) = past[t]

(***************************************************************************)
(* tip_dense_push and heal_agreed_watermark_if_aged_out.  The snapshot of  *)
(* the agreed watermark is in the ring unless it has aged out, and then    *)
(* everything held is newer, which is what the heal tests for.  The        *)
(* snapshot a pending realign will load is in the ring when its tick is in *)
(* the agreed span: the save of the frame in which the realign was queued  *)
(* neither drops it from the dense window nor evicts it.                   *)
(***************************************************************************)
AgreedIsHeld ==
    /\ agreed.valid =>
          \/ Has(ring, agreed.through)
          \/ \A t \in HeldTicks(ring) : t > agreed.through
    /\ live /\ agreed.valid =>
          \A t \in load : agreed.lo <= t /\ t <= agreed.through => Has(ring, t)

(***************************************************************************)
(* schedule_live_realign: "Snap is post-tick state; continue Live at       *)
(* tick+1".  While the guest runs an admitted tick, with no realign        *)
(* outstanding and none that failed to load, it has completed exactly the  *)
(* frames of the ticks before it.                                          *)
(***************************************************************************)
ClockCountsFrames ==
    (at = "guest" /\ counted /\ load = {} /\ ~lost) => machine.pos = sim
==============================================================================
