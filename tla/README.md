# Verification of the Tekken 3 recompilation runtime

Tekken3Recompiled runs a PlayStation game from C generated by a static
recompiler. Code the game loads at run time (overlays) is not known to the
recompiler: it is interpreted, the evidence of what was interpreted is captured,
a compiler runs in the background and the resulting native shards are mapped
into the running process. Two players may play over the network with rollback.

This directory holds TLA+ modules for the parts of that runtime where several
actors share state, the TLC configurations that check them on small instances,
and TLAPS proofs of their main properties for every value of the constants.
All paths below are relative to `src/`; `runtime/` stands for
`psxrecomp/runtime/src/`.

## 1. Inventory

### Parts, their state and how they meet

```
 interpreter / stores / DMA ──evidence──▶ overlay capture ──request──▶ autocompile
          ▲                               (snapshots, manifest)   (child, watcher, preparer)
          │                                        ▲                        │
          └───────────── overlay loader ◀── prepare / commit ───────────────┘

 simulation ──digest per tick──▶ hash confirm ◀──FRAME_COMMIT── network
     │                               │ ▲                           │
     │ end of frame   watermark, fork│ │prime                      │ probes, transfers
     ▼                               ▼ │                           ▼
 snapshot ring ◀──save, load── rollback engine            state sync ◀──▶ save states
                                     ▲ ABORT of the peer       │
                                     └──────── network         ▼
                                                         memory cards (sandbox)
```

| Part | State | Operations | Modelled |
|---|---|---|---|
| Autocompile, `runtime/autocompile.c` | run state, child and pipe, raw and ready publication queues under `s_out_lock`, failure count and retry time, degraded reason | request, poll, shutdown (emulation thread); pipe watcher; preparer | `Autocompile` |
| Overlay capture, `runtime/overlay_capture.c` | execution bitmaps, DMA transfer, periodic job, preserve FIFO, manifest and history files, request signature | store and DMA hooks, tick, worker, preserver, shutdown | `OverlayCapture` (partly) |
| Hash confirm, `runtime/netplay_hash_confirm.c` and its callers in `psx_netplay.c` | local and peer digest rings, watermark, fork timers | note, advance, heal, look for a fork, recover, prime, reset | `HashConfirm` |
| State sync, `psx_netplay.c` with the staging of `savestate.c` | exchange phase of each peer, probe, transfer, staged save and load, slot file | card sync, coordinated save, coordinated load, load barrier | `StateSync` |
| Memory cards, `memcard.c`, the card half of `sio.c`, the guest sandbox of `psx_netplay.c` | card buffer, dirty mark, bound path, two files | boot, format, sector write, flush, import, rebind, reload, exit | `MemoryCard` |
| Snapshot ring, `netplay_snap_ring.c` | slots, count, write position | store, find, drop, drop after | `SnapRing` |
| Rollback engine in Live play, `psx_netplay_rb.c` | dense window, pending save and load, agreed watermark, resume | request a snapshot, poll, honour an ABORT, apply, raise or heal the watermark | `LiveRealign` (partly) |
| Rollback episodes, input history | sealed replay, predicted and wire inputs of two peers | episode messages, promotion | no, section 7 |
| Netplay session, lobby | admission, delay, sockets | in the `recomp-net` submodule, absent from the tree | only what the parts above use |
| Overlay loader, `overlay_loader.c` | mapped images, validation cache | prepare, commit, dispatch | only as two steps of `Autocompile` |
| Interpreter, CPU, memory | guest RAM, dirty pages | instruction semantics | only the evidence it leaves |
| Shard compiler, `tools/compile_overlays.py` | cache directory | reads the manifest, runs gcc, prints lines | only what it reads and prints |
| CD-ROM, DMA, IRQ, timers | device registers, queues | cycle-driven | CD DMA chunks only |
| GPU, SPU, MDEC, GTE; recompiler | data paths, batch translation | arithmetic | no: out of TLC's reach |
| Frame pacing, mod packages, Tekken 3 mods, launcher | clocks, package set, roster, setup steps | sequential | no |
| Main program, debug server, recomp-ui, native port | window, settings, diagnostics | pure I/O | only the order of `shutdown_runtime` and of the vblank |

The exact list, with the reason for each part left out, is `components` in
`PROJECT.json`.

### What is hard, and what correctness means

* **Autocompile.** Four actors (emulation thread, compiler process tree, pipe
  watcher, preparer), one lock, one condition variable on which the preparer
  sleeps in two different loops, and flags read outside the lock. Correct means: the loader is never entered by
  two threads, at most one image is in the handoff, a run that counts as a
  success committed everything the watcher saw published in order, a stop lets at
  most one more image be mapped, and nobody sleeps for ever. That a second compiler
  never writes the cache beside the first is meant too, and fails where the system
  gives no job object (section 6).
* **Overlay capture.** Evidence bits are set by executed code and must be
  cleared when the bytes under them change, while guest code runs between the
  chunks of one DMA transfer. Snapshots are written by up to three threads, may
  fail, and are retried out of order. Correct means: a snapshot never binds
  evidence to bytes that did not run, no evidence vanishes without a report, an
  older snapshot never replaces a newer manifest, what was written is offered to
  the compiler until it is accepted, and shutdown ends on a full disk.
* **Hash confirm.** Digests of the two peers arrive in either order, late, lost
  or repeated, into rings that overwrite themselves. Correct means: the
  watermark passes only ticks that matched, goes as far as it can, never crosses
  a visible fork, is taken back only by a prime, and never gets stuck.
* **State sync.** Two peers at different frames agree on a card, write a state at
  one tick, or restore one; every handler runs in the pump, which also runs in
  the middle of frames, and any save, restore or write may fail. Correct means:
  in play both machines stem from the same state, each clock counts the frames
  of its machine, nobody resumes before the other has restored, and every
  exchange ends.
* **Memory cards.** A flush rewrites the file in place, may fail or be cut off,
  and the game is told Good either way; a netplay guest plays on the host's card
  in the same buffer. Correct means: a clean card is its file, acknowledged
  sectors survive, the match never touches the personal file.
* **Snapshots and Live realigns.** A ring with holes, a window that drops dense
  snapshots, a watermark whose snapshot must be kept, and a clock that is set
  when a realign is queued while the machine is set when it is applied. Correct
  means: the ring is a map, it holds nothing of an abandoned timeline, and the
  agreed snapshot is there until it ages out.

Every such danger is listed under `hazards` in `PROJECT.json`, at its line, with
the properties that would notice it, or with the reason why none does yet.

## 2. Modules

| Module | Content |
|---|---|
| `PublicationQueue` | what Autocompile promises: publications of one run are committed in order, lost ones are counted, a run settles as a success only if nothing was lost |
| `PublicationQueueProofs` | theorems about `PublicationQueue`, which `Autocompile` inherits |
| `Autocompile` | the detailed specification, with the refinement mapping to `PublicationQueue` |
| `AutocompileProofs` | theorems about `Autocompile` |
| `OverlayCapture`, `OverlayCaptureProofs` | capture, writers and requests; theorems |
| `HashConfirm`, `HashConfirmProofs` | digest rings and watermark; theorems |
| `StateSync`, `StateSyncProofs` | card sync, coordinated save and load of two peers; theorems |
| `MemoryCard`, `MemoryCardProofs` | one card over boots, matches, failures and crashes; theorems |
| `SnapRing`, `SnapRingProofs` | the ring as operators and the bounded map it is to be; that it is one |
| `LiveRealign`, `LiveRealignProofs` | the rollback engine in Live play on top of `SnapRing`; theorems |
| `MC*` | the symmetry sets and instances of the TLC runs, where there are any |

Definitions whose comment says *Mutant* are not part of the model. Each is a
plausible bug in the definition below it, and replacing the definition by it must
make a property fail; `mutants` in `PROJECT.json` pairs them up.

### Autocompile

A critical section under `s_out_lock` is one action, because every other access
to the same state takes the lock. Where the code leaves the lock and comes back
(mapping an image, committing it, reading the stop flag before storing DONE) the
model has a program point: `epc`, `wpc` and `ppc` for the three threads, `tree`
for the process tree. A sleep on `s_publish_cv` is a program point too, so a
missing wake shows as a thread that stays there; a wake returns to the loop it
was slept in, as in the code, and spurious wakes are steps.

| Code | Actions |
|---|---|
| `autocompile_configure` and the request path | `Configure`, `RequestNoPipe`, `RequestNoProcess`, `RequestCancelled`, `RequestStart`, `StartWatcher`, `FailWatcher`, `CancelJoined` |
| compiler process tree (environment) | `ChildPrint`, `ChildExit`, `StrayExit` |
| pipe watcher thread | `WatchRead`, `WatchEof`, `WatchDone` |
| preparer thread | `Prepare...` |
| `autocompile_poll` | `PollPop`, `PollCommit`, `PollDone`, `PollFinish` |
| `autocompile_shutdown` | `Shutdown`, `ShutdownJoinPreparer`, `ShutdownFinish` |
| clock against the retry time | `Tick` |

Lines of the compiler are kinds (`LineKinds`): published, result, failed,
overlong, a result not at the start of its line, a publication the watcher cannot
see (its marker swallowed by the line before, or its path empty), a flood that
pushes earlier markers out of the diagnostic ring, bytes without a newline. A
publication is its number among those the watcher recognises; one it cannot see is
lost without a count, and no property can speak of it (section 6). After a failed
mapping the preparer reads the stop flag, leaves the lock, sleeps 100 ms and only
then maps again (`PrepareRetry`, `PrepareAgain`); stop may fall in between, and the
history variable `late` counts the mappings begun after it. Status JSON and console
text are left out. The model is of the Windows build: the other one has no compiler.

### OverlayCapture

Guest memory is a page-to-content function; an item of evidence is a page with
the content that was executed there. A snapshot is the set of its items, which
also stands for its FNV signature (taken to be free of collisions). The hooks
`Execute`, `Store`, `DmaBegin`, `DmaWords`, `DmaEnd` are the guest and the CD DMA
channel; `TickFire...TickRequest` are the branches of the periodic tick;
`WorkerWrites` (`WorkerCommits`, `WorkerDone`) is the detached worker; `Preserve...`
the preserver thread. A commit of these two takes two steps: `EnterCommit` takes
`s_commit_mutex` and tests the sequence number, `LeaveCommit` replaces the manifest
or fails to. Where the mutex could not be created (`mutex`) both may be inside. A
commit of the emulation thread itself (`WriteAndCommit`) is one step.
`ProviderDone` is the end of a compile run; `Quit`, `AutocaptureShutdown`,
`WaitPending`, `PreserverJoined`, `FinalWrite` are the steps of `shutdown_runtime`.
Any write may fail, and where `Resources` contains FALSE so may threads, the mutex and
allocations. Ghost variables record what was executed, given up explicitly,
freed unwritten (`released`), left out of the history by a final write whose result
nobody reads (`unsaved`), and asked for.

Left out: the frame counters that only delay a tick (every tick may fire), the
`cdrom_load_in_progress` gate (it answers 0 while audio streams, so it excludes
nothing), backward DMA, the opt-in addendum journal and the DMA image table.

### HashConfirm

All code runs on the emulation thread, so the interleaving is that of handlers
and network deliveries. A handler is a sequence of actions joined by `pc`: note a
digest, run the loop of `try_advance`, heal, look for a fork. A ring slot is a
set of at most one entry and keeps the tick it holds, because a slot may belong
to another tick than the one asked for. `DrainEnd` heals and looks for a fork
even if the queue it drained was empty. `NotePeer` takes any tick and digest:
that covers loss, delay, repetition and a peer that simulated a tick again. The
rollback engine is the environment that primes the watermark (`PrimeAfter`,
`AbandonTipExtend`, `Reset`). `LastTick` is 0xffffffff, which is both the last
tick and the code's mark for "no fork".

The header describes confirmation as contiguous from the last prime. The code
also lets a heal jump over ticks whose digests have left the rings, so the
property checked, `ConfirmedWereMatched`, counts from the last prime, reset or
heal (ghost `from`).

### StateSync

Two peers, `host` and `guest`, each either at the barrier (`psx_netplay_poll_admit`)
or in a frame. `np` is the exchange part of `g_np`, `ss` the statics of
`savestate.c` with the slot file, `vm` the machine and its clock, `net` what
recomp-net holds. Every handler of `np_pump_session` is an action of its own
because the cycle watchdog pumps in the middle of frames.

| Code | Actions |
|---|---|
| `np_guest_handle_probe` | `GuestReady`, `GuestCoordArm`, `GuestCoordFailed`, `GuestCoordAck`, `GuestCard`, `GuestHashSave`, `GuestHashLoad` |
| transfers | `GuestTakesCard`, `GuestTakesSave`, `GuestTakesLoad`, `GuestDropsLoad`, `HostTransferDone` |
| `np_host_drive_xfer` | `HostCardProbed`, `HostCoordAbort`, `HostCoordDone`, `HostSaveProbed`, `HostSaveUnprobed`, `HostLoadProbed`, `HostSendsNothing`, `HostReady` |
| load barrier | `LoadBarrierDone`, `NoReadyProbe`, `LoadBarrierFailed`, `AdmitApplying`, `AdmitReady` |
| `savestate_poll` | `SavePoll`, `LoadPoll`, `LoadPollFails` |
| player and match | `StartMcSync`, `McSyncSkipped`, `RequestSave`, `RequestLoad`, `Leave`, `SoftExit` |

A machine is the state it was restored from and the frames run since; a save
state is the sequence of moments at which its ancestors were written, so equal
files are equal machines. recomp-net is external. What is assumed of it, from how
`psx_netplay.c` uses it and from `psxrecomp/docs/internal/FAITHFUL_TIMING_PLAN.md`
(385-450): probes are repeated until answered and do not overtake a transfer the
guest has received and not taken; a hash probe or a transfer stalls delay-sync
admission, the coordination and ready probes do not; `hard_resync` sets the clock
to 0 and drops inputs of the old clock; `rnet_session_advance` adds one to it.
`Haste` says whether the player asks again before the guest is out of the last
exchange.

What can fail (`Faults`): the restore of a staged state ("load"), a write outside
the exchange's own saves ("write"), the coordinated save of either peer ("host_save",
"guest_save"), the start of a probe or transfer and the guest's blob for a received
state ("start"), and the ready probe at the end of the load barrier ("ready").
`request_load_inner` refuses a request when save states are not set up, the slot is
out of range or the program runs without the HLE scheduler (`savestate.c:490-499`).
These do not change in a match; the model is of a match in which none holds, so
`StagedLoad` always stages.

### MemoryCard

One slot; the two share nothing. A file is the sequence of its sectors, so a torn
file is a prefix. `Writes` gives every outcome of the in-place rewrite: complete,
cut off anywhere, or not opened. `Opens` says whether a file that is there may still
fail to open at boot, which the code takes for a missing one and formats
(`memcard.c:139-158`). `WriteSector` is the whole path of the card
protocol from the last byte of a write command to the flush. `EnterSandbox`,
`ImportRaw` and `Exit` follow `np_enter_guest_sandbox`, `memcard_import_raw` and
`shutdown_runtime`, the last with `np_leave_guest_sandbox` inside it. `acked` is
a ghost: the personal card as the game was last told it is.

### SnapRing and LiveRealign

`SnapRing` has one operator per function of `netplay_snap_ring.c`, from a ring to
the ring it leaves, and below them the bounded map a caller believes to have.
`ActsAsMap` relates the two, for the ring in hand and every operation on it.

`LiveRealign` is one peer outside its own episodes. Everything runs on the
emulation thread, and `at` says where that is: parked in the admit wait, in the
guest, or in `finish_frame` after its pump, its save or its load. An ABORT of the
peer is handled wherever a pump runs. A machine state is a timeline number and
the frames run since boot, so that a snapshot of an abandoned timeline differs
from one of the current timeline at the same tick. `past` (the machine at the end
of each tick) and `lost` (a realign failed to load) are history. `Nearest` takes the
newest snapshot not above some cap, which is the tick on the wire or less:
`tip_ok_for_realign` and `g_bl_fork_cap` may exclude newer ones. A load fails if its
snapshot is missing, or if memory runs out part way through
`boot_state_load_buffer`, which leaves a machine of no timeline (`Nothing`). The
search for a safe resume pc after a restore (`psx_netplay_rb.c:6178-6190`) is left
out: its checks depend on the pc alone, and a snapshot is only saved at a pc that
passes them.
`AtBound` is the stutter of a run whose ticks are used up.

| Code | Actions |
|---|---|
| `honor_peer_abort_realign`, `schedule_live_realign` | `PeerAbort` |
| `psx_netplay_poll_admit`, `psx_netplay_rb_try_admit` | `Admit`, `AdmitApply`, `AdmitFail`, `AdmitRetry`, `AdmitGiveUp`, `FlushResume` |
| `psx_netplay_finish_frame` | `EndFrame`, `EndUncounted`, `RequestSnap`, `PollSave`, `PollApply` |
| `psx_netplay_poll_snap` | `PollSnap`, then as above |
| agreed watermark | `AdvanceAgreed`, `HealAgreed`, `BootstrapAgreed` |

## 3. Runs

`tlc -config <cfg> <module>` in this directory runs any of them.

| Run | Checks |
|---|---|
| `autocompile` | with and without a job object: the safety properties of the four actors, refinement of `PublicationQueue`, and that runs complete and shutdown returns |
| `autocompile_no_job` | finding, section 6 |
| `capture_pages` | two pages, chunked DMA over both, one of them streaming: no hybrid snapshot, no lost evidence |
| `capture_writers` | one page, several snapshots: worker, FIFO, synchronous fallback, commits that overlap, retries, requests, and that shutdown returns although every write may fail |
| `capture_shutdown` | finding, section 6 |
| `hash_confirm` | all properties of rings, watermark and fork recovery |
| `state_sync` | both modes, cards equal, different or disabled, one failure of any of six kinds, hasty and patient players |
| `state_sync_live` | rollback mode without failures: exchanges end, and nobody stays alone in a match |
| `sync_retry` | finding, section 6 |
| `memory_card` | three sectors, every prefix, crashes at every step |
| `live_realign` | every place of the vblank where an ABORT may be handled, two realigns |
| `realign_clock` | finding, section 6 |

### Properties

Autocompile: `OneMappedHandoff` (with `LoaderExclusive` and `HandoffNeverWaits`:
the defensive wait before the handoff is dead code), `NoNullItem` (the pop after
the two wait loops never finds an empty list), `Quiescent` (IDLE or shut down
implies no thread, queue entry or mapped image of the old run), `NoSilentLoss` (a
successful run committed all the watcher saw published, in order), `OneMapAfterStop`
(after a stop the retry already being slept towards is the only mapping that still
begins), `ImplementsQueue`; liveness `RunCompletes`, `ShutdownCompletes`.

OverlayCapture: `NoHybrid`, `EvidenceConserved` (each executed item is live, held
by a job, durable, or was given up by a store or with a report; the two exceptions
are the job of the finding `capture_shutdown` and a failed final write, section 6),
`ManifestNewest` (while the commit mutex exists: the test of one writer is still
true when it replaces the file), `OfferedUntilAccepted`; liveness `ShutdownReturns`.

HashConfirm: `ConfirmedWereMatched`, `WatermarkMaximal`,
`NeverStuckBehindMatches`, `NeverCrossesVisibleFork`, `OnlyPrimeTakesBack`,
`RecoveryOfPersistentFork`.

StateSync: `SameMachine`, `ClockTracksMachine`, `NoEarlyResume`, `CardsAgree`,
`SaveSynced`, `RefusalIsNoSplit` (if something could not start, but nothing else
failed, the guest still only ever applies the host's state); liveness
`SyncCompletes`, `LeaveTogether`. `SameMachine` and `NoEarlyResume` except the
failed guest save of the finding `sync_retry`; those two and `ClockTracksMachine`
except runs in which a probe, transfer or blob could not start (section 6).

MemoryCard: `CleanIsOnDisk`, `AckedSurvives`, `PersonalUntouched`.

LiveRealign: `RingActsAsMap`, `SnapsAreTrue` (not after a realign failed to load),
`AgreedIsHeld` (the agreed snapshot is held or has aged out, and a pending realign
to an agreed tick finds its snapshot).

### Bounds and why they are enough

* `MaxLines` 3: two publications in the pipeline at once and a
  result line after them; `PipeCap` 1 makes the pipe full after every line.
  `ReadyLimit` 1 is the code's value. `PrepareAttempts` 2 instead of 3 has a
  retry and a give-up. `FailCap` and `LoudAfter` 1 instead of 31 and 3: the first
  failure sets the degraded mark, the second one saturates; `RetryInitial` and
  `RetryMax` 1 have one delay. Failures are counted between runs and say nothing
  to the threads of a run, so that more of them would only multiply the states.
  `Jobs` says whether a system may lack job objects; both occur. `PathFaults`
  (whether the checks of `autocompile_configure` find a broken path) is {FALSE}: they
  only set the degraded mark, as failures do. `autocompile_no_job` needs one line.
* `NumPages` 2 is the least with a DMA that crosses a page and a halo page; one
  page is enough for the writers, which never look at pages. There `MaxSeq` 2 and
  `MaxWrites` 2 allow an older snapshot to be committed, or retried, after a newer
  one; with two pages `MaxSeq` 1 and `MaxWrites` 3 let bytes change before, during
  and after a snapshot. The run of the finding needs one of each.
  `AbandonAfter` 2 instead of 5 keeps a failed attempt that is not the last.
* `Ring` 2 and ticks 0..3: every slot is overwritten, a gap of a whole ring is
  reached, matches exist above it. `PersistTicks` 1 < `Ring` 2 < retry gap 3
  keeps the order of the code's 16, 128 and 256; the second gap, 1, stands for
  32, below the ring. `Busy` says whether an episode, load or movie may be in
  flight.
* StateSync: `MaxOps` 2 is a save followed by a load of it, or two loads;
  `MaxTick` 4 reaches the target tick of a save (clock, delay and two) with the
  smallest `Delay`; one failure per match, of any of the six kinds. The slots start different or with the
  guest's empty.
* `Sectors` 3 instead of 1024: a torn file of no, one and two sectors.
* `Depth` 3 instead of 80 and `MaxTick` 4 (5 for the finding): the ring is filled, evicts, and has
  holes from the dense window and from realigns. `Window` 1 and `Interval` 3
  instead of 8 and 16 keep interval ticks out of the window's reach;
  `MediaInterval` 2 makes ticks that no window holds. `MaxRealigns` 2: a second
  ABORT while the first realign is pending, and one after it was applied.

Digests and page contents are symmetric; symmetry is not used in liveness runs.
Deadlock is checked in every run but those of `StateSync`: there the process
that has ended stutters in `Down` or in `AtBound`, while a match of `StateSync`
really may stop, after both peers have left, at the bounds, and in the waits that
section 6 observes; `SyncCompletes` is what rules out the other waits.

### Fairness

Only what scheduling guarantees. `Autocompile!Fairness`: the operating system
runs the watcher and the preparer, the compile command ends if its pipe has room (whether it
has is the watcher's doing), the main loop polls every frame. There is no fairness on requests, shutdown, spurious wakes or
the retry clock. `OverlayCapture!Fairness`: the two writer threads run, a compile
run ends, `shutdown_runtime` does not stop half way; no write need ever succeed. It
is strong for the two writers, which hand `s_commit_mutex` back and forth: a mutex
of the operating system does not pass over one waiter for ever.
`StateSync!Fairness`: recomp-net repeats what is not acknowledged, the pump runs
in every iteration of the admit loop and in frames, a frame ends. It is strong
for `Poll`: a frame offers a basic-block edge at which the staged state can be
written in every frame, but not throughout it. There is no fairness on requests
or on leaving. `HashConfirm`, `MemoryCard` and `LiveRealign` have none: all their
properties are safety.

## 4. Proofs

All theorems hold for every value of the constants allowed by the module's
`ASSUME`, which TLC evaluates in the runs.

**Autocompile** (`BoundsAssumption`, `RetryAssumption`, `JobsAssumption`). `IInv`
is inductive. The properties are not inductive alone: that
the loader is exclusive depends on the two in-flight counters agreeing with the
program points (`ThreadInv`, `CountInv`), and that a successful run is complete
depends on the numbering: while no fault is on record and no teardown has begun,
the committed publications, the one in flight and the raw list are numbered
through from 1 to the last one published (`OrderInv`). `LateInv` places the one
mapping a stop may still see: it is the retry whose sleep had begun, and after it the
preparer can only hand over, give up or leave. Theorems: `Invariance`,
`TypeCorrect`, `OneHandoff`, `PopIsSafe`, `Quiescence`,
`SuccessIsComplete`, `StopLeavesOneMapping`. They hold with and without job objects.

`QueueImplemented` is the refinement, `Spec => ImplementsQueue`: the publication
in the commit, the ready slot, the preparer's hands and the raw list are one
queue, oldest first. A read puts at its tail, a committed or given-up publication leaves
its head, a teardown discards what is left, a poll that finishes settles the run, and
every other step, the hand-overs and spurious wakes included, leaves the queue as it is
(`QueueKept`). That a commit or a loss takes the head is where `IInv` is needed: at
most one publication is outside the raw list (`OneInFlight`), so the one that
leaves is the oldest.

**PublicationQueue** has no constants. Its invariant `QInv` is that what was
committed and what is queued, put one after the other, is strictly increasing up
to the last number published (`Ordered`), and that without a fault or a teardown
nothing is missing from it (`Complete`). Theorems: `CommitsInOrder` and
`OkIsComplete`. The refinement carries them over: `AutocompileProofs` instantiates
the proofs with the refinement mapping, and `CommitOrder` is `CommitsInOrder` of the
threads. It says more than `NoSilentLoss`, which is about successful runs only: the
order also holds in runs that lose publications or are torn down.

**OverlayCapture** (`CaptureAssumption`). Type correctness carries that there is at
most one periodic job and one job in the preserver's hand. `NoHybrid` splits into
a part about live bits, one about jobs in memory and one about files: a write
that clears the bit of its page leaves the others bound to bytes that did not
change, and a snapshot is a part of the live evidence. `EvidenceConserved`
contains `CollectedIsDurable`, which makes it inductive: a worker that reports a
signature has put its items into the history, so its job may be freed.
`OfferedUntilAccepted` rests on `OfferInv`: the signature kept from the last
request is that of the last accepted one, so a request dropped as futile was
accepted before, and while a signature is retained there is no periodic job whose
snapshot it could displace. `ManifestNewest` rests on `CommitInv`: while the mutex
exists one writer is inside, so the manifest its test read is the one it replaces.
`ShutdownLosesTwoWays` completes the finding `capture_shutdown`: by `DrainInv` a
preserver that never ran or has ended has an empty queue and ends only in the join,
so after shutdown no snapshot is left in memory, and evidence is lost without a
report in two ways only: the job freed by `overlay_autocapture_shutdown`, and live
evidence the final write did not save. `ShutdownSavesAll` is the other side: if
nothing fails and capture was activated, everything interpreted and not dropped by a
store is in the history at the end. Theorems: `TypeCorrect`, `NeverHybrid`,
`NothingForgotten`, `ManifestMonotone`, `OfferIsKept`, `ShutdownLosesTwoWays`,
`ShutdownSavesAll`.

**HashConfirm** (`HashAssumption`). The invariant is `TypeOK` with four parts: what stands side by side
in the rings is recorded as evidence (`EvidenceKept`), `ConfirmedWereMatched`,
`WatermarkMaximal`, and `Settled`: after the heal of a handler the watermark is
not behind visible matches. A lemma classifies every step as one that clears the rings, one
that leaves rings and watermark alone, a note, an advance or a heal, so that each
part is shown once per kind. Theorems: `TypeCorrect`, `Invariance`,
`MatchedOnly`, `Maximal`, `NotStuck`, `NoForkCrossed`, `TakenBackByPrime`, and
`RecoveryNeedsPersistence`. The last has an invariant of its own, `CountInv`. The
clock of the session goes back when a prime reloads, so what was seen of a fork
may carry a later tick than the clock; but a prime empties both rings, and the
handler that notes the first digest after it still finds one of them empty
(`Restarting`), sees no fork and drops the count. Otherwise the recorded fork is one
the watermark has passed for good, or the one every look since has found.

**StateSync** (`SyncAssumption`). The two peers share nothing but the session, so
the invariant is told from the host: for each phase of its exchange, which probe
and which transfer are out (`HostInv`), and how far behind the guest can be: the
probe it sees, the transfer it has not taken, its own phase (`PhaseInv`). On top of
it: a restored machine runs no frame before its clock is restarted (`LoadInv`,
`ClockInv`); while the host loads, every state on its way to the guest, in a
probe, a transfer or staged, is the one in the host's slot (`TrackInv`); the guest
answers a coordinated save only after it wrote (`CoordInv`); hence whether both
machines stem from one state, and from which (`BaseInv`). `CoordInv`, `TrackInv`
and `BaseInv` stop at the failure of the finding `sync_retry`, `SaveInv` at any
failure, as the properties do; what a refused probe, transfer or blob leaves behind
is outside all of them but `HostInv`, `LoadInv` and `CardInv`, which hold in every run. Every action has a lemma that gives its effect
field by field, one for the types and one for the invariant. The admission guard
`PumpIdle` is stated with ENABLED and is opaque to the provers: the theorems hold
without it, that is, even if a peer runs a frame while its pump still has work.
Theorems: `Invariance`, `TypeCorrect`, `CardsAreAgreed`, `SameMachineInPlay`,
`ClockIsTracked`, `ResumeIsJoint`, `SaveIsShared`, and `FailedSaveSticks`: once the
host has given up a save it could not write, it is in no phase of the exchange while
its coordination probe is out (`Orphaned`). No handler of its pump applies in that
state, because `HostInv` leaves no transfer out, and no request is accepted, because
`np_xfer_busy` sees the probe; so it stays there as long as it stays in the match.

**MemoryCard** (`CardAssumption`). A flush changes only the file of the card and the dirty mark, and
clears the mark only if the file is then the buffer. `Sessions` adds what holds
between the calls: a card just opened is clean, and outside a match only a card
that is present waits to be written; without it the reload at the end of a match
could drop acknowledged sectors. Theorems: `Invariance`, `TypeCorrect`,
`CleanCards`, `AcknowledgedSurvive`, `SandboxIsolates`.

**SnapRing** (`DepthAssumption`). A ring is *sound* if no tick is held twice and the count is the
number of occupied slots. Each operation keeps it so and acts as the map
operation of its name: the first free slot from the write position exists
because the count is below the depth (a whole turn of the ring would otherwise be
occupied), the victim of an eviction is the slot of the lowest tick because no
tick is held twice. Theorem: `SoundActsAsMap`.

**LiveRealign** (`SnapAssumption`). `Stages` ties the flags to where the thread is, which bounds the
clock. `Truth` is the argument about timelines: while a load to tick `t` is
pending the clock is at `t + 1`, everything held up to `t` is of the current
timeline, and only the save of the frame in progress may lie beyond it, which the
second `realign_invalidate_evidence`, at application, removes; a save that had to
be put off waits for the first known pc, when the ring is still empty and no
ABORT can be honoured. Theorems: `Invariance`, `TypeCorrect`, `RingIsMap`,
`NoStaleSnapshot`, and `WatermarkIsHeld`, which has the further invariant
`MarkInv`. After a realign that failed to load the clock is behind snapshots of the abandoned
timeline, so a save may store a tick below the watermark; at most one tick the
clock has not passed is held (`OneAhead`), and with a second slot the eviction
that makes room takes an older one. `Depth > 1` is therefore a hypothesis: with a
ring of one slot TLC finds `AgreedIsHeld` violated after a lost realign. The code's
depth is 80.

`LoadInv` extends this to what a pending realign needs. In Live play nothing newer
than its tick is held until the save of the frame in progress (`LiveTop`), so with a
second slot that save evicts something older; the dense window spares agreed ticks;
hence, if the tick is agreed, its snapshot is held (`AgreedLoad`). It gives the
second half of `AgreedIsHeld` and the theorem `LossIsUnagreed`: a realign fails to
load only because memory runs out over a snapshot that is there, or because its tick is
outside the agreed span. `WatermarkLeavesByEviction` is the action form: while
the watermark stands still, its snapshot leaves the ring only in a save into a full
ring of which it is the lowest tick. Both need `Depth > 1` for the same reason.

The clock. `Drift(d)` says, for every place of the vblank, how many frames the
machine must have run for the clock's value, with a tolerance of `d` frames ahead,
and the same of every snapshot that can still be loaded (a snapshot taken ahead of the
clock puts the machine ahead again). Every step keeps `Drift(d)`, but one:
a realign applied while no admitted tick runs (`AppliesUncounted`) may turn it into
`Drift(d + 1)` (`DriftStep`). From that one lemma: `DriftIsBounded`, with the number
of realigns applied for `d`, and `DriftHasOneCause`: without that step
`ClockCountsFrames`, the property the run `realign_clock` refutes, holds. Both, like
the property itself, are about the time before a realign fails to load.

## 5. Only model-checked

Liveness (`RunCompletes`, `ShutdownCompletes`, `ShutdownReturns`,
`SyncCompletes`, `LeaveTogether`): fairness and ENABLED are out of the prover's
reach. One safety property, `RefusalIsNoSplit`: after a refusal the phases of the
two peers no longer follow each other, and the invariant of section 4, which is told
from the host's phase, ends there. Every
other property of a passing run has its theorem. The findings of section 6 are
counterexamples and need none; for `capture_shutdown` and `realign_clock` a theorem
says that the cause shown is the only one.

## 6. Findings and observations

Each finding is a run that is expected to end in a violation.

* `autocompile_no_job`: the comment at `autocompile.c:920` gives the reason why a start
  that cannot be completed terminates its child: otherwise "a second writer" could
  "enter the same cache". Without a job object, which the code allows
  (`autocompile.c:882-895`), only `cmd.exe` is terminated (`autocompile.c:922`, 939),
  and a compiler it has already started writes the cache beside that of the next run.
* `capture_shutdown`: at shutdown a periodic snapshot whose write failed is
  freed instead of being queued for the drain.
* `sync_retry`: when the guest's coordinated save fails, the host's probe, still
  pending, starts it again; the second save is written after the host's state has
  been transferred and just before the next load, which then restores the guest's
  own state.
* `realign_clock`: a realign applied in the admit wait runs one frame that no
  tick counts. One applied in `finish_frame` counts that frame, so two peers that
  realign to one tick at different points of the vblank end a frame apart. The
  error has no other cause (`DriftHasOneCause`) and is at most a frame per realign,
  always ahead of the clock (`DriftIsBounded`), until a realign fails to load.

Seen while modelling, kept out of the properties above where they would break
them, and without a run of their own:

* Autocompile: the degraded reason set after three failures is never cleared
  (`autocompile.c:131`), so it is still reported while later runs commit shards
  (`autocompile.h:61`). The comment at `autocompile.c:1090` says that after stop the
  preparer can never start another `LoadLibrary`; it may start one, when stop is set
  between the test before its 100 ms sleep (`autocompile.c:361-365`) and the mapping
  after it (354), and no second one (`OneMapAfterStop`). A publication whose marker
  is swallowed by an unfinished line before it, or whose path is empty
  (`autocompile.c:277`), is neither committed nor counted, so its run may still
  settle as a success.
* Capture: the compiler opens the latest manifest only
  (`compile_overlays.py:5386`); a preserve snapshot committed after the request
  hides the snapshot it was started for (`overlay_capture.c:698`). The result of the
  final write is not read (`overlay_capture.c:711`, 826): if it fails, the evidence
  still live at shutdown is lost without a report.
* Hash confirm: after repeated failures the retry gap is 256 ticks, twice the
  ring (`psx_netplay.c:715`), so a lasting fork may leave the ring before it is
  acted on.
* State sync: a failed save on the host sets its phase to NONE and leaves its
  probe open (`psx_netplay.c:1488`), so the guest stays frozen, and no further
  exchange is accepted for the rest of the match (`FailedSaveSticks`). In delay mode a
  load barrier may wait for inputs the other peer, in its own barrier, does not
  send. A load requested while the guest is in LOAD_READY resyncs twice; the model has one
  slot, and so does not show what a load of another slot would do there
  (`psx_netplay.c:1422`). A probe, transfer or blob that cannot start ends the
  exchange on one peer only: the guest stays frozen after `HostSendsNothing` or
  `HostSaveUnprobed` and at the barrier after `McSyncSkipped`, the host waits in
  LOAD_READY after `GuestDropsLoad`. A refused ready probe
  (`psx_netplay.c:1742-1753`) lets the host leave the barrier with the restored
  machine on the old clock; the player may then save while the guest's load is
  still pending, and with a larger `Prediction` and three requests the machines end
  up different. This is why runs with such a failure are outside `SameMachine`,
  `NoEarlyResume` and `ClockTracksMachine`. The
  statics of `savestate.c` survive into the next match.
* Memory cards: after a torn write the card is absent at every later boot, since
  only a file that cannot be opened is formatted (`memcard.c:143`). That includes one
  that exists and cannot be read, whose contents are then overwritten
  (`memcard.c:139-158`), while the header speaks of a missing file (`memcard.h:29-31`);
  `AckedSurvives` ends at such a boot. The game is told Good even
  if the flush failed. The resume paths of `mc_save_slot` and `mc_load_slot` in
  `sio.c` are never reached.
* Boot state: `boot_state_load` (`boot_state.c:787-907`) may return a failure
  after part of the machine has been replaced; for the realigns of `LiveRealign` this
  is modelled (`LoadFails`).
* Snapshots: the dense push of the frame in which a realign is queued may drop
  the snapshot it needs (`psx_netplay_rb.c:616`); the load fails, the clock stays
  rewound and the machine does not (`lost`). A missing snapshot can only be that of a
  tick outside the agreed span (`LossIsUnagreed`). The window is not emptied by a
  realign, so an old entry may drop the fresh snapshot of a tick reached again. A
  storm of DESYNC aborts with keep-live (`psx_netplay_rb.c:2190-2206`) leaves
  `g_auth_snap_through` unclamped. A rewind refused after a promotion
  (`psx_netplay.c:2718-2735`) loses its misprediction until the hash fork
  recovery finds it.

## 7. Not modelled, and the plan

Most of the repository's lines are data paths (renderers, mixers, decoders,
instruction semantics), generated or vendored code, user interface and
diagnostics; they have no interleaving and no protocol to check, and are listed
with their reasons in `components`. What remains of the concurrent core, in order
of use:

1. Rollback episodes: the request, replay, commit and abort messages of two peers
   over `HashConfirm` and `LiveRealign`, with pins, sealed replay snapshots and
   media keyframes, and the input history (`netplay_input_hist.c`: a wire input a
   whole history late is promoted into the row of a newer tick, line 87). Much of
   the admission they rest on is in the absent submodule.
2. Overlay capture and autocompile composed, so that evidence written is evidence
   compiled; the opt-in addendum journal and the history files, which three
   threads update outside the commit lock (`overlay_capture.c:662`).
3. The CD-ROM command and interrupt queue; the loader's validation cache.

Theorems still worth proving: for `StateSync`, that after the failed guest save of
`sync_retry` the machines agree again once a later load has gone through; for
`HashConfirm`, how far the watermark of one peer can be from that of the other,
which needs a second instance and their network as state.
