----------------------------- MODULE StateSync -----------------------------
(***************************************************************************)
(* Memory-card agreement, coordinated save and coordinated load of a       *)
(* two-peer netplay match (psxrecomp/runtime/src/psx_netplay.c, with the   *)
(* staging half of savestate.c).                                           *)
(*                                                                         *)
(* Each peer alternates between the barrier, where psx_netplay_poll_admit  *)
(* asks for a frame, and the frame itself, where the guest runs and        *)
(* savestate_poll writes or restores a staged state.  np_pump_session runs *)
(* at the barrier and, through the cycle watchdog, in the middle of        *)
(* frames; its handlers are actions of their own, so any of them may run   *)
(* between any two steps of the peer.  The host starts every exchange with *)
(* a probe; the guest answers; a miss is followed by a transfer.           *)
(*                                                                         *)
(* A machine is the save state it was restored from and the frames it has  *)
(* run since.  A save state is the sequence of moments at which its        *)
(* ancestors were written, so two files are equal exactly if they hold the *)
(* same machine at the same moment.  One slot is modelled.  recomp-net     *)
(* (sessions, probes, transfers, delay-sync admission) is external.        *)
(***************************************************************************)
EXTENDS Integers, Sequences, FiniteSets

CONSTANTS
    Haste,       \* subset of BOOLEAN: does the host press keys before the guest is
                 \*   out of the last exchange
    Modes,       \* subset of {"delay", "rollback"}
    Delay,       \* input delay in ticks, at least 1
    Prediction,  \* ticks rollback may invent past the remote tip
    CardPairs,   \* cards of host and guest at the start of the match
    OldStates,   \* what the slots of host and guest hold at the start
    MaxTick,     \* bound on the simulation clock
    MaxOps,      \* bound on save and load requests
    Faults,      \* what may fail: subset of FaultKinds
    MaxFaults    \* bound on failures

\* The coordinated save of a peer (no safe resume address, I/O error), the
\* restore of a state, the guest's write of a state it was sent; what recomp-net
\* refuses or memory does not allow: a probe, a transfer or a blob, and, as a kind
\* of its own, the ready probe.
FaultKinds == {"host_save", "guest_save", "load", "write", "start", "ready"}

Peers == {"host", "guest"}
Off == "off"       \* the card of a disabled slot
Cards == {Off} \cup {c[p] : c \in CardPairs, p \in Peers}

ASSUME SyncAssumption ==
    /\ Faults \subseteq FaultKinds
    /\ Haste \subseteq BOOLEAN /\ Modes \subseteq {"delay", "rollback"}
    /\ Delay \in Nat \ {0} /\ Prediction \in Nat
    /\ CardPairs \subseteq [Peers -> Cards] /\ OldStates \subseteq [Peers -> Seq(Nat)]
    /\ MaxTick \in Nat /\ MaxOps \in Nat /\ MaxFaults \in Nat

Other(p) == IF p = "host" THEN "guest" ELSE "host"

NoFile == <<>>     \* an empty slot, and the machine that was booted
NoBlob == <<>>
NoProbe == [op |-> "none", tick |-> 0, file |-> NoFile, card |-> Off]
NoRx == [op |-> "none", file |-> NoFile, card |-> Off]
NoTx == [item |-> NoRx, st |-> "none"]

VARIABLES
    active,   \* per peer: psx_netplay_active
    np,       \* per peer: the exchange fields of g_np
    ss,       \* per peer: the statics of savestate.c and the slot file
    vm,       \* per peer: the machine, its frame and its simulation clock
    card,     \* per peer: memory-card contents, or Off
    net,      \* recomp-net: the host's probe, the guest's view of it, the
              \*   answer, the transfer on each side
    mode,     \* g_np.rollback
    haste,    \* the host's player does not wait for the guest
    ops,      \* requests made so far
    broken    \* what has failed so far

env == <<mode, haste>>
vars == <<active, np, ss, vm, card, net, env, ops, broken>>

NoExchange ==
    [xfer |-> "none", mc |-> FALSE, sent |-> FALSE, staged |-> FALSE,
     acked |-> FALSE, target |-> 0, applied |-> FALSE, replied |-> FALSE,
     synced |-> FALSE, failed |-> FALSE]
NothingStaged(file) ==
    [save |-> "no", load |-> FALSE, blob |-> NoBlob, done |-> FALSE,
     lfail |-> FALSE, sfail |-> FALSE, pc |-> FALSE, slot |-> file]
ColdMachine ==
    [run |-> FALSE, adv |-> FALSE, sim |-> 0, epoch |-> 0, base |-> <<>>, age |-> 0]
FreshSession == [probe |-> NoProbe, seen |-> NoProbe, reply |-> "none",
                 tx |-> NoTx, rx |-> NoRx]

Init ==
    /\ active = [p \in Peers |-> TRUE]
    /\ np = [p \in Peers |-> NoExchange]
    /\ \E s \in OldStates : ss = [p \in Peers |-> NothingStaged(s[p])]
    /\ vm = [p \in Peers |-> ColdMachine]
    /\ card \in CardPairs
    /\ net = FreshSession
    /\ mode \in Modes /\ haste \in Haste
    /\ ops = 0 /\ broken = {}

-----------------------------------------------------------------------------
(* recomp-net *)

MayFail(kind) == kind \in Faults \ broken /\ Cardinality(broken) < MaxFaults
Fails(kind) == MayFail(kind) /\ broken' = broken \cup {kind}
SaveFault(p) == IF p = "host" THEN "host_save" ELSE "guest_save"

Pending(p) == ss[p].save # "no" \/ ss[p].load
HashProbe(pr) == pr.op \in {"mc", "save", "load"}

\* np_xfer_busy
Busy == np["host"].xfer # "none" \/ net.probe # NoProbe \/ net.tx # NoTx

\* Hash probes and transfers stall delay-sync admission; the coordination probe
\* and the ready probe do not.
Stalled(p) ==
    IF p = "host" THEN HashProbe(net.probe) \/ net.tx # NoTx
                  ELSE HashProbe(net.seen) \/ net.rx # NoRx

\* The last tick for which the peer has, or will be sent, the other's input.
\* hard_resync drops remote inputs of the clock before it.
RemoteTip(p) ==
    IF vm[p].epoch = vm[Other(p)].epoch THEN vm[Other(p)].sim + Delay ELSE Delay - 1

TryAdmit(p) == ~Stalled(p) /\ vm[p].sim <= RemoteTip(p)

Probe(pr) == [net EXCEPT !.probe = pr, !.reply = "none"]
ProbeFinish == Probe(NoProbe)
FinishAndSend(item) == [ProbeFinish EXCEPT !.tx = [item |-> item, st |-> "sending"]]
HostFinish == [net EXCEPT !.tx = NoTx]
GuestFinish == [net EXCEPT !.rx = NoRx]
Answer(m) ==
    [net EXCEPT !.reply = IF net.seen = net.probe THEN (IF m THEN "match" ELSE "miss") ELSE @]

\* The guest learns of the host's probe, or that it is finished.  A probe is
\* repeated until it is answered; it is assumed not to overtake a transfer that
\* the guest has received and not yet taken.
DeliverProbe ==
    /\ \A p \in Peers : active[p]
    /\ net.seen # net.probe /\ net.rx = NoRx
    /\ net' = [net EXCEPT !.seen = net.probe]
    /\ UNCHANGED <<active, np, ss, vm, card, env, ops, broken>>

\* The last chunk arrives; later the host knows that it has.
DeliverChunks ==
    /\ \A p \in Peers : active[p]
    /\ net.tx.st = "sending" /\ net.rx = NoRx
    /\ net' = [net EXCEPT !.tx.st = "arrived",
                          !.rx = net.tx.item]
    /\ UNCHANGED <<active, np, ss, vm, card, env, ops, broken>>
DeliverAck ==
    /\ \A p \in Peers : active[p]
    /\ net.tx.st = "arrived"
    /\ net' = [net EXCEPT !.tx.st = "ready"]
    /\ UNCHANGED <<active, np, ss, vm, card, env, ops, broken>>

-----------------------------------------------------------------------------
(* savestate.c: staging, and savestate_poll inside a frame *)

\* request_save_inner; a save staged at the barrier is written at the first
\* block of the next frame unless it has to be deferred.
StagedSave(p) ==
    [ss EXCEPT ![p].sfail = FALSE, ![p].pc = FALSE,
               ![p].save = IF vm[p].run THEN "late" ELSE "edge"]
\* savestate_request_load_protocol, savestate_request_load_blob_protocol
StagedLoad(p, blob) ==
    [ss EXCEPT ![p].blob = blob, ![p].load = TRUE, ![p].done = FALSE, ![p].lfail = FALSE]

\* The moments of a frame at which a staged save may be written: its first
\* block, or a later one if the save was staged or deferred past it.
Moments(p) ==
    IF ss[p].save = "edge" THEN {2 * vm[p].age, 2 * vm[p].age + 1} ELSE {2 * vm[p].age + 1}

SavePoll(p) ==
    /\ vm[p].run /\ ss[p].save # "no"
    /\ \/ \E m \in Moments(p) :
            ss' = [ss EXCEPT ![p].save = "no", ![p].pc = TRUE, ![p].sfail = FALSE,
                             ![p].slot = Append(vm[p].base, m)]
          /\ UNCHANGED broken
       \/ /\ MayFail(SaveFault(p)) /\ broken' = broken \cup {SaveFault(p)}
          /\ ss' = [ss EXCEPT ![p].save = "no", ![p].pc = FALSE, ![p].sfail = TRUE]
    /\ UNCHANGED <<active, np, vm, card, net, env, ops>>

\* A deferred save returns before the load is looked at.
LoadSource(p) == IF ss[p].blob # NoBlob THEN ss[p].blob ELSE ss[p].slot

LoadPoll(p) ==
    /\ vm[p].run /\ ss[p].load /\ ss[p].save = "no" /\ LoadSource(p) # NoFile
    /\ vm' = [vm EXCEPT ![p].base = LoadSource(p), ![p].age = 0]
    /\ ss' = [ss EXCEPT ![p].load = FALSE, ![p].blob = NoBlob, ![p].done = TRUE]
    /\ UNCHANGED <<active, np, card, net, env, ops, broken>>

LoadPollFails(p) ==
    /\ vm[p].run /\ ss[p].load /\ ss[p].save = "no"
    /\ \/ LoadSource(p) = NoFile /\ UNCHANGED broken
       \/ LoadSource(p) # NoFile /\ MayFail("load") /\ broken' = broken \cup {"load"}
    /\ ss' = [ss EXCEPT ![p].load = FALSE, ![p].blob = NoBlob, ![p].lfail = TRUE]
    /\ UNCHANGED <<active, np, vm, card, net, env, ops>>

-----------------------------------------------------------------------------
(* Updates of g_np shared by the handlers *)

\* np_begin_load_apply
LoadApplying(e) ==
    [e EXCEPT !.xfer = "load_applying", !.applied = FALSE, !.synced = FALSE,
              !.replied = FALSE]
\* np_enter_load_ready
LoadReady(e) ==
    [e EXCEPT !.xfer = "load_ready", !.applied = TRUE, !.replied = FALSE, !.synced = FALSE]

\* needs_advance = 0: the frame under way will not advance the clock.
Unlatched(p) == [vm EXCEPT ![p].adv = FALSE]

\* MUTANT of Resynced: hard_resync does not restart the clock.
ResyncedKeepsClock(p) == [vm EXCEPT ![p].adv = FALSE, ![p].epoch = @ + 1]

\* np_commit_load_sync when it has not run for this load: hard_resync and prime.
Resynced(p) == [vm EXCEPT ![p].adv = FALSE, ![p].sim = 0, ![p].epoch = @ + 1]

-----------------------------------------------------------------------------
(* np_guest_handle_probe.  The probe stays in view until the host's next one *)
(* replaces it, so every branch runs again on each pump.                    *)

g == "guest"
h == "host"

\* The guest's restore is done and only the pump has not noticed.
JustApplied(p) == np[p].xfer = "load_applying" /\ ~Pending(p) /\ ss[p].done

GuestReady ==
    /\ active[g] /\ net.seen.op = "ready"
    /\ JustApplied(g) \/ np[g].xfer = "load_ready"
    /\ LET e == IF JustApplied(g) THEN LoadReady(np[g]) ELSE np[g]
       IN  /\ np' = [np EXCEPT ![g] = [e EXCEPT !.synced = TRUE, !.replied = TRUE]]
           /\ vm' = IF e.synced THEN vm ELSE Resynced(g)
    /\ ss' = IF JustApplied(g) THEN [ss EXCEPT ![g].done = FALSE] ELSE ss
    /\ net' = Answer(TRUE)
    /\ UNCHANGED <<active, card, env, ops, broken>>

\* Size 0: a save is coordinated for the tick the probe carries.
GuestCoordArm ==
    /\ active[g] /\ net.seen.op = "coord"
    /\ np[g].xfer # "save_coord" /\ (Pending(g) \/ ~ss[g].sfail)
    /\ np' = [np EXCEPT ![g].xfer = "save_coord", ![g].target = net.seen.tick,
                        ![g].staged = FALSE, ![g].acked = FALSE]
    /\ UNCHANGED <<active, ss, vm, card, net, env, ops, broken>>

GuestCoordFailed ==
    /\ active[g] /\ net.seen.op = "coord"
    /\ ~Pending(g) /\ ss[g].sfail
    /\ np' = [np EXCEPT ![g].xfer = "none", ![g].target = net.seen.tick,
                        ![g].staged = FALSE, ![g].acked = FALSE]
    /\ ss' = [ss EXCEPT ![g].sfail = FALSE]
    /\ net' = Answer(FALSE)
    /\ UNCHANGED <<active, vm, card, env, ops, broken>>

\* The coordinated save is on disk and carries a resume address.
SaveWritten(p) == ~Pending(p) /\ ~ss[p].sfail /\ np[p].staged /\ ss[p].slot # NoFile /\ ss[p].pc

GuestCoordAck ==
    /\ active[g] /\ net.seen.op = "coord" /\ np[g].xfer = "save_coord"
    /\ SaveWritten(g) /\ ~np[g].acked
    /\ np' = [np EXCEPT ![g].acked = TRUE]
    /\ net' = Answer(TRUE)
    /\ UNCHANGED <<active, ss, vm, card, env, ops, broken>>

\* MUTANT of GuestCard: any answer counts as agreement.
GuestCardAlwaysDone ==
    /\ active[g] /\ net.seen.op = "mc"
    /\ net' = Answer(card[g] = net.seen.card)
    /\ np' = [np EXCEPT ![g].mc = TRUE]
    /\ UNCHANGED <<active, ss, vm, card, env, ops, broken>>

GuestCard ==
    /\ active[g] /\ net.seen.op = "mc"
    /\ net' = Answer(card[g] = net.seen.card)
    /\ np' = [np EXCEPT ![g].mc = @ \/ card[g] = net.seen.card]
    /\ UNCHANGED <<active, ss, vm, card, env, ops, broken>>

SlotMatches == ss[g].slot # NoFile /\ ss[g].slot = net.seen.file

GuestHashSave ==
    /\ active[g] /\ net.seen.op = "save"
    /\ net' = Answer(SlotMatches)
    /\ np' = [np EXCEPT ![g].xfer = IF SlotMatches THEN "none" ELSE "save_send"]
    /\ UNCHANGED <<active, ss, vm, card, env, ops, broken>>

GuestHashLoad ==
    /\ active[g] /\ net.seen.op = "load"
    /\ net' = Answer(SlotMatches)
    /\ \/ /\ ~SlotMatches
          /\ np' = [np EXCEPT ![g].xfer = "load_send"]
          /\ UNCHANGED <<ss, vm>>
       \/ /\ SlotMatches /\ np[g].xfer \notin {"load_applying", "load_ready"}
          /\ np' = [np EXCEPT ![g] = LoadApplying(@)]
          /\ ss' = StagedLoad(g, NoBlob)
          /\ vm' = Unlatched(g)
       \/ /\ SlotMatches /\ np[g].xfer \in {"load_applying", "load_ready"}
          /\ UNCHANGED <<np, ss, vm>>
    /\ UNCHANGED <<active, card, env, ops, broken>>

-----------------------------------------------------------------------------
(* np_maybe_stage_target_save and np_apply_ready_state *)

StageDue(p) == np[p].xfer = "save_coord" /\ ~np[p].staged /\ vm[p].sim >= np[p].target

StageSave(p) ==
    /\ active[p] /\ StageDue(p)
    /\ ss' = StagedSave(p)
    /\ np' = [np EXCEPT ![p].staged = TRUE]
    /\ UNCHANGED <<active, vm, card, net, env, ops, broken>>

HostTransferDone ==
    /\ active[h] /\ net.tx.st = "ready"
    /\ net' = HostFinish
    /\ \/ /\ net.tx.item.op = "mc"
          /\ np' = [np EXCEPT ![h].mc = TRUE, ![h].xfer = "none"]
          /\ vm' = Unlatched(h) /\ UNCHANGED ss
       \/ /\ net.tx.item.op = "save"
          /\ np' = [np EXCEPT ![h].xfer = "none"]
          /\ UNCHANGED <<ss, vm>>
       \/ /\ net.tx.item.op = "load"
          /\ np' = [np EXCEPT ![h] = LoadApplying(@)]
          /\ vm' = Unlatched(h) /\ ss' = StagedLoad(h, NoBlob)
    /\ UNCHANGED <<active, card, env, ops, broken>>

\* The outcomes of savestate_write_slot: the file, or after an error none.
WriteOutcomes(file) ==
    {[file |-> file, bad |-> {}]} \cup
    IF MayFail("write") THEN {[file |-> NoFile, bad |-> {"write"}]} ELSE {}

\* A blob of cards replaces those the host has; a disabled slot refuses it.
GuestTakesCard ==
    /\ active[g] /\ net.rx.op = "mc"
    /\ net' = GuestFinish
    /\ \/ /\ net.rx.card # Off /\ card[g] = Off
          /\ np' = [np EXCEPT ![g].xfer = "none"]
          /\ UNCHANGED <<card, vm>>
       \/ /\ net.rx.card = Off \/ card[g] # Off
          /\ card' = IF net.rx.card = Off THEN card ELSE [card EXCEPT ![g] = net.rx.card]
          /\ np' = [np EXCEPT ![g].mc = TRUE, ![g].xfer = "none"]
          /\ vm' = Unlatched(g)
    /\ UNCHANGED <<active, ss, env, ops, broken>>

GuestTakesSave ==
    /\ active[g] /\ net.rx.op = "save"
    /\ net' = GuestFinish
    /\ \E w \in WriteOutcomes(net.rx.file) :
        ss' = [ss EXCEPT ![g].slot = w.file] /\ broken' = broken \cup w.bad
    /\ np' = [np EXCEPT ![g].xfer = "none"]
    /\ UNCHANGED <<active, vm, card, env, ops>>

\* The restore uses the blob in memory; the copy in the slot is best effort.
GuestTakesLoad ==
    /\ active[g] /\ net.rx.op = "load"
    /\ net' = GuestFinish
    /\ \E w \in WriteOutcomes(net.rx.file) :
        ss' = [StagedLoad(g, net.rx.file) EXCEPT ![g].slot = w.file] /\ broken' = broken \cup w.bad
    /\ np' = [np EXCEPT ![g] = LoadApplying(@)]
    /\ vm' = Unlatched(g)
    /\ UNCHANGED <<active, card, env, ops>>

\* MUTANT of GuestDropsLoad: the guest restores what its slot holds instead.
GuestDropsLoadUsesSlot ==
    /\ active[g] /\ net.rx.op = "load" /\ Fails("start")
    /\ net' = GuestFinish
    /\ np' = [np EXCEPT ![g] = LoadApplying(@)]
    /\ ss' = StagedLoad(g, NoBlob)
    /\ vm' = Unlatched(g)
    /\ UNCHANGED <<active, card, env, ops>>

\* There is no memory for the blob: the transfer is over and nothing is restored.
GuestDropsLoad ==
    /\ active[g] /\ net.rx.op = "load" /\ Fails("start")
    /\ net' = GuestFinish
    /\ np' = [np EXCEPT ![g].xfer = "none"]
    /\ UNCHANGED <<active, ss, vm, card, env, ops>>

-----------------------------------------------------------------------------
(* np_drive_load_barrier, np_host_drive_xfer and np_maybe_start_mc_sync *)

ReadyProbe == [NoProbe EXCEPT !.op = "ready"]

LoadBarrierDone(p) ==
    /\ active[p] /\ JustApplied(p) /\ ~ss[p].lfail
    /\ ss' = [ss EXCEPT ![p].done = FALSE]
    /\ np' = [np EXCEPT ![p] = LoadReady(@)]
    /\ vm' = Unlatched(p)
    /\ net' = IF p = h THEN Probe(ReadyProbe) ELSE net
    /\ UNCHANGED <<active, card, env, ops, broken>>

\* The host has restored and cannot say so: it leaves the barrier on its own.
NoReadyProbe ==
    /\ active[h] /\ JustApplied(h) /\ ~ss[h].lfail /\ Fails("ready")
    /\ ss' = [ss EXCEPT ![h].done = FALSE]
    /\ np' = [np EXCEPT ![h] = [LoadReady(@) EXCEPT !.xfer = "none", !.applied = FALSE]]
    /\ vm' = Unlatched(h)
    /\ UNCHANGED <<active, net, card, env, ops>>

LoadBarrierFailed(p) ==
    /\ active[p] /\ np[p].xfer = "load_applying" /\ ~Pending(p) /\ ss[p].lfail
    /\ ss' = [ss EXCEPT ![p].lfail = FALSE]
    /\ np' = [np EXCEPT ![p].xfer = "none", ![p].applied = FALSE, ![p].replied = FALSE,
                        ![p].synced = FALSE, ![p].failed = TRUE]
    /\ UNCHANGED <<active, vm, card, net, env, ops, broken>>

Replied == net.reply # "none"
Match == net.reply = "match"

HostCardProbed ==
    /\ active[h] /\ np[h].xfer = "mc_probe" /\ Replied
    /\ \/ /\ Match
          /\ net' = ProbeFinish
          /\ np' = [np EXCEPT ![h].mc = TRUE, ![h].xfer = "none"]
       \/ /\ ~Match
          /\ net' = FinishAndSend([NoRx EXCEPT !.op = "mc", !.card = card[h]])
          /\ np' = [np EXCEPT ![h].xfer = "mc_send"]
    /\ UNCHANGED <<active, ss, vm, card, env, ops, broken>>

\* The failed write ends the exchange on this side; its probe stays out.
HostCoordAbort ==
    /\ active[h] /\ np[h].xfer = "save_coord" /\ ~Pending(h) /\ ss[h].sfail
    /\ ss' = [ss EXCEPT ![h].sfail = FALSE]
    /\ np' = [np EXCEPT ![h].xfer = "none", ![h].staged = FALSE]
    /\ UNCHANGED <<active, vm, card, net, env, ops, broken>>

\* MUTANT of HostCoordDone: the hash probe does not wait for the guest's answer.
HostCoordDoneAtOnce ==
    /\ active[h] /\ np[h].xfer = "save_coord" /\ SaveWritten(h)
    /\ net' = Probe([NoProbe EXCEPT !.op = "save", !.file = ss[h].slot])
    /\ np' = [np EXCEPT ![h].xfer = "save_probe"]
    /\ UNCHANGED <<active, ss, vm, card, env, ops, broken>>

\* Both have written, or the guest could not: compare, whatever it answered.
HostCoordDone ==
    /\ active[h] /\ np[h].xfer = "save_coord" /\ SaveWritten(h) /\ Replied
    /\ net' = Probe([NoProbe EXCEPT !.op = "save", !.file = ss[h].slot])
    /\ np' = [np EXCEPT ![h].xfer = "save_probe"]
    /\ UNCHANGED <<active, ss, vm, card, env, ops, broken>>

HostSaveProbed ==
    /\ active[h] /\ np[h].xfer = "save_probe" /\ Replied
    /\ \/ /\ Match
          /\ net' = ProbeFinish
          /\ np' = [np EXCEPT ![h].xfer = "none"]
       \/ /\ ~Match
          /\ net' = FinishAndSend([NoRx EXCEPT !.op = "save", !.file = ss[h].slot])
          /\ np' = [np EXCEPT ![h].xfer = "save_send"]
    /\ UNCHANGED <<active, ss, vm, card, env, ops, broken>>

HostLoadProbed ==
    /\ active[h] /\ np[h].xfer = "load_probe" /\ Replied
    /\ \/ /\ Match
          /\ net' = ProbeFinish
          /\ np' = [np EXCEPT ![h] = LoadApplying(@)]
          /\ ss' = StagedLoad(h, NoBlob)
          /\ vm' = Unlatched(h)
       \/ /\ ~Match
          /\ net' = FinishAndSend([NoRx EXCEPT !.op = "load", !.file = ss[h].slot])
          /\ np' = [np EXCEPT ![h].xfer = "load_send", ![h].applied = FALSE, ![h].synced = FALSE]
          /\ UNCHANGED <<ss, vm>>
    /\ UNCHANGED <<active, card, env, ops, broken>>

\* A card, a save or a load that should now be sent is not: the exchange is over
\* for the host, and the guest, told nothing, waits for it.
HostSendsNothing ==
    /\ active[h] /\ Replied /\ ~Match /\ Fails("start")
    /\ net' = ProbeFinish
    /\ \/ /\ np[h].xfer = "mc_probe"
          /\ np' = [np EXCEPT ![h].xfer = "none", ![h].mc = TRUE]
       \/ /\ np[h].xfer = "save_probe"
          /\ np' = [np EXCEPT ![h].xfer = "none"]
       \/ /\ np[h].xfer = "load_probe"
          /\ \E s \in {np[h].synced, FALSE} :   \* reading the slot, or the transfer, failed
                np' = [np EXCEPT ![h].xfer = "none", ![h].applied = FALSE, ![h].synced = s]
    /\ UNCHANGED <<active, ss, vm, card, env, ops>>

\* The two files are never compared.
HostSaveUnprobed ==
    /\ active[h] /\ np[h].xfer = "save_coord" /\ SaveWritten(h) /\ Replied /\ Fails("start")
    /\ net' = ProbeFinish
    /\ np' = [np EXCEPT ![h].xfer = "none"]
    /\ UNCHANGED <<active, ss, vm, card, env, ops>>

\* MUTANT of HostReady: the host is ready without the guest's answer.
HostReadyAlone ==
    /\ active[h] /\ np[h].xfer = "load_ready" /\ ~np[h].synced
    /\ net' = ProbeFinish
    /\ vm' = Resynced(h)
    /\ np' = [np EXCEPT ![h].synced = TRUE, ![h].replied = TRUE]
    /\ UNCHANGED <<active, ss, card, env, ops, broken>>

HostReady ==
    /\ active[h] /\ np[h].xfer = "load_ready" /\ Replied
    /\ net' = ProbeFinish
    /\ vm' = IF np[h].synced THEN vm ELSE Resynced(h)
    /\ np' = [np EXCEPT ![h].synced = TRUE, ![h].replied = TRUE]
    /\ UNCHANGED <<active, ss, card, env, ops, broken>>

StartMcSync ==
    /\ active[h] /\ ~np[h].sent /\ ~np[h].mc /\ ~Busy
    /\ net' = Probe([NoProbe EXCEPT !.op = "mc", !.card = card[h]])
    /\ np' = [np EXCEPT ![h].sent = TRUE, ![h].xfer = "mc_probe"]
    /\ UNCHANGED <<active, ss, vm, card, env, ops, broken>>

\* The host goes on as if the cards agreed, and the guest never learns of a probe.
McSyncSkipped ==
    /\ active[h] /\ ~np[h].sent /\ ~np[h].mc /\ ~Busy /\ Fails("start")
    /\ np' = [np EXCEPT ![h].mc = TRUE]
    /\ UNCHANGED <<active, ss, vm, card, net, env, ops>>

-----------------------------------------------------------------------------
(* psx_netplay_request_save, psx_netplay_request_load: the host's keys *)

Waiting(p) == active[p] /\ ~vm[p].run

\* The keys are read at the vertical blank, commands of the debug server anywhere.
MayAsk == active[h] /\ ~Busy /\ np[h].mc /\ (haste \/ np[g].xfer = "none")
SaveTick == vm[h].sim + Delay + 2

RequestSave ==
    /\ MayAsk
    /\ ops < MaxOps /\ SaveTick < MaxTick
    /\ net' = Probe([NoProbe EXCEPT !.op = "coord", !.tick = SaveTick])
    /\ np' = [np EXCEPT ![h].xfer = "save_coord", ![h].target = SaveTick,
                        ![h].staged = FALSE, ![h].acked = FALSE]
    /\ ops' = ops + 1
    /\ UNCHANGED <<active, ss, vm, card, env, broken>>

\* MUTANT of RequestLoad: the offline path, on this peer alone.
RequestLoadOffline ==
    /\ MayAsk /\ ss[h].slot # NoFile
    /\ ops < MaxOps
    /\ ss' = StagedLoad(h, ss[h].blob)
    /\ ops' = ops + 1
    /\ UNCHANGED <<active, np, vm, card, net, env, broken>>

RequestLoad ==
    /\ MayAsk /\ ss[h].slot # NoFile
    /\ ops < MaxOps
    /\ net' = Probe([NoProbe EXCEPT !.op = "load", !.file = ss[h].slot])
    /\ np' = [np EXCEPT ![h].xfer = "load_probe", ![h].applied = FALSE, ![h].failed = FALSE]
    /\ ops' = ops + 1
    /\ UNCHANGED <<active, ss, vm, card, env, broken>>

-----------------------------------------------------------------------------
(* psx_netplay_poll_admit and psx_netplay_finish_frame *)

\* np_pump_session as one peer runs it.
GuestProbe ==
    \/ GuestReady \/ GuestCoordArm \/ GuestCoordFailed \/ GuestCoordAck
    \/ GuestCard \/ GuestHashSave \/ GuestHashLoad
GuestTakes == GuestTakesCard \/ GuestTakesSave \/ GuestTakesLoad \/ GuestDropsLoad
HostDrive ==
    \/ HostTransferDone \/ HostCardProbed \/ HostCoordAbort \/ HostCoordDone
    \/ HostSaveProbed \/ HostLoadProbed \/ HostReady \/ StartMcSync
    \/ HostSendsNothing \/ HostSaveUnprobed \/ NoReadyProbe \/ McSyncSkipped
Pump(p) ==
    \/ StageSave(p) \/ LoadBarrierDone(p) \/ LoadBarrierFailed(p)
    \/ p = g /\ (GuestProbe \/ GuestTakes)
    \/ p = h /\ HostDrive

\* Every poll at the barrier pumps, and leaves after a failed restore, before it
\* asks for a frame.
PumpIdle(p) == ~ENABLED <<Pump(p)>>_vars
AtBarrier(p) == Waiting(p) /\ np[p].mc /\ ~np[p].failed /\ PumpIdle(p)

Frame(p) == [vm EXCEPT ![p].run = TRUE, ![p].adv = TRUE, ![p].age = @ + 1]

\* MUTANT of BarrierAdmit: delay-sync admission in both modes.
BarrierAdmitDelaySync(p) == TryAdmit(p)

\* np_try_admit_load_barrier_rb never waits for the other peer.
BarrierAdmit(p) == mode = "rollback" \/ TryAdmit(p)

AdmitApplying(p) ==
    /\ AtBarrier(p)
    /\ np[p].xfer = "load_applying" /\ Pending(p) /\ BarrierAdmit(p)
    /\ vm' = Frame(p)
    /\ UNCHANGED <<active, np, ss, card, net, env, ops, broken>>

AdmitReady(p) ==
    /\ AtBarrier(p)
    /\ np[p].xfer = "load_ready" /\ np[p].synced /\ np[p].replied /\ BarrierAdmit(p)
    /\ vm' = Frame(p)
    /\ np' = [np EXCEPT ![p].xfer = "none", ![p].applied = FALSE,
                        ![p].replied = FALSE, ![p].synced = FALSE]
    /\ UNCHANGED <<active, ss, card, net, env, ops, broken>>

\* Until the save is written both run; then the guest waits for the hash probe
\* and the host too, unless the guest's tip is behind it.  The pump has staged
\* the save if it was due.
AdmitCoord(p) ==
    /\ AtBarrier(p) /\ np[p].xfer = "save_coord" /\ TryAdmit(p)
    /\ ~np[p].staged \/ Pending(p) \/ (p = h /\ RemoteTip(p) < vm[p].sim)
    /\ vm' = Frame(p)
    /\ UNCHANGED <<active, np, ss, card, net, env, ops, broken>>

AdmitPlay(p) ==
    /\ AtBarrier(p)
    /\ np[p].xfer \notin {"save_coord", "load_applying", "load_ready"}
    /\ vm[p].sim < MaxTick
    /\ IF mode = "rollback" /\ np[p].xfer = "none"
       THEN vm[p].sim <= RemoteTip(p) + Prediction
       ELSE TryAdmit(p)
    /\ vm' = Frame(p)
    /\ UNCHANGED <<active, np, ss, card, net, env, ops, broken>>

\* MUTANT of FinishFrame: needs_advance outlives the frame.
FinishFrameKeepsLatch(p) ==
    /\ active[p] /\ vm[p].run /\ ~ss[p].load
    /\ ss[p].save = "no" \/ vm[p].sim < MaxTick
    /\ vm' = [vm EXCEPT ![p].run = FALSE,
                        ![p].sim = IF vm[p].adv THEN @ + 1 ELSE @]
    /\ ss' = [ss EXCEPT ![p].save = IF @ = "edge" THEN "late" ELSE @]
    /\ UNCHANGED <<active, np, card, net, env, ops, broken>>

\* A staged load is polled at the next block, long before the vblank; a save
\* without a safe resume address may be carried over it.
FinishFrame(p) ==
    /\ active[p] /\ vm[p].run /\ ~ss[p].load
    /\ ss[p].save = "no" \/ vm[p].sim < MaxTick
    /\ vm' = [vm EXCEPT ![p].run = FALSE, ![p].adv = FALSE,
                        ![p].sim = IF vm[p].adv THEN @ + 1 ELSE @]
    /\ ss' = [ss EXCEPT ![p].save = IF @ = "edge" THEN "late" ELSE @]
    /\ UNCHANGED <<active, np, card, net, env, ops, broken>>

-----------------------------------------------------------------------------
(* netplay_soft_exit and psx_netplay_shutdown *)

Shutdown(p) ==
    /\ active' = [active EXCEPT ![p] = FALSE]
    /\ np' = [np EXCEPT ![p] = NoExchange]
    /\ UNCHANGED <<ss, vm, card, net, env, ops, broken>>

\* MUTANT of SoftExit: the other's BYE is overlooked.
SoftExitOnlyFailed(p) == Waiting(p) /\ np[p].failed /\ Shutdown(p)

\* The barrier sees the other's BYE, or a restore that failed.
SoftExit(p) == Waiting(p) /\ (~active[Other(p)] \/ np[p].failed) /\ Shutdown(p)

\* The player leaves, or a watchdog of the barrier runs out.
Leave(p) == Waiting(p) /\ active[Other(p)] /\ Shutdown(p)

-----------------------------------------------------------------------------
Deliver == DeliverProbe \/ DeliverChunks \/ DeliverAck
Admit(p) == AdmitApplying(p) \/ AdmitReady(p) \/ AdmitCoord(p) \/ AdmitPlay(p)
Poll(p) == SavePoll(p) \/ LoadPoll(p) \/ LoadPollFails(p)

Next ==
    \/ Deliver
    \/ RequestSave \/ RequestLoad
    \/ \E p \in Peers :
        Pump(p) \/ Admit(p) \/ Poll(p) \/ FinishFrame(p) \/ SoftExit(p) \/ Leave(p)

\* The pump runs every few milliseconds, the guest runs, the network delivers.
\* Nothing forces a key press or a departure.
Fairness ==
    /\ WF_vars(DeliverProbe) /\ WF_vars(DeliverChunks) /\ WF_vars(DeliverAck)
    /\ \A p \in Peers :
        /\ WF_vars(Pump(p)) /\ WF_vars(Admit(p)) /\ SF_vars(Poll(p))
        /\ WF_vars(FinishFrame(p)) /\ WF_vars(SoftExit(p))

Spec == Init /\ [][Next]_vars
FairSpec == Spec /\ Fairness

-----------------------------------------------------------------------------
Phases == {"none", "mc_probe", "mc_send", "save_coord", "save_probe", "save_send",
           "load_probe", "load_send", "load_applying", "load_ready"}

Exchanges ==
    [xfer : Phases, mc : BOOLEAN, sent : BOOLEAN, staged : BOOLEAN, acked : BOOLEAN,
     target : Nat, applied : BOOLEAN, replied : BOOLEAN, synced : BOOLEAN, failed : BOOLEAN]
Stagings ==
    [save : {"no", "edge", "late"}, load : BOOLEAN, blob : Seq(Nat), done : BOOLEAN,
     lfail : BOOLEAN, sfail : BOOLEAN, pc : BOOLEAN, slot : Seq(Nat)]
Machines ==
    [run : BOOLEAN, adv : BOOLEAN, sim : Nat, epoch : Nat, base : Seq(Nat), age : Nat]
Probes ==
    [op : {"none", "mc", "coord", "save", "load", "ready"}, tick : Nat,
     file : Seq(Nat), card : Cards]
Items == [op : {"none", "mc", "save", "load"}, file : Seq(Nat), card : Cards]
Sessions ==
    [probe : Probes, seen : Probes, reply : {"none", "miss", "match"},
     tx : [item : Items, st : {"none", "sending", "arrived", "ready"}], rx : Items]

\* The fields of g_np, of savestate.c and of the session keep their types; a
\* frame waits for its advance only while it runs, and only the host is ever in a
\* probe phase or sends its cards.
TypeOK ==
    /\ active \in [Peers -> BOOLEAN]
    /\ np \in [Peers -> Exchanges] /\ ss \in [Peers -> Stagings] /\ vm \in [Peers -> Machines]
    /\ card \in [Peers -> Cards] /\ net \in Sessions
    /\ mode \in Modes /\ haste \in BOOLEAN
    /\ ops \in 0..MaxOps /\ broken \subseteq Faults
    /\ \A p \in Peers : vm[p].adv => vm[p].run
    /\ np[g].xfer \notin {"mc_probe", "mc_send", "save_probe", "load_probe"}

\* A peer out of every exchange, in a match no one has left or is about to leave.
Playing(p) == np[p].xfer = "none" /\ \A q \in Peers : active[q] /\ ~np[q].failed

\* What savestate_request_load_protocol says of the guest, that it "must apply the
\* host-authoritative .pst": in play both machines stem from the same state.
GuestAppliesHostState == Playing(h) /\ Playing(g) => vm[h].base = vm[g].base

\* No probe, transfer or restore from memory was refused.
AllStarted == "start" \notin broken /\ "ready" \notin broken

\* Unless the guest's own coordinated save failed or something could not start,
\* when neither peer is in an exchange their machines stem from the same state: no
\* peer plays on a state the other has not restored, nor on one the other has left
\* behind (LOAD_APPLYING and LOAD_READY on both sides).
SameMachine == AllStarted /\ "guest_save" \notin broken => GuestAppliesHostState

\* If the only failure is a probe, a transfer or a blob that could not start, a peer
\* is left waiting at worst: the two never play on different states (the returns to
\* NP_XFER_NONE in np_host_drive_xfer and np_apply_ready_state).
RefusalIsNoSplit == broken = {"start"} => GuestAppliesHostState

\* A peer in play has run exactly the frames its simulation clock says since the
\* state was booted or restored, however the restore fell into its frames
\* (needs_advance and hard_resync in np_begin_load_apply, np_enter_load_ready and
\* np_commit_load_sync).
ClockTracksMachine ==
    \A p \in Peers : Playing(p) /\ AllStarted =>
        vm[p].age = vm[p].sim + (IF vm[p].adv THEN 1 ELSE 0)

\* A peer that leaves the load barrier finds the other with the same state
\* restored, wherever the other is by then (with the same exceptions).
ResumesTogether ==
    \A p \in Peers :
        (/\ np[p].xfer = "load_ready" /\ np'[p].xfer = "none"
         /\ active'[p] /\ active[Other(p)] /\ AllStarted' /\ "guest_save" \notin broken)
        => vm[Other(p)].base = vm[p].base
NoEarlyResume == [][ResumesTogether]_vars

\* Once both sides call the cards agreed they are equal, if the host has one.
CardsAgree == np[h].mc /\ np[g].mc /\ card[h] # Off => card[h] = card[g]

\* A coordinated save that both sides have finished leaves the same file in both
\* slots, whichever moment each wrote, as long as nothing failed.
EndsWithSameFile ==
    (/\ broken' = {} /\ np[h].xfer \in {"save_probe", "save_send"}
     /\ np'[h].xfer = "none" /\ active'[h])
    => \/ ss[g].slot = ss[h].slot
       \/ net.rx.op = "save" /\ net.rx.file = ss[h].slot
SaveSynced == [][EndsWithSameFile]_vars

InExchange(p) == np[p].xfer # "none" /\ broken = {} /\ card[g] # Off
OutOfExchange(p) == np[p].xfer = "none" \/ broken # {}

\* In rollback mode a peer in an exchange gets out of it, or the match ends,
\* unless a write or a restore fails or the guest's card slot is disabled: no
\* order of pumps, frames and messages leaves both waiting
\* (np_try_admit_load_barrier_rb).
SyncCompletes ==
    \A p \in Peers : mode = "rollback" /\ ~haste /\ InExchange(p) ~> OutOfExchange(p)

\* Nobody stays in a match the other has left.
LeaveTogether == \A p \in Peers : ~active[p] ~> ~active[Other(p)]
=============================================================================
