-------------------------- MODULE StateSyncProofs --------------------------
(***************************************************************************)
(* StateSync keeps its types, both peers call only equal cards agreed, and *)
(* whatever the order of pumps, frames and messages the two machines in    *)
(* play stem from the same state and have run the frames their clocks say. *)
(*                                                                         *)
(* The inductive invariant IInv says, for each phase of the host, which    *)
(* probe and transfer are out and how far behind the guest can be          *)
(* (HostInv, PhaseInv); what the clocks and the machines are worth in each *)
(* of them (LoadInv, ClockInv, BaseInv); and that every state on its way   *)
(* to the guest is the one in the host's slot (TrackInv, SaveInv).  For    *)
(* each action A there is the effect DidA, field by field; the lemma DoA,  *)
(* that A has that effect; TypeA, that it keeps the types; and StepA, that *)
(* it preserves IInv and allows only the steps the action properties name. *)
(***************************************************************************)
EXTENDS StateSync, TLAPS

USE DEF Peers, h, g

-----------------------------------------------------------------------------
(* The inductive invariant *)

LoadPhases == {"load_probe", "load_send", "load_applying", "load_ready"}

\* Both are in the match and nothing was refused so far: a peer that waits for a
\* probe or a transfer that never started may be left in any phase.
Both == active[h] /\ active[g] /\ AllStarted

\* The host is in no load, and no load of its own has failed.
HostPlays == ~np[h].failed /\ np[h].xfer \notin LoadPhases

\* A save was asked for after a failed restore: the host never gets out of it.
Stuck == np[h].failed /\ net.probe.op = "coord"

\* The guest has no load under way, and none it has not joined the host in.
GuestSettled ==
    /\ np[g].xfer \notin {"load_applying", "load_send"} /\ ~ss[g].load /\ net.rx.op # "load"
    /\ np[g].xfer = "load_ready" => np[g].synced

\* The clock says how many frames the machine has run.
Aged(p) ==
    (vm[p].adv => vm[p].age = vm[p].sim + 1) /\ (~vm[p].adv => vm[p].age = vm[p].sim)

\* No frame runs before the cards are agreed.
Cold(p) == ~np[p].mc => ~vm[p].run /\ vm[p].age = 0 /\ vm[p].sim = 0

\* A peer leaves the match between frames.
RunInv == \A p \in Peers : vm[p].run => active[p]

\* Whatever is said of cards on the wire is the host's card.
CardInv ==
    /\ np[g].mc /\ card[h] # Off => card[g] = card[h]
    /\ net.probe.op = "mc" => net.probe.card = card[h]
    /\ net.seen.op = "mc" => net.seen.card = card[h]
    /\ net.tx.item.op = "mc" => net.tx.item.card = card[h]
    /\ net.rx.op = "mc" => net.rx.card = card[h]

NetInv ==
    /\ net.probe.op = "none" => net.probe = NoProbe
    /\ net.seen.op = "none" => net.seen = NoProbe
    /\ net.rx.op = "none" => net.rx = NoRx
    /\ net.tx.st = "none" => net.tx = NoTx
    /\ net.tx.st # "none" => net.tx.item.op # "none"

\* The phase of the host says which probe and which transfer are out, and when a
\* save or a load may be staged.
HostInv == active[h] =>
    /\ net.probe.op = "mc" <=> np[h].xfer = "mc_probe"
    /\ net.probe.op = "save" <=> np[h].xfer = "save_probe"
    /\ net.probe.op = "load" <=> np[h].xfer = "load_probe"
    /\ net.probe.op = "ready" => np[h].xfer = "load_ready"
    /\ net.probe.op = "coord" => np[h].xfer \in {"save_coord", "none"}
    /\ np[h].xfer = "save_coord" => net.probe.op = "coord"
    /\ np[h].xfer = "load_ready" => net.probe.op = IF np[h].synced THEN "none" ELSE "ready"
    /\ net.tx.item.op = "mc" <=> np[h].xfer = "mc_send"
    /\ net.tx.item.op = "save" <=> np[h].xfer = "save_send"
    /\ net.tx.item.op = "load" <=> np[h].xfer = "load_send"
    /\ np[h].failed => np[h].xfer \in {"none", "save_coord"}
    /\ ~np[h].mc =>
          np[h].xfer \in {"none", "mc_probe", "mc_send"} /\ ~np[h].failed /\ net.probe.op # "coord"
    /\ np[h].xfer \in {"mc_probe", "mc_send"} => ~np[h].mc
    /\ (np[h].failed /\ np[h].xfer = "save_coord") =>
          /\ ~np[h].staged
          /\ vm[h].sim < np[h].target /\ (vm[h].run => vm[h].sim + 1 < np[h].target)
    /\ ss[h].save # "no" => np[h].xfer = "save_coord" /\ np[h].staged
    /\ ss[h].load => np[h].xfer = "load_applying"
    /\ ss[h].blob = NoBlob
    /\ net.reply # "none" => net.probe.op # "none"

\* A restored machine runs no frame before its clock is restarted.
Loads(p) == active[p] =>
    /\ (np[p].xfer = "load_applying" /\ ss[p].done) =>
          ~ss[p].load /\ ss[p].save = "no" /\ vm[p].age = 0
    /\ np[p].xfer = "load_ready" =>
          ~ss[p].load /\ ~vm[p].adv /\ vm[p].age = 0 /\ (np[p].synced => vm[p].sim = 0)
    /\ Cold(p)
LoadInv == Loads(h) /\ Loads(g)

\* How far the guest can be behind the host: the probe it sees, the transfer it
\* has not taken and its phase, for each phase of the host.
PhaseInv == Both =>
    /\ HostPlays => GuestSettled /\ net.seen.op # "load"
    /\ (np[h].xfer = "load_ready" /\ (np[h].synced \/ net.reply # "none")) =>
          GuestSettled /\ net.seen.op \in {"ready", "none"}
    /\ np[h].xfer = "load_probe" => net.seen.op # "coord"
    /\ (np[h].xfer = "load_probe" /\ net.seen.op \in {"save", "ready", "mc"}) =>
          GuestSettled /\ net.reply = "none"
    /\ (np[h].xfer \in {"load_send", "load_applying"} \/ (np[h].failed /\ ~Stuck)) =>
          net.seen.op \in {"load", "none"}
    /\ Stuck => net.seen.op \in {"load", "none", "coord"}
    /\ np[h].xfer = "load_ready" => net.seen.op \in {"load", "none", "ready"}
    /\ net.reply # "none" => net.seen = net.probe
    /\ net.seen.op = "coord" =>
          net.probe = net.seen \/ (net.probe.op = "save" /\ net.reply = "none")
    /\ net.seen.op \in {"coord", "ready"} => net.rx.op = "none"
    /\ net.rx.op = "save" =>
          /\ net.seen.op \in {"save", "none"} /\ net.reply = "none" /\ net.probe.op # "save"
          /\ HostPlays \/ np[h].xfer = "load_probe"
          /\ GuestSettled /\ np[g].xfer \in {"save_send", "none"}
    /\ net.rx.op = "mc" =>
          /\ net.seen.op \in {"mc", "none"} /\ net.reply = "none" /\ net.probe.op # "mc"
          /\ HostPlays \/ np[h].xfer = "load_probe"
          /\ GuestSettled /\ np[g].xfer = "none" /\ ~np[g].mc /\ card[g] # card[h]
          /\ ~(net.tx.item.op = "mc" /\ net.tx.st = "sending")
    /\ (net.probe.op = "save" /\ net.reply # "none") => np[g].xfer \in {"save_send", "none"}
    /\ net.tx.item.op = "save" =>
          np[g].xfer \in {"save_send", "none"} /\ net.seen.op \in {"save", "none"}
    /\ (net.tx.item.op = "mc" /\ net.tx.st = "sending") =>
          np[g].xfer = "none" /\ ~np[g].mc /\ card[g] # card[h] /\ net.seen.op \in {"mc", "none"}
    /\ (net.probe.op = "mc" /\ net.reply = "miss") => ~np[g].mc /\ card[g] # card[h]
    /\ net.tx.item.op = "mc" => net.seen.op \in {"mc", "none"}
    /\ ~np[h].mc => np[g].xfer = "none" /\ net.seen.op \in {"none", "mc"}
    /\ (~np[h].mc /\ np[h].xfer = "none") =>
          ~np[g].mc /\ net.seen.op = "none" /\ net.rx.op = "none"
    /\ (net.probe.op = "mc" /\ np[g].mc) => card[g] = card[h]
    /\ (ss[g].load /\ ~Stuck) => np[g].xfer \in {"load_applying", "load_send"}

ClockInv == Both =>
    /\ HostPlays => Aged(h)
    /\ (~Stuck /\ ~np[g].failed /\ np[g].xfer \in {"none", "save_coord", "save_send"}) => Aged(g)

\* The guest's save is written before it answers, and only while the host waits.
CoordInv ==
    /\ ~ss[g].sfail
    /\ (np[g].xfer = "save_coord" /\ ~np[g].acked) =>
          net.seen = net.probe /\ net.probe.op = "coord" /\ net.reply = "none"
    /\ ss[g].save # "no" => np[g].xfer = "save_coord" /\ ~np[g].acked
    /\ (net.seen.op = "coord" /\ (net.reply # "none" \/ net.probe.op = "save")) =>
          np[g].xfer = "save_coord" /\ np[g].acked
    /\ (np[g].xfer = "save_coord" /\ np[g].acked) => np[g].staged

\* While the host loads, every state on the way to the guest is the host's.
TrackInv ==
    (~HostPlays /\ ~Stuck) =>
    /\ ss[h].slot # NoFile
    /\ ss[g].load => LoadSource(g) = ss[h].slot
    /\ (np[g].xfer = "load_applying" /\ ss[g].done) => vm[g].base = ss[h].slot
    /\ np[g].xfer = "load_ready" => vm[g].base = ss[h].slot
    /\ net.seen.op = "load" => net.seen.file = ss[h].slot
    /\ net.probe.op = "load" => net.probe.file = ss[h].slot
    /\ net.rx.op = "load" => net.rx.file = ss[h].slot
    /\ net.tx.item.op = "load" => net.tx.item.file = ss[h].slot

\* When the two machines stem from the same state, and from which.
BaseInv ==
    /\ HostPlays =>
          /\ vm[h].base = vm[g].base
          /\ np[g].xfer = "load_ready" =>
                vm[g].base = ss[h].slot \/ (net.probe.op = "coord" /\ net.reply = "none")
    /\ (np[h].xfer = "load_probe" /\ net.seen.op \in {"save", "ready", "mc"}) =>
          vm[h].base = vm[g].base
    /\ (np[h].xfer = "load_applying" /\ ss[h].done) => vm[h].base = ss[h].slot
    /\ np[h].xfer = "load_ready" => vm[h].base = ss[h].slot
    /\ (np[h].xfer = "load_ready" /\ (np[h].synced \/ net.reply # "none")) =>
          vm[g].base = ss[h].slot
    /\ (np[g].xfer = "load_ready" /\ np[g].synced) => vm[h].base = vm[g].base

SyncInv == (Both /\ "guest_save" \notin broken) => CoordInv /\ TrackInv /\ BaseInv

\* What the guest's slot holds, or is about to, when the host compares or sends.
SaveInv == (active[h] /\ broken = {}) =>
    /\ net.probe.op = "save" => net.probe.file = ss[h].slot
    /\ net.tx.item.op = "save" => net.tx.item.file = ss[h].slot
    /\ (np[h].xfer = "save_probe" /\ net.reply = "match") => ss[g].slot = ss[h].slot
    /\ (np[h].xfer = "save_send" /\ net.tx.st \in {"arrived", "ready"}) =>
          ss[g].slot = ss[h].slot \/ (net.rx.op = "save" /\ net.rx.file = ss[h].slot)
    /\ net.rx.op = "save" => net.reply = "none"
    /\ (np[h].xfer = "save_send" /\ net.rx.op = "save") => net.rx.file = ss[h].slot

IInv ==
    /\ TypeOK /\ RunInv /\ CardInv /\ NetInv /\ HostInv /\ LoadInv
    /\ PhaseInv /\ ClockInv /\ SyncInv /\ SaveInv

USE DEF IInv, LoadPhases, Both, AllStarted, HostPlays, Stuck, GuestSettled, Aged, Cold

-----------------------------------------------------------------------------
(* Types *)

LEMMA TypeParts ==
  ASSUME TypeOK
  PROVE  /\ np \in [Peers -> Exchanges] /\ ss \in [Peers -> Stagings] /\ vm \in [Peers -> Machines]
         /\ net \in Sessions /\ card \in [Peers -> Cards]
         /\ net.seen \in Probes /\ net.probe \in Probes /\ net.rx \in Items /\ net.tx.item \in Items
         /\ net.seen.tick \in Nat /\ net.rx.file \in Seq(Nat)
         /\ \A p \in Peers :
              /\ np[p] \in Exchanges /\ ss[p] \in Stagings /\ vm[p] \in Machines
              /\ ss[p].slot \in Seq(Nat) /\ ss[p].blob \in Seq(Nat) /\ vm[p].base \in Seq(Nat)
              /\ vm[p].sim \in Nat /\ vm[p].age \in Nat
  <1>1. /\ np \in [Peers -> Exchanges] /\ ss \in [Peers -> Stagings] /\ vm \in [Peers -> Machines]
        /\ net \in Sessions /\ card \in [Peers -> Cards]
    BY DEF TypeOK
  <1>2. net.seen \in Probes /\ net.probe \in Probes /\ net.rx \in Items /\ net.tx.item \in Items
    BY <1>1 DEF Sessions
  <1>3. net.seen.tick \in Nat /\ net.rx.file \in Seq(Nat)
    BY <1>2 DEF Probes, Items
  <1>4. \A p \in Peers : np[p] \in Exchanges /\ ss[p] \in Stagings /\ vm[p] \in Machines
    BY <1>1
  <1>5. \A p \in Peers : ss[p].slot \in Seq(Nat) /\ ss[p].blob \in Seq(Nat)
    BY <1>4 DEF Stagings
  <1>6. \A p \in Peers : vm[p].base \in Seq(Nat) /\ vm[p].sim \in Nat /\ vm[p].age \in Nat
    BY <1>4 DEF Machines
  <1> QED  BY <1>1, <1>2, <1>3, <1>4, <1>5, <1>6

LEMMA NoneTypes ==
  /\ NoProbe \in Probes /\ NoRx \in Items
  /\ NoFile \in Seq(Nat) /\ NoBlob \in Seq(Nat) /\ Off \in Cards
  <1>1. NoFile \in Seq(Nat) /\ NoBlob \in Seq(Nat)
    BY DEF NoFile, NoBlob
  <1>2. Off \in Cards
    BY DEF Cards
  <1> HIDE DEF Off
  <1>3. NoProbe \in Probes /\ NoRx \in Items
    BY <1>1, <1>2 DEF NoProbe, NoRx, Probes, Items
  <1> QED  BY <1>1, <1>2, <1>3

LEMMA ProbeType ==
  ASSUME net \in Sessions, NEW pr \in Probes
  PROVE  Probe(pr) \in Sessions
  BY DEF Probe, Sessions

LEMMA NewProbeTypes ==
  ASSUME NEW f \in Seq(Nat), NEW c \in Cards, NEW t \in Nat
  PROVE  /\ [NoProbe EXCEPT !.op = "mc", !.card = c] \in Probes
         /\ [NoProbe EXCEPT !.op = "coord", !.tick = t] \in Probes
         /\ [NoProbe EXCEPT !.op = "save", !.file = f] \in Probes
         /\ [NoProbe EXCEPT !.op = "load", !.file = f] \in Probes
         /\ ReadyProbe \in Probes
  BY NoneTypes DEF Probes, ReadyProbe

LEMMA SendType ==
  ASSUME net \in Sessions, NEW item \in Items
  PROVE  FinishAndSend(item) \in Sessions
  <1>1. ProbeFinish \in Sessions
    BY ProbeType, NoneTypes DEF ProbeFinish
  <1> QED  BY <1>1 DEF FinishAndSend, Sessions

LEMMA NewItemTypes ==
  ASSUME NEW f \in Seq(Nat), NEW c \in Cards
  PROVE  /\ [NoRx EXCEPT !.op = "mc", !.card = c] \in Items
         /\ [NoRx EXCEPT !.op = "save", !.file = f] \in Items
         /\ [NoRx EXCEPT !.op = "load", !.file = f] \in Items
  BY NoneTypes DEF Items

LEMMA SessionTypes ==
  ASSUME net \in Sessions, NEW m \in BOOLEAN
  PROVE  /\ Answer(m) \in Sessions /\ ProbeFinish \in Sessions
         /\ HostFinish \in Sessions /\ GuestFinish \in Sessions
  <1>1. ProbeFinish \in Sessions
    BY ProbeType, NoneTypes DEF ProbeFinish
  <1>2. Answer(m) \in Sessions
    BY DEF Answer, Sessions
  <1>3. NoTx \in [item : Items, st : {"none", "sending", "arrived", "ready"}]
    BY NoneTypes DEF NoTx
  <1>4. HostFinish \in Sessions
    BY <1>3 DEF HostFinish, Sessions
  <1>5. GuestFinish \in Sessions
    BY NoneTypes DEF GuestFinish, Sessions
  <1> QED  BY <1>1, <1>2, <1>4, <1>5

LEMMA ExchangeTypes ==
  ASSUME NEW e \in Exchanges
  PROVE  LoadApplying(e) \in Exchanges /\ LoadReady(e) \in Exchanges
  BY DEF LoadApplying, LoadReady, Exchanges, Phases

LEMMA StagedTypes ==
  ASSUME ss \in [Peers -> Stagings], NEW p \in Peers, NEW b \in Seq(Nat)
  PROVE  StagedSave(p) \in [Peers -> Stagings] /\ StagedLoad(p, b) \in [Peers -> Stagings]
  <1> DEFINE l == [ss[p] EXCEPT !.blob = b, !.load = TRUE, !.done = FALSE, !.lfail = FALSE]
             s == [ss[p] EXCEPT !.sfail = FALSE, !.pc = FALSE,
                                !.save = IF vm[p].run THEN "late" ELSE "edge"]
  <1>1. ss[p] \in Stagings
    OBVIOUS
  <1>2. l \in Stagings /\ s \in Stagings
    BY <1>1 DEF Stagings
  <1>3. StagedLoad(p, b) = [ss EXCEPT ![p] = l] /\ StagedSave(p) = [ss EXCEPT ![p] = s]
    BY DEF StagedLoad, StagedSave
  <1> QED  BY <1>2, <1>3

LEMMA MachineTypes ==
  ASSUME vm \in [Peers -> Machines], NEW p \in Peers
  PROVE  /\ Unlatched(p) \in [Peers -> Machines] /\ Resynced(p) \in [Peers -> Machines]
         /\ Frame(p) \in [Peers -> Machines]
  <1> DEFINE age == vm[p].age + 1
             epoch == vm[p].epoch + 1
             f == [vm[p] EXCEPT !.run = TRUE, !.adv = TRUE, !.age = age]
             r == [vm[p] EXCEPT !.adv = FALSE, !.sim = 0, !.epoch = epoch]
  <1>1. vm[p] \in Machines
    OBVIOUS
  <1>2. age \in Nat /\ epoch \in Nat
    BY <1>1 DEF Machines
  <1>3. Frame(p) = [vm EXCEPT ![p] = f] /\ Resynced(p) = [vm EXCEPT ![p] = r]
    BY DEF Frame, Resynced
  <1>4. Unlatched(p) \in [Peers -> Machines]
    BY DEF Unlatched, Machines
  <1> HIDE DEF age, epoch
  <1>5. f \in Machines /\ r \in Machines
    BY <1>1, <1>2 DEF Machines
  <1> QED  BY <1>3, <1>4, <1>5

LEMMA TypeFacts ==
  ASSUME TypeOK
  PROVE  /\ np[h].xfer \in Phases
         /\ np[g].xfer \in Phases \ {"mc_probe", "mc_send", "save_probe", "load_probe"}
         /\ vm[h].sim \in Nat /\ vm[h].age \in Nat /\ vm[g].sim \in Nat /\ vm[g].age \in Nat
         /\ np[h].target \in Nat /\ net.reply \in {"none", "miss", "match"}
         /\ net.tx.st \in {"none", "sending", "arrived", "ready"}
         /\ net.seen.op \in {"none", "mc", "coord", "save", "load", "ready"}
         /\ net.probe.op \in {"none", "mc", "coord", "save", "load", "ready"}
         /\ net.rx.op \in {"none", "mc", "save", "load"}
         /\ net.tx.item.op \in {"none", "mc", "save", "load"}
         /\ \A p \in Peers : vm[p].adv => vm[p].run
  <1>1. np[h].xfer \in Phases /\ np[g].xfer \in Phases /\ np[h].target \in Nat
    BY TypeParts DEF Exchanges
  <1>2. /\ net.tx.st \in {"none", "sending", "arrived", "ready"}
        /\ net.reply \in {"none", "miss", "match"}
    BY TypeParts DEF Sessions
  <1>3. /\ net.seen.op \in {"none", "mc", "coord", "save", "load", "ready"}
        /\ net.probe.op \in {"none", "mc", "coord", "save", "load", "ready"}
    BY TypeParts DEF Probes
  <1>4. /\ net.rx.op \in {"none", "mc", "save", "load"}
        /\ net.tx.item.op \in {"none", "mc", "save", "load"}
    BY TypeParts DEF Items
  <1>5. vm[h].sim \in Nat /\ vm[h].age \in Nat /\ vm[g].sim \in Nat /\ vm[g].age \in Nat
    BY TypeParts
  <1>6. /\ np[g].xfer \notin {"mc_probe", "mc_send", "save_probe", "load_probe"}
        /\ \A p \in Peers : vm[p].adv => vm[p].run
    BY DEF TypeOK
  <1> QED  BY <1>1, <1>2, <1>3, <1>4, <1>5, <1>6

LEMMA AppendType ==
  ASSUME NEW s \in Seq(Nat), NEW x \in Nat
  PROVE  Append(s, x) \in Seq(Nat)
  OBVIOUS

-----------------------------------------------------------------------------
(* Effects: what a peer's records keep *)

OthersKept_np(p) == \A q \in Peers \ {p} : np'[q] = np[q]
OthersKept_ss(p) == \A q \in Peers \ {p} : ss'[q] = ss[q]
OthersKept_vm(p) == \A q \in Peers \ {p} : vm'[q] = vm[q]
CoordKept(p) ==
    np'[p].staged = np[p].staged /\ np'[p].acked = np[p].acked /\ np'[p].target = np[p].target
SyncKept(p) == np'[p].synced = np[p].synced /\ np'[p].failed = np[p].failed
FilesKept(p) == ss'[p].blob = ss[p].blob /\ ss'[p].slot = ss[p].slot
PendingKept(p) == ss'[p].save = ss[p].save /\ ss'[p].load = ss[p].load
MachineKept(p) == vm'[p].base = vm[p].base /\ vm'[p].age = vm[p].age
FrameKept(p) ==
    vm'[p].run = vm[p].run /\ vm'[p].adv = vm[p].adv /\ vm'[p].sim = vm[p].sim
USE DEF OthersKept_np, OthersKept_ss, OthersKept_vm, CoordKept, SyncKept, FilesKept,
        PendingKept, MachineKept, FrameKept

-----------------------------------------------------------------------------
(* recomp-net *)

DidDeliverProbe ==
    /\ active[h] /\ active[g] /\ net.seen # net.probe /\ net.rx = NoRx
    /\ net'.probe = net.probe /\ net'.seen = net.probe /\ net'.reply = net.reply
    /\ net'.tx = net.tx /\ net'.rx = net.rx
    /\ np' = np /\ ss' = ss /\ vm' = vm /\ active' = active /\ card' = card
    /\ broken' = broken

LEMMA DoDeliverProbe ==
  ASSUME TypeOK, DeliverProbe
  PROVE  DidDeliverProbe
<1>1. /\ active[h] /\ active[g] /\ net.seen # net.probe /\ net.rx = NoRx
  BY DEF TypeOK, DeliverProbe
<1>2. /\ net'.probe = net.probe /\ net'.seen = net.probe /\ net'.reply = net.reply
      /\ net'.tx = net.tx /\ net'.rx = net.rx
  BY DEF TypeOK, DeliverProbe, Sessions
<1>3. /\ np' = np /\ ss' = ss /\ vm' = vm /\ active' = active /\ card' = card
      /\ broken' = broken
  BY DEF TypeOK, DeliverProbe, env
<1> QED  BY <1>1, <1>2, <1>3 DEF DidDeliverProbe

LEMMA TypeDeliverProbe ==
  ASSUME TypeOK, DeliverProbe
  PROVE  TypeOK'
<1>1. net' \in Sessions
  <2>1. net' = [net EXCEPT !.seen = net.probe]
    BY DEF DeliverProbe
  <2> QED  BY <2>1, TypeParts, NoneTypes DEF Sessions
<1>2. /\ active' \in [Peers -> BOOLEAN] /\ card' \in [Peers -> Cards]
      /\ broken' \subseteq Faults /\ mode' \in Modes /\ haste' \in BOOLEAN
      /\ ops' \in 0..MaxOps
  BY SyncAssumption, TypeParts DEF TypeOK, DeliverProbe, env
<1>3. \A q \in Peers : vm'[q].adv => vm'[q].run
  BY DoDeliverProbe DEF TypeOK, DidDeliverProbe
<1>4. np'[g].xfer \notin {"mc_probe", "mc_send", "save_probe", "load_probe"}
  BY DoDeliverProbe DEF TypeOK, DidDeliverProbe
<1> QED  BY <1>1, <1>2, <1>3, <1>4, DoDeliverProbe DEF TypeOK, DidDeliverProbe

DidDeliverChunks ==
    /\ active[h] /\ active[g] /\ net.tx.st = "sending" /\ net.rx = NoRx
    /\ net'.probe = net.probe /\ net'.seen = net.seen /\ net'.reply = net.reply
    /\ net'.rx = net.tx.item
    /\ np' = np /\ ss' = ss /\ vm' = vm /\ active' = active /\ card' = card
    /\ broken' = broken
    /\ net'.tx.st = "arrived" /\ net'.tx.item = net.tx.item

LEMMA DoDeliverChunks ==
  ASSUME TypeOK, DeliverChunks
  PROVE  DidDeliverChunks
<1>1. /\ active[h] /\ active[g] /\ net.tx.st = "sending" /\ net.rx = NoRx
  BY DEF TypeOK, DeliverChunks
<1>2. /\ net'.probe = net.probe /\ net'.seen = net.seen /\ net'.reply = net.reply
      /\ net'.rx = net.tx.item
  BY DEF TypeOK, DeliverChunks, Sessions
<1>3. /\ np' = np /\ ss' = ss /\ vm' = vm /\ active' = active /\ card' = card
      /\ broken' = broken
  BY DEF TypeOK, DeliverChunks, env
<1>4. /\ net'.tx.st = "arrived" /\ net'.tx.item = net.tx.item
  BY DEF TypeOK, DeliverChunks, Sessions
<1> QED  BY <1>1, <1>2, <1>3, <1>4 DEF DidDeliverChunks

LEMMA TypeDeliverChunks ==
  ASSUME TypeOK, DeliverChunks
  PROVE  TypeOK'
<1>1. net' \in Sessions
  <2>1. net' = [net EXCEPT !.tx.st = "arrived", !.rx = net.tx.item]
    BY DEF DeliverChunks
  <2> QED  BY <2>1, TypeParts, NoneTypes DEF Sessions
<1>2. /\ active' \in [Peers -> BOOLEAN] /\ card' \in [Peers -> Cards]
      /\ broken' \subseteq Faults /\ mode' \in Modes /\ haste' \in BOOLEAN
      /\ ops' \in 0..MaxOps
  BY SyncAssumption, TypeParts DEF TypeOK, DeliverChunks, env
<1>3. \A q \in Peers : vm'[q].adv => vm'[q].run
  BY DoDeliverChunks DEF TypeOK, DidDeliverChunks
<1>4. np'[g].xfer \notin {"mc_probe", "mc_send", "save_probe", "load_probe"}
  BY DoDeliverChunks DEF TypeOK, DidDeliverChunks
<1> QED  BY <1>1, <1>2, <1>3, <1>4, DoDeliverChunks DEF TypeOK, DidDeliverChunks

DidDeliverAck ==
    /\ active[h] /\ active[g] /\ net.tx.st = "arrived"
    /\ net'.probe = net.probe /\ net'.seen = net.seen /\ net'.reply = net.reply
    /\ net'.rx = net.rx
    /\ np' = np /\ ss' = ss /\ vm' = vm /\ active' = active /\ card' = card
    /\ broken' = broken
    /\ net'.tx.st = "ready" /\ net'.tx.item = net.tx.item

LEMMA DoDeliverAck ==
  ASSUME TypeOK, DeliverAck
  PROVE  DidDeliverAck
<1>1. /\ active[h] /\ active[g] /\ net.tx.st = "arrived"
  BY DEF TypeOK, DeliverAck
<1>2. /\ net'.probe = net.probe /\ net'.seen = net.seen /\ net'.reply = net.reply
      /\ net'.rx = net.rx
  BY DEF TypeOK, DeliverAck, Sessions
<1>3. /\ np' = np /\ ss' = ss /\ vm' = vm /\ active' = active /\ card' = card
      /\ broken' = broken
  BY DEF TypeOK, DeliverAck, env
<1>4. /\ net'.tx.st = "ready" /\ net'.tx.item = net.tx.item
  BY DEF TypeOK, DeliverAck, Sessions
<1> QED  BY <1>1, <1>2, <1>3, <1>4 DEF DidDeliverAck

LEMMA TypeDeliverAck ==
  ASSUME TypeOK, DeliverAck
  PROVE  TypeOK'
<1>1. net' \in Sessions
  <2>1. net' = [net EXCEPT !.tx.st = "ready"]
    BY DEF DeliverAck
  <2> QED  BY <2>1, TypeParts, NoneTypes DEF Sessions
<1>2. /\ active' \in [Peers -> BOOLEAN] /\ card' \in [Peers -> Cards]
      /\ broken' \subseteq Faults /\ mode' \in Modes /\ haste' \in BOOLEAN
      /\ ops' \in 0..MaxOps
  BY SyncAssumption, TypeParts DEF TypeOK, DeliverAck, env
<1>3. \A q \in Peers : vm'[q].adv => vm'[q].run
  BY DoDeliverAck DEF TypeOK, DidDeliverAck
<1>4. np'[g].xfer \notin {"mc_probe", "mc_send", "save_probe", "load_probe"}
  BY DoDeliverAck DEF TypeOK, DidDeliverAck
<1> QED  BY <1>1, <1>2, <1>3, <1>4, DoDeliverAck DEF TypeOK, DidDeliverAck

-----------------------------------------------------------------------------
(* np_guest_handle_probe *)

DidGuestReadyNow ==
    /\ active[g] /\ net.seen.op = "ready" /\ np[g].xfer = "load_applying" /\ ss[g].done
    /\ ~ss[g].load /\ ss[g].save = "no"
    /\ np'[h] = np[h] /\ np'[g].xfer = "load_ready" /\ np'[g].synced = TRUE /\ CoordKept(g)
    /\ np'[g].mc = np[g].mc /\ np'[g].failed = np[g].failed
    /\ ss'[h] = ss[h] /\ ss'[g].done = FALSE /\ FilesKept(g) /\ PendingKept(g)
    /\ ss'[g].sfail = ss[g].sfail
    /\ vm'[h] = vm[h] /\ vm'[g].adv = FALSE /\ vm'[g].sim = 0 /\ MachineKept(g)
    /\ vm'[g].run = vm[g].run
    /\ net'.probe = net.probe /\ net'.seen = net.seen /\ net'.tx = net.tx
    /\ net'.rx = net.rx
    /\ active' = active /\ card' = card /\ broken' = broken
    /\ (net.seen # net.probe => net'.reply = net.reply)
    /\ (net.seen = net.probe => net'.reply = "match")

LEMMA DoGuestReadyNow ==
  ASSUME TypeOK, GuestReady, JustApplied(g)
  PROVE  DidGuestReadyNow
<1>1. /\ active[g] /\ net.seen.op = "ready" /\ np[g].xfer = "load_applying" /\ ss[g].done
      /\ ~ss[g].load /\ ss[g].save = "no"
  BY DEF TypeOK, GuestReady, JustApplied, Pending
<1>2. /\ np'[h] = np[h] /\ np'[g].xfer = "load_ready" /\ np'[g].synced = TRUE
      /\ CoordKept(g) /\ np'[g].mc = np[g].mc /\ np'[g].failed = np[g].failed
  BY DEF TypeOK, GuestReady, LoadReady, Exchanges
<1>3. /\ ss'[h] = ss[h] /\ ss'[g].done = FALSE /\ FilesKept(g) /\ PendingKept(g)
      /\ ss'[g].sfail = ss[g].sfail
  BY DEF TypeOK, GuestReady, Stagings
<1>4. /\ vm'[h] = vm[h] /\ vm'[g].adv = FALSE /\ vm'[g].sim = 0 /\ MachineKept(g)
      /\ vm'[g].run = vm[g].run
  BY DEF TypeOK, GuestReady, LoadReady, Resynced, Machines
<1>5. /\ net'.probe = net.probe /\ net'.seen = net.seen /\ net'.tx = net.tx
      /\ net'.rx = net.rx
  BY DEF TypeOK, GuestReady, Answer, Sessions
<1>6. /\ active' = active /\ card' = card /\ broken' = broken
  BY DEF TypeOK, GuestReady, env
<1>7. /\ (net.seen # net.probe => net'.reply = net.reply)
      /\ (net.seen = net.probe => net'.reply = "match")
  BY DEF TypeOK, GuestReady, Answer, Sessions
<1> QED  BY <1>1, <1>2, <1>3, <1>4, <1>5, <1>6, <1>7 DEF DidGuestReadyNow

LEMMA TypeGuestReadyNow ==
  ASSUME TypeOK, GuestReady, JustApplied(g)
  PROVE  TypeOK'
<1>1. np' \in [Peers -> Exchanges]
  <2> DEFINE e == LoadReady(np[g])
             f == [e EXCEPT !.synced = TRUE, !.replied = TRUE]
  <2>1. e \in Exchanges
    BY TypeParts, ExchangeTypes
  <2>2. np' = [np EXCEPT ![g] = f]
    BY DEF GuestReady
  <2> HIDE DEF e
  <2>3. f \in Exchanges
    BY <2>1 DEF Exchanges
  <2> HIDE DEF f
  <2> QED  BY <2>2, <2>3, TypeParts
<1>2. ss' \in [Peers -> Stagings]
  <2>1. ss' = [ss EXCEPT ![g].done = FALSE]
    BY DEF GuestReady
  <2> QED  BY <2>1, TypeParts, NoneTypes DEF Stagings
<1>3. vm' \in [Peers -> Machines]
  <2>1. vm' = Resynced(g)
    BY DEF GuestReady, LoadReady
  <2> QED  BY <2>1, TypeParts, MachineTypes
<1>4. net' \in Sessions
  <2>1. net' = Answer(TRUE)
    BY DEF GuestReady
  <2> QED  BY <2>1, TypeParts, NoneTypes, SessionTypes
<1>5. /\ active' \in [Peers -> BOOLEAN] /\ card' \in [Peers -> Cards]
      /\ broken' \subseteq Faults /\ mode' \in Modes /\ haste' \in BOOLEAN
      /\ ops' \in 0..MaxOps
  BY SyncAssumption, TypeParts DEF TypeOK, GuestReady, env
<1>6. \A q \in Peers : vm'[q].adv => vm'[q].run
  BY DoGuestReadyNow DEF TypeOK, DidGuestReadyNow
<1>7. np'[g].xfer \notin {"mc_probe", "mc_send", "save_probe", "load_probe"}
  BY DoGuestReadyNow DEF TypeOK, DidGuestReadyNow
<1> QED  BY <1>1, <1>2, <1>3, <1>4, <1>5, <1>6, <1>7 DEF TypeOK

DidGuestReadyAgain ==
    /\ active[g] /\ net.seen.op = "ready" /\ np[g].xfer = "load_ready"
    /\ np'[h] = np[h] /\ np'[g].synced = TRUE /\ CoordKept(g) /\ np'[g].xfer = np[g].xfer
    /\ np'[g].mc = np[g].mc /\ np'[g].failed = np[g].failed
    /\ vm'[h] = vm[h] /\ MachineKept(g) /\ vm'[g].run = vm[g].run
    /\ net'.probe = net.probe /\ net'.seen = net.seen /\ net'.tx = net.tx
    /\ net'.rx = net.rx
    /\ ss' = ss /\ active' = active /\ card' = card /\ broken' = broken
    /\ (net.seen # net.probe => net'.reply = net.reply)
    /\ (net.seen = net.probe => net'.reply = "match") /\ (np[g].synced => vm' = vm)
    /\ (~np[g].synced => vm'[g].sim = 0 /\ vm'[g].adv = FALSE)

LEMMA DoGuestReadyAgain ==
  ASSUME TypeOK, GuestReady, ~JustApplied(g)
  PROVE  DidGuestReadyAgain
<1>1. /\ active[g] /\ net.seen.op = "ready" /\ np[g].xfer = "load_ready"
  BY DEF TypeOK, GuestReady
<1>2. /\ np'[h] = np[h] /\ np'[g].synced = TRUE /\ CoordKept(g) /\ np'[g].xfer = np[g].xfer
      /\ np'[g].mc = np[g].mc /\ np'[g].failed = np[g].failed
  BY DEF TypeOK, GuestReady, LoadReady, Exchanges
<1>3. /\ vm'[h] = vm[h] /\ MachineKept(g) /\ vm'[g].run = vm[g].run
  BY DEF TypeOK, GuestReady, LoadReady, Resynced, Machines
<1>4. /\ net'.probe = net.probe /\ net'.seen = net.seen /\ net'.tx = net.tx
      /\ net'.rx = net.rx
  BY DEF TypeOK, GuestReady, Answer, Sessions
<1>5. /\ ss' = ss /\ active' = active /\ card' = card /\ broken' = broken
  BY DEF TypeOK, GuestReady, env
<1>6. /\ (net.seen # net.probe => net'.reply = net.reply)
      /\ (net.seen = net.probe => net'.reply = "match") /\ (np[g].synced => vm' = vm)
      /\ (~np[g].synced => vm'[g].sim = 0 /\ vm'[g].adv = FALSE)
  BY DEF TypeOK, GuestReady, LoadReady, Resynced, Answer, Machines, Sessions
<1> QED  BY <1>1, <1>2, <1>3, <1>4, <1>5, <1>6 DEF DidGuestReadyAgain

LEMMA TypeGuestReadyAgain ==
  ASSUME TypeOK, GuestReady, ~JustApplied(g)
  PROVE  TypeOK'
<1>1. np' \in [Peers -> Exchanges]
  <2>1. np' = [np EXCEPT ![g] = [np[g] EXCEPT !.synced = TRUE, !.replied = TRUE]]
    BY DEF GuestReady
  <2> QED  BY <2>1, TypeParts DEF Exchanges, Phases
<1>2. vm' \in [Peers -> Machines]
  <2>1. vm' = IF np[g].synced THEN vm ELSE Resynced(g)
    BY DEF GuestReady
  <2> QED  BY <2>1, TypeParts, MachineTypes
<1>3. net' \in Sessions
  <2>1. net' = Answer(TRUE)
    BY DEF GuestReady
  <2> QED  BY <2>1, TypeParts, NoneTypes, SessionTypes
<1>4. /\ active' \in [Peers -> BOOLEAN] /\ card' \in [Peers -> Cards]
      /\ broken' \subseteq Faults /\ mode' \in Modes /\ haste' \in BOOLEAN
      /\ ops' \in 0..MaxOps
  BY SyncAssumption, TypeParts DEF TypeOK, GuestReady, env
<1>5. \A q \in Peers : vm'[q].adv => vm'[q].run
  BY DoGuestReadyAgain DEF TypeOK, DidGuestReadyAgain
<1>6. np'[g].xfer \notin {"mc_probe", "mc_send", "save_probe", "load_probe"}
  BY DoGuestReadyAgain DEF TypeOK, DidGuestReadyAgain
<1> QED  BY <1>1, <1>2, <1>3, <1>4, <1>5, <1>6, DoGuestReadyAgain DEF TypeOK, DidGuestReadyAgain

DidGuestCoordArm ==
    /\ active[g] /\ net.seen.op = "coord" /\ np[g].xfer # "save_coord"
    /\ np'[h] = np[h] /\ np'[g].xfer = "save_coord" /\ np'[g].staged = FALSE
    /\ np'[g].acked = FALSE /\ np'[g].target = net.seen.tick /\ SyncKept(g)
    /\ np'[g].mc = np[g].mc
    /\ ss' = ss /\ vm' = vm /\ net' = net /\ active' = active /\ card' = card
    /\ broken' = broken

LEMMA DoGuestCoordArm ==
  ASSUME TypeOK, GuestCoordArm
  PROVE  DidGuestCoordArm
<1>1. /\ active[g] /\ net.seen.op = "coord" /\ np[g].xfer # "save_coord"
  BY DEF TypeOK, GuestCoordArm
<1>2. /\ np'[h] = np[h] /\ np'[g].xfer = "save_coord" /\ np'[g].staged = FALSE
      /\ np'[g].acked = FALSE /\ np'[g].target = net.seen.tick /\ SyncKept(g)
      /\ np'[g].mc = np[g].mc
  BY DEF TypeOK, GuestCoordArm, Exchanges
<1>3. /\ ss' = ss /\ vm' = vm /\ net' = net /\ active' = active /\ card' = card
      /\ broken' = broken
  BY DEF TypeOK, GuestCoordArm, env
<1> QED  BY <1>1, <1>2, <1>3 DEF DidGuestCoordArm

LEMMA TypeGuestCoordArm ==
  ASSUME TypeOK, GuestCoordArm
  PROVE  TypeOK'
<1>1. np' \in [Peers -> Exchanges]
  <2>1. np' = [np EXCEPT ![g].xfer = "save_coord", ![g].target = net.seen.tick,
                         ![g].staged = FALSE, ![g].acked = FALSE]
    BY DEF GuestCoordArm
  <2> QED  BY <2>1, TypeParts DEF Exchanges, Phases
<1>2. /\ active' \in [Peers -> BOOLEAN] /\ card' \in [Peers -> Cards]
      /\ broken' \subseteq Faults /\ mode' \in Modes /\ haste' \in BOOLEAN
      /\ ops' \in 0..MaxOps
  BY SyncAssumption, TypeParts DEF TypeOK, GuestCoordArm, env
<1>3. \A q \in Peers : vm'[q].adv => vm'[q].run
  BY DoGuestCoordArm DEF TypeOK, DidGuestCoordArm
<1>4. np'[g].xfer \notin {"mc_probe", "mc_send", "save_probe", "load_probe"}
  BY DoGuestCoordArm DEF TypeOK, DidGuestCoordArm
<1> QED  BY <1>1, <1>2, <1>3, <1>4, DoGuestCoordArm DEF TypeOK, DidGuestCoordArm

DidGuestCoordFailed ==
    /\ active[g] /\ net.seen.op = "coord" /\ ss[g].sfail
    /\ np'[h] = np[h] /\ np'[g].xfer = "none" /\ np'[g].staged = FALSE
    /\ np'[g].acked = FALSE /\ np'[g].target = net.seen.tick /\ SyncKept(g)
    /\ np'[g].mc = np[g].mc
    /\ ss'[h] = ss[h] /\ ss'[g].sfail = FALSE /\ FilesKept(g) /\ PendingKept(g)
    /\ ss'[g].done = ss[g].done
    /\ net'.probe = net.probe /\ net'.seen = net.seen /\ net'.tx = net.tx
    /\ net'.rx = net.rx
    /\ vm' = vm /\ active' = active /\ card' = card /\ broken' = broken
    /\ (net.seen # net.probe => net'.reply = net.reply)
    /\ (net.seen = net.probe => net'.reply = "miss")

LEMMA DoGuestCoordFailed ==
  ASSUME TypeOK, GuestCoordFailed
  PROVE  DidGuestCoordFailed
<1>1. /\ active[g] /\ net.seen.op = "coord" /\ ss[g].sfail
  BY DEF TypeOK, GuestCoordFailed
<1>2. /\ np'[h] = np[h] /\ np'[g].xfer = "none" /\ np'[g].staged = FALSE
      /\ np'[g].acked = FALSE /\ np'[g].target = net.seen.tick /\ SyncKept(g)
      /\ np'[g].mc = np[g].mc
  BY DEF TypeOK, GuestCoordFailed, Exchanges
<1>3. /\ ss'[h] = ss[h] /\ ss'[g].sfail = FALSE /\ FilesKept(g) /\ PendingKept(g)
      /\ ss'[g].done = ss[g].done
  BY DEF TypeOK, GuestCoordFailed, Stagings
<1>4. /\ net'.probe = net.probe /\ net'.seen = net.seen /\ net'.tx = net.tx
      /\ net'.rx = net.rx
  BY DEF TypeOK, GuestCoordFailed, Answer, Sessions
<1>5. /\ vm' = vm /\ active' = active /\ card' = card /\ broken' = broken
  BY DEF TypeOK, GuestCoordFailed, env
<1>6. /\ (net.seen # net.probe => net'.reply = net.reply)
      /\ (net.seen = net.probe => net'.reply = "miss")
  BY DEF TypeOK, GuestCoordFailed, Answer, Sessions
<1> QED  BY <1>1, <1>2, <1>3, <1>4, <1>5, <1>6 DEF DidGuestCoordFailed

LEMMA TypeGuestCoordFailed ==
  ASSUME TypeOK, GuestCoordFailed
  PROVE  TypeOK'
<1>1. np' \in [Peers -> Exchanges]
  <2>1. np' = [np EXCEPT ![g].xfer = "none", ![g].target = net.seen.tick,
                         ![g].staged = FALSE, ![g].acked = FALSE]
    BY DEF GuestCoordFailed
  <2> QED  BY <2>1, TypeParts DEF Exchanges, Phases
<1>2. ss' \in [Peers -> Stagings]
  <2>1. ss' = [ss EXCEPT ![g].sfail = FALSE]
    BY DEF GuestCoordFailed
  <2> QED  BY <2>1, TypeParts, NoneTypes DEF Stagings
<1>3. net' \in Sessions
  <2>1. net' = Answer(FALSE)
    BY DEF GuestCoordFailed
  <2> QED  BY <2>1, TypeParts, NoneTypes, SessionTypes
<1>4. /\ active' \in [Peers -> BOOLEAN] /\ card' \in [Peers -> Cards]
      /\ broken' \subseteq Faults /\ mode' \in Modes /\ haste' \in BOOLEAN
      /\ ops' \in 0..MaxOps
  BY SyncAssumption, TypeParts DEF TypeOK, GuestCoordFailed, env
<1>5. \A q \in Peers : vm'[q].adv => vm'[q].run
  BY DoGuestCoordFailed DEF TypeOK, DidGuestCoordFailed
<1>6. np'[g].xfer \notin {"mc_probe", "mc_send", "save_probe", "load_probe"}
  BY DoGuestCoordFailed DEF TypeOK, DidGuestCoordFailed
<1> QED  BY <1>1, <1>2, <1>3, <1>4, <1>5, <1>6, DoGuestCoordFailed DEF TypeOK,
            DidGuestCoordFailed

DidGuestCoordAck ==
    /\ active[g] /\ net.seen.op = "coord" /\ np[g].xfer = "save_coord" /\ np[g].staged
    /\ ss[g].save = "no"
    /\ np'[h] = np[h] /\ np'[g].acked = TRUE /\ SyncKept(g) /\ np'[g].xfer = np[g].xfer
    /\ np'[g].mc = np[g].mc /\ np'[g].staged = np[g].staged /\ np'[g].target = np[g].target
    /\ net'.probe = net.probe /\ net'.seen = net.seen /\ net'.tx = net.tx
    /\ net'.rx = net.rx
    /\ ss' = ss /\ vm' = vm /\ active' = active /\ card' = card /\ broken' = broken
    /\ (net.seen # net.probe => net'.reply = net.reply)
    /\ (net.seen = net.probe => net'.reply = "match")

LEMMA DoGuestCoordAck ==
  ASSUME TypeOK, GuestCoordAck
  PROVE  DidGuestCoordAck
<1>1. /\ active[g] /\ net.seen.op = "coord" /\ np[g].xfer = "save_coord" /\ np[g].staged
      /\ ss[g].save = "no"
  BY DEF TypeOK, GuestCoordAck, SaveWritten, Pending
<1>2. /\ np'[h] = np[h] /\ np'[g].acked = TRUE /\ SyncKept(g) /\ np'[g].xfer = np[g].xfer
      /\ np'[g].mc = np[g].mc /\ np'[g].staged = np[g].staged
      /\ np'[g].target = np[g].target
  BY DEF TypeOK, GuestCoordAck, Exchanges
<1>3. /\ net'.probe = net.probe /\ net'.seen = net.seen /\ net'.tx = net.tx
      /\ net'.rx = net.rx
  BY DEF TypeOK, GuestCoordAck, Answer, Sessions
<1>4. /\ ss' = ss /\ vm' = vm /\ active' = active /\ card' = card /\ broken' = broken
  BY DEF TypeOK, GuestCoordAck, env
<1>5. /\ (net.seen # net.probe => net'.reply = net.reply)
      /\ (net.seen = net.probe => net'.reply = "match")
  BY DEF TypeOK, GuestCoordAck, Answer, Sessions
<1> QED  BY <1>1, <1>2, <1>3, <1>4, <1>5 DEF DidGuestCoordAck

LEMMA TypeGuestCoordAck ==
  ASSUME TypeOK, GuestCoordAck
  PROVE  TypeOK'
<1>1. np' \in [Peers -> Exchanges]
  <2>1. np' = [np EXCEPT ![g].acked = TRUE]
    BY DEF GuestCoordAck
  <2> QED  BY <2>1, TypeParts DEF Exchanges, Phases
<1>2. net' \in Sessions
  <2>1. net' = Answer(TRUE)
    BY DEF GuestCoordAck
  <2> QED  BY <2>1, TypeParts, NoneTypes, SessionTypes
<1>3. /\ active' \in [Peers -> BOOLEAN] /\ card' \in [Peers -> Cards]
      /\ broken' \subseteq Faults /\ mode' \in Modes /\ haste' \in BOOLEAN
      /\ ops' \in 0..MaxOps
  BY SyncAssumption, TypeParts DEF TypeOK, GuestCoordAck, env
<1>4. \A q \in Peers : vm'[q].adv => vm'[q].run
  BY DoGuestCoordAck DEF TypeOK, DidGuestCoordAck
<1>5. np'[g].xfer \notin {"mc_probe", "mc_send", "save_probe", "load_probe"}
  BY DoGuestCoordAck DEF TypeOK, DidGuestCoordAck
<1> QED  BY <1>1, <1>2, <1>3, <1>4, <1>5, DoGuestCoordAck DEF TypeOK, DidGuestCoordAck

DidGuestCard ==
    /\ active[g] /\ net.seen.op = "mc"
    /\ np'[h] = np[h] /\ CoordKept(g) /\ SyncKept(g) /\ np'[g].xfer = np[g].xfer
    /\ net'.probe = net.probe /\ net'.seen = net.seen /\ net'.tx = net.tx
    /\ net'.rx = net.rx
    /\ ss' = ss /\ vm' = vm /\ active' = active /\ card' = card /\ broken' = broken
    /\ (np[g].mc => np'[g].mc) /\ ((np'[g].mc /\ ~np[g].mc) => card[g] = net.seen.card)
    /\ (card[g] = net.seen.card => np'[g].mc)
    /\ (net.seen # net.probe => net'.reply = net.reply)
    /\ ((net.seen = net.probe /\ (card[g] = net.seen.card)) => net'.reply = "match")
    /\ ((net.seen = net.probe /\ ~(card[g] = net.seen.card)) => net'.reply = "miss")

LEMMA DoGuestCard ==
  ASSUME TypeOK, GuestCard
  PROVE  DidGuestCard
<1>1. /\ active[g] /\ net.seen.op = "mc"
  BY DEF TypeOK, GuestCard
<1>2. /\ np'[h] = np[h] /\ CoordKept(g) /\ SyncKept(g) /\ np'[g].xfer = np[g].xfer
  BY DEF TypeOK, GuestCard, Exchanges
<1>3. /\ net'.probe = net.probe /\ net'.seen = net.seen /\ net'.tx = net.tx
      /\ net'.rx = net.rx
  BY DEF TypeOK, GuestCard, Answer, Sessions
<1>4. /\ ss' = ss /\ vm' = vm /\ active' = active /\ card' = card /\ broken' = broken
  BY DEF TypeOK, GuestCard, env
<1>5. /\ (np[g].mc => np'[g].mc) /\ ((np'[g].mc /\ ~np[g].mc) => card[g] = net.seen.card)
      /\ (card[g] = net.seen.card => np'[g].mc)
      /\ (net.seen # net.probe => net'.reply = net.reply)
      /\ ((net.seen = net.probe /\ (card[g] = net.seen.card)) => net'.reply = "match")
      /\ ((net.seen = net.probe /\ ~(card[g] = net.seen.card)) => net'.reply = "miss")
  BY DEF TypeOK, GuestCard, Answer, Exchanges, Sessions
<1> QED  BY <1>1, <1>2, <1>3, <1>4, <1>5 DEF DidGuestCard

LEMMA TypeGuestCard ==
  ASSUME TypeOK, GuestCard
  PROVE  TypeOK'
<1>1. np' \in [Peers -> Exchanges]
  <2>1. np' = [np EXCEPT ![g].mc = @ \/ card[g] = net.seen.card]
    BY DEF GuestCard
  <2> QED  BY <2>1, TypeParts DEF Exchanges, Phases
<1>2. net' \in Sessions
  <2>1. net' = Answer(card[g] = net.seen.card)
    BY DEF GuestCard
  <2> QED  BY <2>1, TypeParts, NoneTypes, SessionTypes
<1>3. /\ active' \in [Peers -> BOOLEAN] /\ card' \in [Peers -> Cards]
      /\ broken' \subseteq Faults /\ mode' \in Modes /\ haste' \in BOOLEAN
      /\ ops' \in 0..MaxOps
  BY SyncAssumption, TypeParts DEF TypeOK, GuestCard, env
<1>4. \A q \in Peers : vm'[q].adv => vm'[q].run
  BY DoGuestCard DEF TypeOK, DidGuestCard
<1>5. np'[g].xfer \notin {"mc_probe", "mc_send", "save_probe", "load_probe"}
  BY DoGuestCard DEF TypeOK, DidGuestCard
<1> QED  BY <1>1, <1>2, <1>3, <1>4, <1>5, DoGuestCard DEF TypeOK, DidGuestCard

DidGuestHashSave ==
    /\ active[g] /\ net.seen.op = "save"
    /\ np'[h] = np[h] /\ CoordKept(g) /\ SyncKept(g) /\ np'[g].mc = np[g].mc
    /\ net'.probe = net.probe /\ net'.seen = net.seen /\ net'.tx = net.tx
    /\ net'.rx = net.rx
    /\ ss' = ss /\ vm' = vm /\ active' = active /\ card' = card /\ broken' = broken
    /\ (net.seen # net.probe => net'.reply = net.reply)
    /\ ((net.seen = net.probe /\ SlotMatches) => net'.reply = "match")
    /\ ((net.seen = net.probe /\ ~SlotMatches) => net'.reply = "miss")
    /\ (SlotMatches => np'[g].xfer = "none" /\ ss[g].slot = net.seen.file)
    /\ (~SlotMatches => np'[g].xfer = "save_send")

LEMMA DoGuestHashSave ==
  ASSUME TypeOK, GuestHashSave
  PROVE  DidGuestHashSave
<1>1. /\ active[g] /\ net.seen.op = "save"
  BY DEF TypeOK, GuestHashSave, SlotMatches
<1>2. /\ np'[h] = np[h] /\ CoordKept(g) /\ SyncKept(g) /\ np'[g].mc = np[g].mc
  BY DEF TypeOK, GuestHashSave, Exchanges
<1>3. /\ net'.probe = net.probe /\ net'.seen = net.seen /\ net'.tx = net.tx
      /\ net'.rx = net.rx
  BY DEF TypeOK, GuestHashSave, Answer, Sessions
<1>4. /\ ss' = ss /\ vm' = vm /\ active' = active /\ card' = card /\ broken' = broken
  BY DEF TypeOK, GuestHashSave, env
<1>5. /\ (net.seen # net.probe => net'.reply = net.reply)
      /\ ((net.seen = net.probe /\ SlotMatches) => net'.reply = "match")
      /\ ((net.seen = net.probe /\ ~SlotMatches) => net'.reply = "miss")
      /\ (SlotMatches => np'[g].xfer = "none" /\ ss[g].slot = net.seen.file)
      /\ (~SlotMatches => np'[g].xfer = "save_send")
  BY DEF TypeOK, GuestHashSave, SlotMatches, Answer, Exchanges, Sessions
<1> QED  BY <1>1, <1>2, <1>3, <1>4, <1>5 DEF DidGuestHashSave

LEMMA TypeGuestHashSave ==
  ASSUME TypeOK, GuestHashSave
  PROVE  TypeOK'
<1>1. np' \in [Peers -> Exchanges]
  <2>1. np' = [np EXCEPT ![g].xfer = IF SlotMatches THEN "none" ELSE "save_send"]
    BY DEF GuestHashSave
  <2> QED  BY <2>1, TypeParts DEF Exchanges, Phases
<1>2. net' \in Sessions
  <2>1. net' = Answer(SlotMatches) /\ SlotMatches \in BOOLEAN
    BY DEF GuestHashSave, SlotMatches
  <2> QED  BY <2>1, TypeParts, SessionTypes
<1>3. /\ active' \in [Peers -> BOOLEAN] /\ card' \in [Peers -> Cards]
      /\ broken' \subseteq Faults /\ mode' \in Modes /\ haste' \in BOOLEAN
      /\ ops' \in 0..MaxOps
  BY SyncAssumption, TypeParts DEF TypeOK, GuestHashSave, env
<1>4. \A q \in Peers : vm'[q].adv => vm'[q].run
  BY DoGuestHashSave DEF TypeOK, DidGuestHashSave
<1>5. np'[g].xfer \notin {"mc_probe", "mc_send", "save_probe", "load_probe"}
  BY DoGuestHashSave DEF TypeOK, DidGuestHashSave
<1> QED  BY <1>1, <1>2, <1>3, <1>4, <1>5, DoGuestHashSave DEF TypeOK, DidGuestHashSave

DidGuestHashMiss ==
    /\ active[g] /\ net.seen.op = "load"
    /\ np'[h] = np[h] /\ np'[g].xfer = "load_send" /\ CoordKept(g) /\ SyncKept(g)
    /\ np'[g].mc = np[g].mc
    /\ net'.probe = net.probe /\ net'.seen = net.seen /\ net'.tx = net.tx
    /\ net'.rx = net.rx
    /\ ss' = ss /\ vm' = vm /\ active' = active /\ card' = card /\ broken' = broken
    /\ (net.seen # net.probe => net'.reply = net.reply)
    /\ (net.seen = net.probe => net'.reply = "miss")

LEMMA DoGuestHashMiss ==
  ASSUME TypeOK, GuestHashLoad, ~SlotMatches
  PROVE  DidGuestHashMiss
<1>1. /\ active[g] /\ net.seen.op = "load"
  BY DEF TypeOK, GuestHashLoad
<1>2. /\ np'[h] = np[h] /\ np'[g].xfer = "load_send" /\ CoordKept(g) /\ SyncKept(g)
      /\ np'[g].mc = np[g].mc
  BY DEF TypeOK, GuestHashLoad, Exchanges
<1>3. /\ net'.probe = net.probe /\ net'.seen = net.seen /\ net'.tx = net.tx
      /\ net'.rx = net.rx
  BY DEF TypeOK, GuestHashLoad, Answer, Sessions
<1>4. /\ ss' = ss /\ vm' = vm /\ active' = active /\ card' = card /\ broken' = broken
  BY DEF TypeOK, GuestHashLoad, env
<1>5. /\ (net.seen # net.probe => net'.reply = net.reply)
      /\ (net.seen = net.probe => net'.reply = "miss")
  BY DEF TypeOK, GuestHashLoad, Answer, Sessions
<1> QED  BY <1>1, <1>2, <1>3, <1>4, <1>5 DEF DidGuestHashMiss

LEMMA TypeGuestHashMiss ==
  ASSUME TypeOK, GuestHashLoad, ~SlotMatches
  PROVE  TypeOK'
<1>1. np' \in [Peers -> Exchanges]
  <2>1. np' = [np EXCEPT ![g].xfer = "load_send"]
    BY DEF GuestHashLoad
  <2> QED  BY <2>1, TypeParts DEF Exchanges, Phases
<1>2. net' \in Sessions
  <2>1. net' = Answer(SlotMatches) /\ SlotMatches \in BOOLEAN
    BY DEF GuestHashLoad, SlotMatches
  <2> QED  BY <2>1, TypeParts, SessionTypes
<1>3. /\ active' \in [Peers -> BOOLEAN] /\ card' \in [Peers -> Cards]
      /\ broken' \subseteq Faults /\ mode' \in Modes /\ haste' \in BOOLEAN
      /\ ops' \in 0..MaxOps
  BY SyncAssumption, TypeParts DEF TypeOK, GuestHashLoad, env
<1>4. \A q \in Peers : vm'[q].adv => vm'[q].run
  BY DoGuestHashMiss DEF TypeOK, DidGuestHashMiss
<1>5. np'[g].xfer \notin {"mc_probe", "mc_send", "save_probe", "load_probe"}
  BY DoGuestHashMiss DEF TypeOK, DidGuestHashMiss
<1> QED  BY <1>1, <1>2, <1>3, <1>4, <1>5, DoGuestHashMiss DEF TypeOK, DidGuestHashMiss

DidGuestHashStage ==
    /\ active[g] /\ net.seen.op = "load" /\ ss[g].slot = net.seen.file
    /\ np'[h] = np[h] /\ np'[g].xfer = "load_applying" /\ np'[g].synced = FALSE
    /\ CoordKept(g) /\ np'[g].mc = np[g].mc /\ np'[g].failed = np[g].failed
    /\ ss'[h] = ss[h] /\ ss'[g].load = TRUE /\ ss'[g].blob = NoBlob /\ ss'[g].done = FALSE
    /\ ss'[g].save = ss[g].save /\ ss'[g].sfail = ss[g].sfail /\ ss'[g].slot = ss[g].slot
    /\ vm'[h] = vm[h] /\ vm'[g].adv = FALSE /\ MachineKept(g) /\ vm'[g].run = vm[g].run
    /\ vm'[g].sim = vm[g].sim
    /\ net'.probe = net.probe /\ net'.seen = net.seen /\ net'.tx = net.tx
    /\ net'.rx = net.rx
    /\ active' = active /\ card' = card /\ broken' = broken
    /\ (net.seen # net.probe => net'.reply = net.reply)
    /\ (net.seen = net.probe => net'.reply = "match")

LEMMA DoGuestHashStage ==
  ASSUME TypeOK, GuestHashLoad, SlotMatches, np[g].xfer \notin {"load_applying", "load_ready"}
  PROVE  DidGuestHashStage
<1>1. /\ active[g] /\ net.seen.op = "load" /\ ss[g].slot = net.seen.file
  BY DEF TypeOK, GuestHashLoad, SlotMatches
<1>2. /\ np'[h] = np[h] /\ np'[g].xfer = "load_applying" /\ np'[g].synced = FALSE
      /\ CoordKept(g) /\ np'[g].mc = np[g].mc /\ np'[g].failed = np[g].failed
  <2>1. np' = [np EXCEPT ![g] = LoadApplying(np[g])]
    BY DEF TypeOK, GuestHashLoad
  <2>2. np'[h] = np[h] /\ np'[g] = LoadApplying(np[g]) /\ np[g] \in Exchanges
    BY <2>1 DEF TypeOK
  <2> QED  BY <2>2 DEF LoadApplying, Exchanges
<1>3. /\ ss'[h] = ss[h] /\ ss'[g].load = TRUE /\ ss'[g].blob = NoBlob
      /\ ss'[g].done = FALSE /\ ss'[g].save = ss[g].save /\ ss'[g].sfail = ss[g].sfail
      /\ ss'[g].slot = ss[g].slot
  BY DEF TypeOK, GuestHashLoad, StagedLoad, Stagings
<1>4. /\ vm'[h] = vm[h] /\ vm'[g].adv = FALSE /\ MachineKept(g) /\ vm'[g].run = vm[g].run
      /\ vm'[g].sim = vm[g].sim
  BY DEF TypeOK, GuestHashLoad, Unlatched, Machines
<1>5. /\ net'.probe = net.probe /\ net'.seen = net.seen /\ net'.tx = net.tx
      /\ net'.rx = net.rx
  BY DEF TypeOK, GuestHashLoad, Answer, Sessions
<1>6. /\ active' = active /\ card' = card /\ broken' = broken
  BY DEF TypeOK, GuestHashLoad, env
<1>7. /\ (net.seen # net.probe => net'.reply = net.reply)
      /\ (net.seen = net.probe => net'.reply = "match")
  BY DEF TypeOK, GuestHashLoad, SlotMatches, Answer, Sessions
<1> QED  BY <1>1, <1>2, <1>3, <1>4, <1>5, <1>6, <1>7 DEF DidGuestHashStage

LEMMA TypeGuestHashStage ==
  ASSUME TypeOK, GuestHashLoad, SlotMatches, np[g].xfer \notin {"load_applying", "load_ready"}
  PROVE  TypeOK'
<1>1. np' \in [Peers -> Exchanges]
  <2>1. np' = [np EXCEPT ![g] = LoadApplying(@)]
    BY DEF GuestHashLoad
  <2> QED  BY <2>1, TypeParts, ExchangeTypes
<1>2. ss' \in [Peers -> Stagings]
  <2>1. ss' = StagedLoad(g, NoBlob)
    BY DEF GuestHashLoad
  <2> QED  BY <2>1, TypeParts, NoneTypes, StagedTypes
<1>3. vm' \in [Peers -> Machines]
  <2>1. vm' = Unlatched(g)
    BY DEF GuestHashLoad
  <2> QED  BY <2>1, TypeParts, MachineTypes
<1>4. net' \in Sessions
  <2>1. net' = Answer(TRUE)
    BY DEF GuestHashLoad
  <2> QED  BY <2>1, TypeParts, NoneTypes, SessionTypes
<1>5. /\ active' \in [Peers -> BOOLEAN] /\ card' \in [Peers -> Cards]
      /\ broken' \subseteq Faults /\ mode' \in Modes /\ haste' \in BOOLEAN
      /\ ops' \in 0..MaxOps
  BY SyncAssumption, TypeParts DEF TypeOK, GuestHashLoad, env
<1>6. \A q \in Peers : vm'[q].adv => vm'[q].run
  BY DoGuestHashStage DEF TypeOK, DidGuestHashStage
<1>7. np'[g].xfer \notin {"mc_probe", "mc_send", "save_probe", "load_probe"}
  BY DoGuestHashStage DEF TypeOK, DidGuestHashStage
<1> QED  BY <1>1, <1>2, <1>3, <1>4, <1>5, <1>6, <1>7 DEF TypeOK

DidGuestHashKnown ==
    /\ active[g] /\ net.seen.op = "load"
    /\ net'.probe = net.probe /\ net'.seen = net.seen /\ net'.tx = net.tx
    /\ net'.rx = net.rx
    /\ np' = np /\ ss' = ss /\ vm' = vm /\ active' = active /\ card' = card
    /\ broken' = broken
    /\ (net.seen # net.probe => net'.reply = net.reply)
    /\ (net.seen = net.probe => net'.reply = "match")

LEMMA DoGuestHashKnown ==
  ASSUME TypeOK, GuestHashLoad, SlotMatches, np[g].xfer \in {"load_applying", "load_ready"}
  PROVE  DidGuestHashKnown
<1>1. /\ active[g] /\ net.seen.op = "load"
  BY DEF TypeOK, GuestHashLoad
<1>2. /\ net'.probe = net.probe /\ net'.seen = net.seen /\ net'.tx = net.tx
      /\ net'.rx = net.rx
  BY DEF TypeOK, GuestHashLoad, Answer, Sessions
<1>3. /\ np' = np /\ ss' = ss /\ vm' = vm /\ active' = active /\ card' = card
      /\ broken' = broken
  BY DEF TypeOK, GuestHashLoad, env
<1>4. /\ (net.seen # net.probe => net'.reply = net.reply)
      /\ (net.seen = net.probe => net'.reply = "match")
  BY DEF TypeOK, GuestHashLoad, Answer, Sessions
<1> QED  BY <1>1, <1>2, <1>3, <1>4 DEF DidGuestHashKnown

LEMMA TypeGuestHashKnown ==
  ASSUME TypeOK, GuestHashLoad, SlotMatches, np[g].xfer \in {"load_applying", "load_ready"}
  PROVE  TypeOK'
<1>1. net' \in Sessions
  <2>1. net' = Answer(TRUE)
    BY DEF GuestHashLoad
  <2> QED  BY <2>1, TypeParts, NoneTypes, SessionTypes
<1>2. /\ active' \in [Peers -> BOOLEAN] /\ card' \in [Peers -> Cards]
      /\ broken' \subseteq Faults /\ mode' \in Modes /\ haste' \in BOOLEAN
      /\ ops' \in 0..MaxOps
  BY SyncAssumption, TypeParts DEF TypeOK, GuestHashLoad, env
<1>3. \A q \in Peers : vm'[q].adv => vm'[q].run
  BY DoGuestHashKnown DEF TypeOK, DidGuestHashKnown
<1>4. np'[g].xfer \notin {"mc_probe", "mc_send", "save_probe", "load_probe"}
  BY DoGuestHashKnown DEF TypeOK, DidGuestHashKnown
<1> QED  BY <1>1, <1>2, <1>3, <1>4, DoGuestHashKnown DEF TypeOK, DidGuestHashKnown

-----------------------------------------------------------------------------
(* np_maybe_stage_target_save and np_apply_ready_state *)

DidStageSave(p) ==
    /\ active[p] /\ np[p].xfer = "save_coord" /\ ~np[p].staged /\ vm[p].sim >= np[p].target
    /\ OthersKept_np(p) /\ np'[p].staged = TRUE /\ SyncKept(p) /\ np'[p].xfer = np[p].xfer
    /\ np'[p].mc = np[p].mc /\ np'[p].acked = np[p].acked /\ np'[p].target = np[p].target
    /\ OthersKept_ss(p) /\ ss'[p].sfail = FALSE /\ FilesKept(p) /\ ss'[p].load = ss[p].load
    /\ ss'[p].done = ss[p].done
    /\ vm' = vm /\ net' = net /\ active' = active /\ card' = card /\ broken' = broken
    /\ ss'[p].save # "no"

LEMMA DoStageSave ==
  ASSUME NEW p \in Peers, TypeOK, StageSave(p)
  PROVE  DidStageSave(p)
<1>1. /\ active[p] /\ np[p].xfer = "save_coord" /\ ~np[p].staged
      /\ vm[p].sim >= np[p].target
  BY DEF TypeOK, StageSave, StageDue
<1>2. /\ OthersKept_np(p) /\ np'[p].staged = TRUE /\ SyncKept(p)
      /\ np'[p].xfer = np[p].xfer /\ np'[p].mc = np[p].mc /\ np'[p].acked = np[p].acked
      /\ np'[p].target = np[p].target
  BY DEF TypeOK, StageSave, Exchanges
<1>3. /\ OthersKept_ss(p) /\ ss'[p].sfail = FALSE /\ FilesKept(p)
      /\ ss'[p].load = ss[p].load /\ ss'[p].done = ss[p].done
  BY DEF TypeOK, StageSave, StagedSave, Stagings
<1>4. /\ vm' = vm /\ net' = net /\ active' = active /\ card' = card /\ broken' = broken
  BY DEF TypeOK, StageSave, env
<1>5. /\ ss'[p].save # "no"
  BY DEF TypeOK, StageSave, StagedSave, Stagings
<1> QED  BY <1>1, <1>2, <1>3, <1>4, <1>5 DEF DidStageSave

LEMMA TypeStageSave ==
  ASSUME NEW p \in Peers, TypeOK, StageSave(p)
  PROVE  TypeOK'
<1>1. np' \in [Peers -> Exchanges]
  <2>1. np' = [np EXCEPT ![p].staged = TRUE]
    BY DEF StageSave
  <2> QED  BY <2>1, TypeParts DEF Exchanges, Phases
<1>2. ss' \in [Peers -> Stagings]
  <2>1. ss' = StagedSave(p)
    BY DEF StageSave
  <2> QED  BY <2>1, TypeParts, NoneTypes, StagedTypes
<1>3. /\ active' \in [Peers -> BOOLEAN] /\ card' \in [Peers -> Cards]
      /\ broken' \subseteq Faults /\ mode' \in Modes /\ haste' \in BOOLEAN
      /\ ops' \in 0..MaxOps
  BY SyncAssumption, TypeParts DEF TypeOK, StageSave, env
<1>4. \A q \in Peers : vm'[q].adv => vm'[q].run
  BY DoStageSave DEF TypeOK, DidStageSave
<1>5. np'[g].xfer \notin {"mc_probe", "mc_send", "save_probe", "load_probe"}
  BY DoStageSave DEF TypeOK, DidStageSave
<1> QED  BY <1>1, <1>2, <1>3, <1>4, <1>5, DoStageSave DEF TypeOK, DidStageSave

DidHostSentCard ==
    /\ active[h] /\ net.tx.st = "ready"
    /\ np'[g] = np[g] /\ np'[h].xfer = "none" /\ np'[h].mc = TRUE /\ CoordKept(h)
    /\ SyncKept(h)
    /\ vm'[g] = vm[g] /\ vm'[h].adv = FALSE /\ MachineKept(h) /\ vm'[h].run = vm[h].run
    /\ vm'[h].sim = vm[h].sim
    /\ net'.probe = net.probe /\ net'.seen = net.seen /\ net'.reply = net.reply
    /\ net'.tx = NoTx /\ net'.rx = net.rx
    /\ ss' = ss /\ active' = active /\ card' = card /\ broken' = broken

LEMMA DoHostSentCard ==
  ASSUME TypeOK, HostTransferDone, net.tx.item.op = "mc"
  PROVE  DidHostSentCard
<1>1. /\ active[h] /\ net.tx.st = "ready"
  BY DEF TypeOK, HostTransferDone
<1>2. /\ np'[g] = np[g] /\ np'[h].xfer = "none" /\ np'[h].mc = TRUE /\ CoordKept(h)
      /\ SyncKept(h)
  BY DEF TypeOK, HostTransferDone, Exchanges
<1>3. /\ vm'[g] = vm[g] /\ vm'[h].adv = FALSE /\ MachineKept(h) /\ vm'[h].run = vm[h].run
      /\ vm'[h].sim = vm[h].sim
  BY DEF TypeOK, HostTransferDone, Unlatched, Machines
<1>4. /\ net'.probe = net.probe /\ net'.seen = net.seen /\ net'.reply = net.reply
      /\ net'.tx = NoTx /\ net'.rx = net.rx
  BY DEF TypeOK, HostTransferDone, HostFinish, Sessions
<1>5. /\ ss' = ss /\ active' = active /\ card' = card /\ broken' = broken
  BY DEF TypeOK, HostTransferDone, env
<1> QED  BY <1>1, <1>2, <1>3, <1>4, <1>5 DEF DidHostSentCard

LEMMA TypeHostSentCard ==
  ASSUME TypeOK, HostTransferDone, net.tx.item.op = "mc"
  PROVE  TypeOK'
<1>1. np' \in [Peers -> Exchanges]
  <2>1. np' = [np EXCEPT ![h].mc = TRUE, ![h].xfer = "none"]
    BY DEF HostTransferDone
  <2> QED  BY <2>1, TypeParts DEF Exchanges, Phases
<1>2. vm' \in [Peers -> Machines]
  <2>1. vm' = Unlatched(h)
    BY DEF HostTransferDone
  <2> QED  BY <2>1, TypeParts, MachineTypes
<1>3. net' \in Sessions
  <2>1. net' = HostFinish
    BY DEF HostTransferDone
  <2> QED  BY <2>1, TypeParts, NoneTypes, SessionTypes
<1>4. /\ active' \in [Peers -> BOOLEAN] /\ card' \in [Peers -> Cards]
      /\ broken' \subseteq Faults /\ mode' \in Modes /\ haste' \in BOOLEAN
      /\ ops' \in 0..MaxOps
  BY SyncAssumption, TypeParts DEF TypeOK, HostTransferDone, env
<1>5. \A q \in Peers : vm'[q].adv => vm'[q].run
  BY DoHostSentCard DEF TypeOK, DidHostSentCard
<1>6. np'[g].xfer \notin {"mc_probe", "mc_send", "save_probe", "load_probe"}
  BY DoHostSentCard DEF TypeOK, DidHostSentCard
<1> QED  BY <1>1, <1>2, <1>3, <1>4, <1>5, <1>6, DoHostSentCard DEF TypeOK, DidHostSentCard

DidHostSentSave ==
    /\ active[h] /\ net.tx.st = "ready"
    /\ np'[g] = np[g] /\ np'[h].xfer = "none" /\ CoordKept(h) /\ SyncKept(h)
    /\ np'[h].mc = np[h].mc
    /\ net'.probe = net.probe /\ net'.seen = net.seen /\ net'.reply = net.reply
    /\ net'.tx = NoTx /\ net'.rx = net.rx
    /\ ss' = ss /\ vm' = vm /\ active' = active /\ card' = card /\ broken' = broken

LEMMA DoHostSentSave ==
  ASSUME TypeOK, HostTransferDone, net.tx.item.op = "save"
  PROVE  DidHostSentSave
<1>1. /\ active[h] /\ net.tx.st = "ready"
  BY DEF TypeOK, HostTransferDone
<1>2. /\ np'[g] = np[g] /\ np'[h].xfer = "none" /\ CoordKept(h) /\ SyncKept(h)
      /\ np'[h].mc = np[h].mc
  BY DEF TypeOK, HostTransferDone, Exchanges
<1>3. /\ net'.probe = net.probe /\ net'.seen = net.seen /\ net'.reply = net.reply
      /\ net'.tx = NoTx /\ net'.rx = net.rx
  BY DEF TypeOK, HostTransferDone, HostFinish, Sessions
<1>4. /\ ss' = ss /\ vm' = vm /\ active' = active /\ card' = card /\ broken' = broken
  BY DEF TypeOK, HostTransferDone, env
<1> QED  BY <1>1, <1>2, <1>3, <1>4 DEF DidHostSentSave

LEMMA TypeHostSentSave ==
  ASSUME TypeOK, HostTransferDone, net.tx.item.op = "save"
  PROVE  TypeOK'
<1>1. np' \in [Peers -> Exchanges]
  <2>1. np' = [np EXCEPT ![h].xfer = "none"]
    BY DEF HostTransferDone
  <2> QED  BY <2>1, TypeParts DEF Exchanges, Phases
<1>2. net' \in Sessions
  <2>1. net' = HostFinish
    BY DEF HostTransferDone
  <2> QED  BY <2>1, TypeParts, NoneTypes, SessionTypes
<1>3. /\ active' \in [Peers -> BOOLEAN] /\ card' \in [Peers -> Cards]
      /\ broken' \subseteq Faults /\ mode' \in Modes /\ haste' \in BOOLEAN
      /\ ops' \in 0..MaxOps
  BY SyncAssumption, TypeParts DEF TypeOK, HostTransferDone, env
<1>4. \A q \in Peers : vm'[q].adv => vm'[q].run
  BY DoHostSentSave DEF TypeOK, DidHostSentSave
<1>5. np'[g].xfer \notin {"mc_probe", "mc_send", "save_probe", "load_probe"}
  BY DoHostSentSave DEF TypeOK, DidHostSentSave
<1> QED  BY <1>1, <1>2, <1>3, <1>4, <1>5, DoHostSentSave DEF TypeOK, DidHostSentSave

DidHostSentLoad ==
    /\ active[h] /\ net.tx.st = "ready"
    /\ np'[g] = np[g] /\ np'[h].xfer = "load_applying" /\ np'[h].synced = FALSE
    /\ CoordKept(h) /\ np'[h].mc = np[h].mc /\ np'[h].failed = np[h].failed
    /\ ss'[g] = ss[g] /\ ss'[h].load = TRUE /\ ss'[h].blob = NoBlob /\ ss'[h].done = FALSE
    /\ ss'[h].save = ss[h].save /\ ss'[h].sfail = ss[h].sfail /\ ss'[h].slot = ss[h].slot
    /\ vm'[g] = vm[g] /\ vm'[h].adv = FALSE /\ MachineKept(h) /\ vm'[h].run = vm[h].run
    /\ vm'[h].sim = vm[h].sim
    /\ net'.probe = net.probe /\ net'.seen = net.seen /\ net'.reply = net.reply
    /\ net'.tx = NoTx /\ net'.rx = net.rx
    /\ active' = active /\ card' = card /\ broken' = broken

LEMMA DoHostSentLoad ==
  ASSUME TypeOK, HostTransferDone, net.tx.item.op = "load"
  PROVE  DidHostSentLoad
<1>1. /\ active[h] /\ net.tx.st = "ready"
  BY DEF TypeOK, HostTransferDone
<1>2. /\ np'[g] = np[g] /\ np'[h].xfer = "load_applying" /\ np'[h].synced = FALSE
      /\ CoordKept(h) /\ np'[h].mc = np[h].mc /\ np'[h].failed = np[h].failed
  <2>1. np' = [np EXCEPT ![h] = LoadApplying(np[h])]
    BY DEF TypeOK, HostTransferDone
  <2>2. np'[g] = np[g] /\ np'[h] = LoadApplying(np[h]) /\ np[h] \in Exchanges
    BY <2>1 DEF TypeOK
  <2> QED  BY <2>2 DEF LoadApplying, Exchanges
<1>3. /\ ss'[g] = ss[g] /\ ss'[h].load = TRUE /\ ss'[h].blob = NoBlob
      /\ ss'[h].done = FALSE /\ ss'[h].save = ss[h].save /\ ss'[h].sfail = ss[h].sfail
      /\ ss'[h].slot = ss[h].slot
  BY DEF TypeOK, HostTransferDone, StagedLoad, Stagings
<1>4. /\ vm'[g] = vm[g] /\ vm'[h].adv = FALSE /\ MachineKept(h) /\ vm'[h].run = vm[h].run
      /\ vm'[h].sim = vm[h].sim
  BY DEF TypeOK, HostTransferDone, Unlatched, Machines
<1>5. /\ net'.probe = net.probe /\ net'.seen = net.seen /\ net'.reply = net.reply
      /\ net'.tx = NoTx /\ net'.rx = net.rx
  BY DEF TypeOK, HostTransferDone, HostFinish, Sessions
<1>6. /\ active' = active /\ card' = card /\ broken' = broken
  BY DEF TypeOK, HostTransferDone, env
<1> QED  BY <1>1, <1>2, <1>3, <1>4, <1>5, <1>6 DEF DidHostSentLoad

LEMMA TypeHostSentLoad ==
  ASSUME TypeOK, HostTransferDone, net.tx.item.op = "load"
  PROVE  TypeOK'
<1>1. np' \in [Peers -> Exchanges]
  <2>1. np' = [np EXCEPT ![h] = LoadApplying(@)]
    BY DEF HostTransferDone
  <2> QED  BY <2>1, TypeParts, ExchangeTypes
<1>2. ss' \in [Peers -> Stagings]
  <2>1. ss' = StagedLoad(h, NoBlob)
    BY DEF HostTransferDone
  <2> QED  BY <2>1, TypeParts, NoneTypes, StagedTypes
<1>3. vm' \in [Peers -> Machines]
  <2>1. vm' = Unlatched(h)
    BY DEF HostTransferDone
  <2> QED  BY <2>1, TypeParts, MachineTypes
<1>4. net' \in Sessions
  <2>1. net' = HostFinish
    BY DEF HostTransferDone
  <2> QED  BY <2>1, TypeParts, NoneTypes, SessionTypes
<1>5. /\ active' \in [Peers -> BOOLEAN] /\ card' \in [Peers -> Cards]
      /\ broken' \subseteq Faults /\ mode' \in Modes /\ haste' \in BOOLEAN
      /\ ops' \in 0..MaxOps
  BY SyncAssumption, TypeParts DEF TypeOK, HostTransferDone, env
<1>6. \A q \in Peers : vm'[q].adv => vm'[q].run
  BY DoHostSentLoad DEF TypeOK, DidHostSentLoad
<1>7. np'[g].xfer \notin {"mc_probe", "mc_send", "save_probe", "load_probe"}
  BY DoHostSentLoad DEF TypeOK, DidHostSentLoad
<1> QED  BY <1>1, <1>2, <1>3, <1>4, <1>5, <1>6, <1>7 DEF TypeOK

DidGuestRefusesCard ==
    /\ active[g] /\ net.rx.op = "mc"
    /\ np'[h] = np[h] /\ np'[g].xfer = "none" /\ CoordKept(g) /\ SyncKept(g)
    /\ np'[g].mc = np[g].mc
    /\ net'.probe = net.probe /\ net'.seen = net.seen /\ net'.reply = net.reply
    /\ net'.tx = net.tx /\ net'.rx = NoRx
    /\ ss' = ss /\ vm' = vm /\ active' = active /\ card' = card /\ broken' = broken

LEMMA DoGuestRefusesCard ==
  ASSUME TypeOK, GuestTakesCard, net.rx.card # Off /\ card[g] = Off
  PROVE  DidGuestRefusesCard
<1>1. /\ active[g] /\ net.rx.op = "mc"
  BY DEF TypeOK, GuestTakesCard
<1>2. /\ np'[h] = np[h] /\ np'[g].xfer = "none" /\ CoordKept(g) /\ SyncKept(g)
      /\ np'[g].mc = np[g].mc
  BY DEF TypeOK, GuestTakesCard, Exchanges
<1>3. /\ net'.probe = net.probe /\ net'.seen = net.seen /\ net'.reply = net.reply
      /\ net'.tx = net.tx /\ net'.rx = NoRx
  BY DEF TypeOK, GuestTakesCard, GuestFinish, Sessions
<1>4. /\ ss' = ss /\ vm' = vm /\ active' = active /\ card' = card /\ broken' = broken
  BY DEF TypeOK, GuestTakesCard, env
<1> QED  BY <1>1, <1>2, <1>3, <1>4 DEF DidGuestRefusesCard

LEMMA TypeGuestRefusesCard ==
  ASSUME TypeOK, GuestTakesCard, net.rx.card # Off /\ card[g] = Off
  PROVE  TypeOK'
<1>1. np' \in [Peers -> Exchanges]
  <2>1. np' = [np EXCEPT ![g].xfer = "none"]
    BY DEF GuestTakesCard
  <2> QED  BY <2>1, TypeParts DEF Exchanges, Phases
<1>2. net' \in Sessions
  <2>1. net' = GuestFinish
    BY DEF GuestTakesCard
  <2> QED  BY <2>1, TypeParts, NoneTypes, SessionTypes
<1>3. /\ active' \in [Peers -> BOOLEAN] /\ card' \in [Peers -> Cards]
      /\ broken' \subseteq Faults /\ mode' \in Modes /\ haste' \in BOOLEAN
      /\ ops' \in 0..MaxOps
  BY SyncAssumption, TypeParts DEF TypeOK, GuestTakesCard, env
<1>4. \A q \in Peers : vm'[q].adv => vm'[q].run
  BY DoGuestRefusesCard DEF TypeOK, DidGuestRefusesCard
<1>5. np'[g].xfer \notin {"mc_probe", "mc_send", "save_probe", "load_probe"}
  BY DoGuestRefusesCard DEF TypeOK, DidGuestRefusesCard
<1> QED  BY <1>1, <1>2, <1>3, <1>4, <1>5, DoGuestRefusesCard DEF TypeOK, DidGuestRefusesCard

DidGuestTakesCard ==
    /\ active[g] /\ net.rx.op = "mc"
    /\ np'[h] = np[h] /\ np'[g].xfer = "none" /\ np'[g].mc = TRUE /\ CoordKept(g)
    /\ SyncKept(g)
    /\ vm'[h] = vm[h] /\ vm'[g].adv = FALSE /\ MachineKept(g) /\ vm'[g].run = vm[g].run
    /\ vm'[g].sim = vm[g].sim
    /\ net'.probe = net.probe /\ net'.seen = net.seen /\ net'.reply = net.reply
    /\ net'.tx = net.tx /\ net'.rx = NoRx
    /\ ss' = ss /\ active' = active /\ broken' = broken
    /\ card'[h] = card[h] /\ (net.rx.card = Off => card' = card)
    /\ (net.rx.card # Off => card'[g] = net.rx.card)

LEMMA DoGuestTakesCard ==
  ASSUME TypeOK, GuestTakesCard, net.rx.card = Off \/ card[g] # Off
  PROVE  DidGuestTakesCard
<1>1. /\ active[g] /\ net.rx.op = "mc"
  BY DEF TypeOK, GuestTakesCard
<1>2. /\ np'[h] = np[h] /\ np'[g].xfer = "none" /\ np'[g].mc = TRUE /\ CoordKept(g)
      /\ SyncKept(g)
  BY DEF TypeOK, GuestTakesCard, Exchanges
<1>3. /\ vm'[h] = vm[h] /\ vm'[g].adv = FALSE /\ MachineKept(g) /\ vm'[g].run = vm[g].run
      /\ vm'[g].sim = vm[g].sim
  BY DEF TypeOK, GuestTakesCard, Unlatched, Machines
<1>4. /\ net'.probe = net.probe /\ net'.seen = net.seen /\ net'.reply = net.reply
      /\ net'.tx = net.tx /\ net'.rx = NoRx
  BY DEF TypeOK, GuestTakesCard, GuestFinish, Sessions
<1>5. /\ ss' = ss /\ active' = active /\ broken' = broken
  BY DEF TypeOK, GuestTakesCard, env
<1>6. /\ card'[h] = card[h] /\ (net.rx.card = Off => card' = card)
      /\ (net.rx.card # Off => card'[g] = net.rx.card)
  BY DEF TypeOK, GuestTakesCard
<1> QED  BY <1>1, <1>2, <1>3, <1>4, <1>5, <1>6 DEF DidGuestTakesCard

LEMMA TypeGuestTakesCard ==
  ASSUME TypeOK, GuestTakesCard, net.rx.card = Off \/ card[g] # Off
  PROVE  TypeOK'
<1>1. np' \in [Peers -> Exchanges]
  <2>1. np' = [np EXCEPT ![g].mc = TRUE, ![g].xfer = "none"]
    BY DEF GuestTakesCard
  <2> QED  BY <2>1, TypeParts DEF Exchanges, Phases
<1>2. vm' \in [Peers -> Machines]
  <2>1. vm' = Unlatched(g)
    BY DEF GuestTakesCard
  <2> QED  BY <2>1, TypeParts, MachineTypes
<1>3. net' \in Sessions
  <2>1. net' = GuestFinish
    BY DEF GuestTakesCard
  <2> QED  BY <2>1, TypeParts, NoneTypes, SessionTypes
<1>4. /\ active' \in [Peers -> BOOLEAN] /\ card' \in [Peers -> Cards]
      /\ broken' \subseteq Faults /\ mode' \in Modes /\ haste' \in BOOLEAN
      /\ ops' \in 0..MaxOps
  <2>1. net.rx.card \in Cards
    BY TypeParts DEF Items
  <2> QED  BY <2>1 DEF TypeOK, GuestTakesCard, env
<1>5. \A q \in Peers : vm'[q].adv => vm'[q].run
  BY DoGuestTakesCard DEF TypeOK, DidGuestTakesCard
<1>6. np'[g].xfer \notin {"mc_probe", "mc_send", "save_probe", "load_probe"}
  BY DoGuestTakesCard DEF TypeOK, DidGuestTakesCard
<1> QED  BY <1>1, <1>2, <1>3, <1>4, <1>5, <1>6, DoGuestTakesCard DEF TypeOK, DidGuestTakesCard

DidGuestTakesSave ==
    /\ active[g] /\ net.rx.op = "save"
    /\ np'[h] = np[h] /\ np'[g].xfer = "none" /\ CoordKept(g) /\ SyncKept(g)
    /\ np'[g].mc = np[g].mc
    /\ ss'[h] = ss[h] /\ PendingKept(g) /\ ss'[g].blob = ss[g].blob
    /\ ss'[g].done = ss[g].done /\ ss'[g].sfail = ss[g].sfail
    /\ net'.probe = net.probe /\ net'.seen = net.seen /\ net'.reply = net.reply
    /\ net'.tx = net.tx /\ net'.rx = NoRx
    /\ vm' = vm /\ active' = active /\ card' = card
    /\ broken \subseteq broken' /\ broken' \subseteq broken \cup {"write"}
    /\ (broken' = {} => ss'[g].slot = net.rx.file)

LEMMA DoGuestTakesSave ==
  ASSUME TypeOK, GuestTakesSave
  PROVE  DidGuestTakesSave
<1>1. /\ active[g] /\ net.rx.op = "save"
  BY DEF TypeOK, GuestTakesSave
<1>2. /\ np'[h] = np[h] /\ np'[g].xfer = "none" /\ CoordKept(g) /\ SyncKept(g)
      /\ np'[g].mc = np[g].mc
  BY DEF TypeOK, GuestTakesSave, Exchanges
<1>3. /\ ss'[h] = ss[h] /\ PendingKept(g) /\ ss'[g].blob = ss[g].blob
      /\ ss'[g].done = ss[g].done /\ ss'[g].sfail = ss[g].sfail
  BY DEF TypeOK, GuestTakesSave, WriteOutcomes, Stagings
<1>4. /\ net'.probe = net.probe /\ net'.seen = net.seen /\ net'.reply = net.reply
      /\ net'.tx = net.tx /\ net'.rx = NoRx
  BY DEF TypeOK, GuestTakesSave, GuestFinish, Sessions
<1>5. /\ vm' = vm /\ active' = active /\ card' = card
  BY DEF TypeOK, GuestTakesSave, env
<1>6. /\ broken \subseteq broken' /\ broken' \subseteq broken \cup {"write"}
      /\ (broken' = {} => ss'[g].slot = net.rx.file)
  BY DEF TypeOK, GuestTakesSave, WriteOutcomes, MayFail, Stagings
<1> QED  BY <1>1, <1>2, <1>3, <1>4, <1>5, <1>6 DEF DidGuestTakesSave

LEMMA TypeGuestTakesSave ==
  ASSUME TypeOK, GuestTakesSave
  PROVE  TypeOK'
<1>1. np' \in [Peers -> Exchanges]
  <2>1. np' = [np EXCEPT ![g].xfer = "none"]
    BY DEF GuestTakesSave
  <2> QED  BY <2>1, TypeParts DEF Exchanges, Phases
<1>2. ss' \in [Peers -> Stagings]
  <2>1. PICK w \in WriteOutcomes(net.rx.file) : ss' = [ss EXCEPT ![g].slot = w.file]
    BY DEF GuestTakesSave
  <2>2. w.file \in Seq(Nat)
    BY TypeParts, NoneTypes DEF WriteOutcomes
  <2> QED  BY <2>1, <2>2, TypeParts DEF Stagings
<1>3. net' \in Sessions
  <2>1. net' = GuestFinish
    BY DEF GuestTakesSave
  <2> QED  BY <2>1, TypeParts, NoneTypes, SessionTypes
<1>4. /\ active' \in [Peers -> BOOLEAN] /\ card' \in [Peers -> Cards]
      /\ broken' \subseteq Faults /\ mode' \in Modes /\ haste' \in BOOLEAN
      /\ ops' \in 0..MaxOps
  <2>1. PICK w \in WriteOutcomes(net.rx.file) : broken' = broken \cup w.bad
    BY DEF GuestTakesSave
  <2>2. w.bad \subseteq Faults
    BY DEF WriteOutcomes, MayFail
  <2> QED  BY <2>1, <2>2 DEF TypeOK, GuestTakesSave, env
<1>5. \A q \in Peers : vm'[q].adv => vm'[q].run
  BY DoGuestTakesSave DEF TypeOK, DidGuestTakesSave
<1>6. np'[g].xfer \notin {"mc_probe", "mc_send", "save_probe", "load_probe"}
  BY DoGuestTakesSave DEF TypeOK, DidGuestTakesSave
<1> QED  BY <1>1, <1>2, <1>3, <1>4, <1>5, <1>6, DoGuestTakesSave DEF TypeOK, DidGuestTakesSave

DidGuestTakesLoad ==
    /\ active[g] /\ net.rx.op = "load"
    /\ np'[h] = np[h] /\ np'[g].xfer = "load_applying" /\ np'[g].synced = FALSE
    /\ CoordKept(g) /\ np'[g].mc = np[g].mc /\ np'[g].failed = np[g].failed
    /\ ss'[h] = ss[h] /\ ss'[g].load = TRUE /\ ss'[g].blob = net.rx.file
    /\ ss'[g].done = FALSE /\ ss'[g].save = ss[g].save /\ ss'[g].sfail = ss[g].sfail
    /\ vm'[h] = vm[h] /\ vm'[g].adv = FALSE /\ MachineKept(g) /\ vm'[g].run = vm[g].run
    /\ vm'[g].sim = vm[g].sim
    /\ net'.probe = net.probe /\ net'.seen = net.seen /\ net'.reply = net.reply
    /\ net'.tx = net.tx /\ net'.rx = NoRx
    /\ active' = active /\ card' = card
    /\ broken \subseteq broken' /\ broken' \subseteq broken \cup {"write"}

LEMMA DoGuestTakesLoad ==
  ASSUME TypeOK, GuestTakesLoad
  PROVE  DidGuestTakesLoad
<1>1. /\ active[g] /\ net.rx.op = "load"
  BY DEF TypeOK, GuestTakesLoad
<1>2. /\ np'[h] = np[h] /\ np'[g].xfer = "load_applying" /\ np'[g].synced = FALSE
      /\ CoordKept(g) /\ np'[g].mc = np[g].mc /\ np'[g].failed = np[g].failed
  <2>1. np' = [np EXCEPT ![g] = LoadApplying(np[g])]
    BY DEF TypeOK, GuestTakesLoad
  <2>2. np'[h] = np[h] /\ np'[g] = LoadApplying(np[g]) /\ np[g] \in Exchanges
    BY <2>1 DEF TypeOK
  <2> QED  BY <2>2 DEF LoadApplying, Exchanges
<1>3. /\ ss'[h] = ss[h] /\ ss'[g].load = TRUE /\ ss'[g].blob = net.rx.file
      /\ ss'[g].done = FALSE /\ ss'[g].save = ss[g].save /\ ss'[g].sfail = ss[g].sfail
  <2>1. PICK w \in WriteOutcomes(net.rx.file) :
           ss' = [StagedLoad(g, net.rx.file) EXCEPT ![g].slot = w.file]
    BY DEF GuestTakesLoad
  <2>2. /\ StagedLoad(g, net.rx.file)[h] = ss[h]
        /\ StagedLoad(g, net.rx.file)[g] =
             [ss[g] EXCEPT !.blob = net.rx.file, !.load = TRUE, !.done = FALSE, !.lfail = FALSE]
        /\ DOMAIN StagedLoad(g, net.rx.file) = Peers
    BY DEF TypeOK, StagedLoad
  <2>3. ss'[h] = ss[h] /\ ss'[g] = [StagedLoad(g, net.rx.file)[g] EXCEPT !.slot = w.file]
    BY <2>1, <2>2
  <2>4. ss[g] \in Stagings
    BY DEF TypeOK
  <2>5. DEFINE e == [ss[g] EXCEPT !.blob = net.rx.file, !.load = TRUE, !.done = FALSE,
                                  !.lfail = FALSE]
  <2>6. /\ e.load = TRUE /\ e.blob = net.rx.file /\ e.done = FALSE /\ e.save = ss[g].save
        /\ e.sfail = ss[g].sfail /\ DOMAIN e = DOMAIN ss[g]
    BY <2>4 DEF Stagings
  <2>7. ss'[g] = [e EXCEPT !.slot = w.file]
    BY <2>2, <2>3
  <2>8. DOMAIN ss[g] = {"save", "load", "blob", "done", "lfail", "sfail", "pc", "slot"}
    BY <2>4 DEF Stagings
  <2> HIDE DEF e
  <2> QED
    BY <2>3, <2>6, <2>7, <2>8
<1>4. /\ vm'[h] = vm[h] /\ vm'[g].adv = FALSE /\ MachineKept(g) /\ vm'[g].run = vm[g].run
      /\ vm'[g].sim = vm[g].sim
  BY DEF TypeOK, GuestTakesLoad, Unlatched, Machines
<1>5. /\ net'.probe = net.probe /\ net'.seen = net.seen /\ net'.reply = net.reply
      /\ net'.tx = net.tx /\ net'.rx = NoRx
  BY DEF TypeOK, GuestTakesLoad, GuestFinish, Sessions
<1>6. /\ active' = active /\ card' = card
  BY DEF TypeOK, GuestTakesLoad, env
<1>7. /\ broken \subseteq broken' /\ broken' \subseteq broken \cup {"write"}
  BY DEF TypeOK, GuestTakesLoad, WriteOutcomes, MayFail
<1> QED  BY <1>1, <1>2, <1>3, <1>4, <1>5, <1>6, <1>7 DEF DidGuestTakesLoad

LEMMA TypeGuestTakesLoad ==
  ASSUME TypeOK, GuestTakesLoad
  PROVE  TypeOK'
<1>1. np' \in [Peers -> Exchanges]
  <2>1. np' = [np EXCEPT ![g] = LoadApplying(@)]
    BY DEF GuestTakesLoad
  <2> QED  BY <2>1, TypeParts, ExchangeTypes
<1>2. ss' \in [Peers -> Stagings]
  <2>1. PICK w \in WriteOutcomes(net.rx.file) :
           ss' = [StagedLoad(g, net.rx.file) EXCEPT ![g].slot = w.file]
    BY DEF GuestTakesLoad
  <2>2. w.file \in Seq(Nat)
    BY TypeParts, NoneTypes DEF WriteOutcomes
  <2>3. StagedLoad(g, net.rx.file) \in [Peers -> Stagings]
    BY TypeParts, StagedTypes
  <2> QED  BY <2>1, <2>2, <2>3 DEF Stagings
<1>3. vm' \in [Peers -> Machines]
  <2>1. vm' = Unlatched(g)
    BY DEF GuestTakesLoad
  <2> QED  BY <2>1, TypeParts, MachineTypes
<1>4. net' \in Sessions
  <2>1. net' = GuestFinish
    BY DEF GuestTakesLoad
  <2> QED  BY <2>1, TypeParts, NoneTypes, SessionTypes
<1>5. /\ active' \in [Peers -> BOOLEAN] /\ card' \in [Peers -> Cards]
      /\ broken' \subseteq Faults /\ mode' \in Modes /\ haste' \in BOOLEAN
      /\ ops' \in 0..MaxOps
  <2>1. PICK w \in WriteOutcomes(net.rx.file) : broken' = broken \cup w.bad
    BY DEF GuestTakesLoad
  <2>2. w.bad \subseteq Faults
    BY DEF WriteOutcomes, MayFail
  <2> QED  BY <2>1, <2>2 DEF TypeOK, GuestTakesLoad, env
<1>6. \A q \in Peers : vm'[q].adv => vm'[q].run
  BY DoGuestTakesLoad DEF TypeOK, DidGuestTakesLoad
<1>7. np'[g].xfer \notin {"mc_probe", "mc_send", "save_probe", "load_probe"}
  BY DoGuestTakesLoad DEF TypeOK, DidGuestTakesLoad
<1> QED  BY <1>1, <1>2, <1>3, <1>4, <1>5, <1>6, <1>7 DEF TypeOK

-----------------------------------------------------------------------------
(* np_drive_load_barrier and np_host_drive_xfer *)

DidHostLoaded ==
    /\ active[h] /\ np[h].xfer = "load_applying" /\ ss[h].done /\ ~ss[h].load
    /\ ss[h].save = "no"
    /\ np'[g] = np[g] /\ np'[h].xfer = "load_ready" /\ np'[h].synced = FALSE
    /\ CoordKept(h) /\ np'[h].mc = np[h].mc /\ np'[h].failed = np[h].failed
    /\ ss'[g] = ss[g] /\ ss'[h].done = FALSE /\ FilesKept(h) /\ PendingKept(h)
    /\ ss'[h].sfail = ss[h].sfail
    /\ vm'[g] = vm[g] /\ vm'[h].adv = FALSE /\ MachineKept(h) /\ vm'[h].run = vm[h].run
    /\ vm'[h].sim = vm[h].sim
    /\ net'.probe = ReadyProbe /\ net'.seen = net.seen /\ net'.reply = "none"
    /\ net'.tx = net.tx /\ net'.rx = net.rx
    /\ active' = active /\ card' = card /\ broken' = broken
    /\ net'.probe.op = "ready"

LEMMA DoHostLoaded ==
  ASSUME TypeOK, LoadBarrierDone(h)
  PROVE  DidHostLoaded
<1>1. /\ active[h] /\ np[h].xfer = "load_applying" /\ ss[h].done /\ ~ss[h].load
      /\ ss[h].save = "no"
  BY DEF TypeOK, LoadBarrierDone, JustApplied, Pending
<1>2. /\ np'[g] = np[g] /\ np'[h].xfer = "load_ready" /\ np'[h].synced = FALSE
      /\ CoordKept(h) /\ np'[h].mc = np[h].mc /\ np'[h].failed = np[h].failed
  BY DEF TypeOK, LoadBarrierDone, LoadReady, Exchanges
<1>3. /\ ss'[g] = ss[g] /\ ss'[h].done = FALSE /\ FilesKept(h) /\ PendingKept(h)
      /\ ss'[h].sfail = ss[h].sfail
  BY DEF TypeOK, LoadBarrierDone, Stagings
<1>4. /\ vm'[g] = vm[g] /\ vm'[h].adv = FALSE /\ MachineKept(h) /\ vm'[h].run = vm[h].run
      /\ vm'[h].sim = vm[h].sim
  BY DEF TypeOK, LoadBarrierDone, LoadReady, Unlatched, Machines
<1>5. /\ net'.probe = ReadyProbe /\ net'.seen = net.seen /\ net'.reply = "none"
      /\ net'.tx = net.tx /\ net'.rx = net.rx
  BY DEF TypeOK, LoadBarrierDone, Probe, ReadyProbe, NoProbe, Sessions
<1>6. /\ active' = active /\ card' = card /\ broken' = broken
  BY DEF TypeOK, LoadBarrierDone, env
<1>7. /\ net'.probe.op = "ready"
  BY DEF TypeOK, LoadBarrierDone, Probe, ReadyProbe, NoProbe, Sessions
<1> QED  BY <1>1, <1>2, <1>3, <1>4, <1>5, <1>6, <1>7 DEF DidHostLoaded

LEMMA TypeHostLoaded ==
  ASSUME TypeOK, LoadBarrierDone(h)
  PROVE  TypeOK'
<1>1. np' \in [Peers -> Exchanges]
  <2>1. np' = [np EXCEPT ![h] = LoadReady(@)]
    BY DEF LoadBarrierDone
  <2> QED  BY <2>1, TypeParts, ExchangeTypes
<1>2. ss' \in [Peers -> Stagings]
  <2>1. ss' = [ss EXCEPT ![h].done = FALSE]
    BY DEF LoadBarrierDone
  <2> QED  BY <2>1, TypeParts, NoneTypes DEF Stagings
<1>3. vm' \in [Peers -> Machines]
  <2>1. vm' = Unlatched(h)
    BY DEF LoadBarrierDone
  <2> QED  BY <2>1, TypeParts, MachineTypes
<1>4. net' \in Sessions
  <2>1. net' = Probe(ReadyProbe)
    BY DEF LoadBarrierDone
  <2> QED  BY <2>1, TypeParts, NoneTypes, ProbeType, NewProbeTypes
<1>5. /\ active' \in [Peers -> BOOLEAN] /\ card' \in [Peers -> Cards]
      /\ broken' \subseteq Faults /\ mode' \in Modes /\ haste' \in BOOLEAN
      /\ ops' \in 0..MaxOps
  BY SyncAssumption, TypeParts DEF TypeOK, LoadBarrierDone, env
<1>6. \A q \in Peers : vm'[q].adv => vm'[q].run
  BY DoHostLoaded DEF TypeOK, DidHostLoaded
<1>7. np'[g].xfer \notin {"mc_probe", "mc_send", "save_probe", "load_probe"}
  BY DoHostLoaded DEF TypeOK, DidHostLoaded
<1> QED  BY <1>1, <1>2, <1>3, <1>4, <1>5, <1>6, <1>7 DEF TypeOK

DidGuestLoaded ==
    /\ active[g] /\ np[g].xfer = "load_applying" /\ ss[g].done /\ ~ss[g].load
    /\ ss[g].save = "no"
    /\ np'[h] = np[h] /\ np'[g].xfer = "load_ready" /\ np'[g].synced = FALSE
    /\ CoordKept(g) /\ np'[g].mc = np[g].mc /\ np'[g].failed = np[g].failed
    /\ ss'[h] = ss[h] /\ ss'[g].done = FALSE /\ FilesKept(g) /\ PendingKept(g)
    /\ ss'[g].sfail = ss[g].sfail
    /\ vm'[h] = vm[h] /\ vm'[g].adv = FALSE /\ MachineKept(g) /\ vm'[g].run = vm[g].run
    /\ vm'[g].sim = vm[g].sim
    /\ net' = net /\ active' = active /\ card' = card /\ broken' = broken

LEMMA DoGuestLoaded ==
  ASSUME TypeOK, LoadBarrierDone(g)
  PROVE  DidGuestLoaded
<1>1. /\ active[g] /\ np[g].xfer = "load_applying" /\ ss[g].done /\ ~ss[g].load
      /\ ss[g].save = "no"
  BY DEF TypeOK, LoadBarrierDone, JustApplied, Pending
<1>2. /\ np'[h] = np[h] /\ np'[g].xfer = "load_ready" /\ np'[g].synced = FALSE
      /\ CoordKept(g) /\ np'[g].mc = np[g].mc /\ np'[g].failed = np[g].failed
  BY DEF TypeOK, LoadBarrierDone, LoadReady, Exchanges
<1>3. /\ ss'[h] = ss[h] /\ ss'[g].done = FALSE /\ FilesKept(g) /\ PendingKept(g)
      /\ ss'[g].sfail = ss[g].sfail
  BY DEF TypeOK, LoadBarrierDone, Stagings
<1>4. /\ vm'[h] = vm[h] /\ vm'[g].adv = FALSE /\ MachineKept(g) /\ vm'[g].run = vm[g].run
      /\ vm'[g].sim = vm[g].sim
  BY DEF TypeOK, LoadBarrierDone, LoadReady, Unlatched, Machines
<1>5. /\ net' = net /\ active' = active /\ card' = card /\ broken' = broken
  BY DEF TypeOK, LoadBarrierDone, env
<1> QED  BY <1>1, <1>2, <1>3, <1>4, <1>5 DEF DidGuestLoaded

LEMMA TypeGuestLoaded ==
  ASSUME TypeOK, LoadBarrierDone(g)
  PROVE  TypeOK'
<1>1. np' \in [Peers -> Exchanges]
  <2>1. np' = [np EXCEPT ![g] = LoadReady(@)]
    BY DEF LoadBarrierDone
  <2> QED  BY <2>1, TypeParts, ExchangeTypes
<1>2. ss' \in [Peers -> Stagings]
  <2>1. ss' = [ss EXCEPT ![g].done = FALSE]
    BY DEF LoadBarrierDone
  <2> QED  BY <2>1, TypeParts, NoneTypes DEF Stagings
<1>3. vm' \in [Peers -> Machines]
  <2>1. vm' = Unlatched(g)
    BY DEF LoadBarrierDone
  <2> QED  BY <2>1, TypeParts, MachineTypes
<1>4. /\ active' \in [Peers -> BOOLEAN] /\ card' \in [Peers -> Cards]
      /\ broken' \subseteq Faults /\ mode' \in Modes /\ haste' \in BOOLEAN
      /\ ops' \in 0..MaxOps
  BY SyncAssumption, TypeParts DEF TypeOK, LoadBarrierDone, env
<1>5. \A q \in Peers : vm'[q].adv => vm'[q].run
  BY DoGuestLoaded DEF TypeOK, DidGuestLoaded
<1>6. np'[g].xfer \notin {"mc_probe", "mc_send", "save_probe", "load_probe"}
  BY DoGuestLoaded DEF TypeOK, DidGuestLoaded
<1> QED  BY <1>1, <1>2, <1>3, <1>4, <1>5, <1>6, DoGuestLoaded DEF TypeOK, DidGuestLoaded

DidLoadBarrierFailed(p) ==
    /\ active[p] /\ np[p].xfer = "load_applying" /\ ~ss[p].load /\ ss[p].save = "no"
    /\ OthersKept_np(p) /\ np'[p].xfer = "none" /\ np'[p].synced = FALSE
    /\ np'[p].failed = TRUE /\ CoordKept(p) /\ np'[p].mc = np[p].mc
    /\ OthersKept_ss(p) /\ FilesKept(p) /\ PendingKept(p) /\ ss'[p].done = ss[p].done
    /\ ss'[p].sfail = ss[p].sfail
    /\ vm' = vm /\ net' = net /\ active' = active /\ card' = card /\ broken' = broken

LEMMA DoLoadBarrierFailed ==
  ASSUME NEW p \in Peers, TypeOK, LoadBarrierFailed(p)
  PROVE  DidLoadBarrierFailed(p)
<1>1. /\ active[p] /\ np[p].xfer = "load_applying" /\ ~ss[p].load /\ ss[p].save = "no"
  BY DEF TypeOK, LoadBarrierFailed, Pending
<1>2. /\ OthersKept_np(p) /\ np'[p].xfer = "none" /\ np'[p].synced = FALSE
      /\ np'[p].failed = TRUE /\ CoordKept(p) /\ np'[p].mc = np[p].mc
  BY DEF TypeOK, LoadBarrierFailed, Exchanges
<1>3. /\ OthersKept_ss(p) /\ FilesKept(p) /\ PendingKept(p) /\ ss'[p].done = ss[p].done
      /\ ss'[p].sfail = ss[p].sfail
  BY DEF TypeOK, LoadBarrierFailed, Stagings
<1>4. /\ vm' = vm /\ net' = net /\ active' = active /\ card' = card /\ broken' = broken
  BY DEF TypeOK, LoadBarrierFailed, env
<1> QED  BY <1>1, <1>2, <1>3, <1>4 DEF DidLoadBarrierFailed

LEMMA TypeLoadBarrierFailed ==
  ASSUME NEW p \in Peers, TypeOK, LoadBarrierFailed(p)
  PROVE  TypeOK'
<1>1. np' \in [Peers -> Exchanges]
  <2>1. np' = [np EXCEPT ![p] = [np[p] EXCEPT !.xfer = "none", !.applied = FALSE,
                                              !.replied = FALSE, !.synced = FALSE, !.failed = TRUE]]
    BY DEF LoadBarrierFailed
  <2>2. [np[p] EXCEPT !.xfer = "none", !.applied = FALSE, !.replied = FALSE,
                      !.synced = FALSE, !.failed = TRUE] \in Exchanges
    BY TypeParts, NoneTypes DEF Exchanges, Phases
  <2> QED  BY <2>1, <2>2, TypeParts
<1>2. ss' \in [Peers -> Stagings]
  <2>1. ss' = [ss EXCEPT ![p].lfail = FALSE]
    BY DEF LoadBarrierFailed
  <2> QED  BY <2>1, TypeParts, NoneTypes DEF Stagings
<1>3. /\ active' \in [Peers -> BOOLEAN] /\ card' \in [Peers -> Cards]
      /\ broken' \subseteq Faults /\ mode' \in Modes /\ haste' \in BOOLEAN
      /\ ops' \in 0..MaxOps
  BY SyncAssumption, TypeParts DEF TypeOK, LoadBarrierFailed, env
<1>4. \A q \in Peers : vm'[q].adv => vm'[q].run
  BY DoLoadBarrierFailed DEF TypeOK, DidLoadBarrierFailed
<1>5. np'[g].xfer \notin {"mc_probe", "mc_send", "save_probe", "load_probe"}
  BY DoLoadBarrierFailed DEF TypeOK, DidLoadBarrierFailed
<1> QED  BY <1>1, <1>2, <1>3, <1>4, <1>5, DoLoadBarrierFailed DEF TypeOK, DidLoadBarrierFailed

DidHostCardMatch ==
    /\ active[h] /\ np[h].xfer = "mc_probe" /\ net.reply = "match"
    /\ np'[g] = np[g] /\ np'[h].xfer = "none" /\ np'[h].mc = TRUE /\ CoordKept(h)
    /\ SyncKept(h)
    /\ net'.probe = NoProbe /\ net'.seen = net.seen /\ net'.reply = "none"
    /\ net'.tx = net.tx /\ net'.rx = net.rx
    /\ ss' = ss /\ vm' = vm /\ active' = active /\ card' = card /\ broken' = broken

LEMMA DoHostCardMatch ==
  ASSUME TypeOK, HostCardProbed, Match
  PROVE  DidHostCardMatch
<1>1. /\ active[h] /\ np[h].xfer = "mc_probe" /\ net.reply = "match"
  BY DEF TypeOK, HostCardProbed, Match
<1>2. /\ np'[g] = np[g] /\ np'[h].xfer = "none" /\ np'[h].mc = TRUE /\ CoordKept(h)
      /\ SyncKept(h)
  BY DEF TypeOK, HostCardProbed, Exchanges
<1>3. /\ net'.probe = NoProbe /\ net'.seen = net.seen /\ net'.reply = "none"
      /\ net'.tx = net.tx /\ net'.rx = net.rx
  BY DEF TypeOK, HostCardProbed, ProbeFinish, Probe, Sessions
<1>4. /\ ss' = ss /\ vm' = vm /\ active' = active /\ card' = card /\ broken' = broken
  BY DEF TypeOK, HostCardProbed, env
<1> QED  BY <1>1, <1>2, <1>3, <1>4 DEF DidHostCardMatch

LEMMA TypeHostCardMatch ==
  ASSUME TypeOK, HostCardProbed, Match
  PROVE  TypeOK'
<1>1. np' \in [Peers -> Exchanges]
  <2>1. np' = [np EXCEPT ![h].mc = TRUE, ![h].xfer = "none"]
    BY DEF HostCardProbed
  <2> QED  BY <2>1, TypeParts DEF Exchanges, Phases
<1>2. net' \in Sessions
  <2>1. net' = ProbeFinish
    BY DEF HostCardProbed
  <2> QED  BY <2>1, TypeParts, NoneTypes, SessionTypes
<1>3. /\ active' \in [Peers -> BOOLEAN] /\ card' \in [Peers -> Cards]
      /\ broken' \subseteq Faults /\ mode' \in Modes /\ haste' \in BOOLEAN
      /\ ops' \in 0..MaxOps
  BY SyncAssumption, TypeParts DEF TypeOK, HostCardProbed, env
<1>4. \A q \in Peers : vm'[q].adv => vm'[q].run
  BY DoHostCardMatch DEF TypeOK, DidHostCardMatch
<1>5. np'[g].xfer \notin {"mc_probe", "mc_send", "save_probe", "load_probe"}
  BY DoHostCardMatch DEF TypeOK, DidHostCardMatch
<1> QED  BY <1>1, <1>2, <1>3, <1>4, <1>5, DoHostCardMatch DEF TypeOK, DidHostCardMatch

DidHostCardMiss ==
    /\ active[h] /\ np[h].xfer = "mc_probe" /\ net.reply = "miss"
    /\ np'[g] = np[g] /\ np'[h].xfer = "mc_send" /\ CoordKept(h) /\ SyncKept(h)
    /\ np'[h].mc = np[h].mc
    /\ net'.probe = NoProbe /\ net'.seen = net.seen /\ net'.reply = "none"
    /\ net'.rx = net.rx
    /\ ss' = ss /\ vm' = vm /\ active' = active /\ card' = card /\ broken' = broken
    /\ net'.tx.st = "sending" /\ net'.tx.item.op = "mc" /\ net'.tx.item.card = card[h]

LEMMA DoHostCardMiss ==
  ASSUME TypeOK, HostCardProbed, ~Match
  PROVE  DidHostCardMiss
<1>1. /\ active[h] /\ np[h].xfer = "mc_probe" /\ net.reply = "miss"
  BY DEF TypeOK, HostCardProbed, Replied, Match, Sessions
<1>2. /\ np'[g] = np[g] /\ np'[h].xfer = "mc_send" /\ CoordKept(h) /\ SyncKept(h)
      /\ np'[h].mc = np[h].mc
  BY DEF TypeOK, HostCardProbed, Exchanges
<1>3. /\ net'.probe = NoProbe /\ net'.seen = net.seen /\ net'.reply = "none"
      /\ net'.rx = net.rx
  BY DEF TypeOK, HostCardProbed, FinishAndSend, ProbeFinish, Probe, NoRx, Sessions
<1>4. /\ ss' = ss /\ vm' = vm /\ active' = active /\ card' = card /\ broken' = broken
  BY DEF TypeOK, HostCardProbed, env
<1>5. net'.tx = [item |-> [NoRx EXCEPT !.op = "mc", !.card = card[h]], st |-> "sending"]
  BY DEF TypeOK, HostCardProbed, FinishAndSend, ProbeFinish, Probe, Sessions
<1>6. net'.tx.st = "sending" /\ net'.tx.item = [NoRx EXCEPT !.op = "mc", !.card = card[h]]
  BY <1>5
<1>7. net'.tx.item.op = "mc" /\ net'.tx.item.card = card[h]
  BY <1>6 DEF NoRx
<1> QED  BY <1>1, <1>2, <1>3, <1>4, <1>5, <1>6, <1>7 DEF DidHostCardMiss

LEMMA TypeHostCardMiss ==
  ASSUME TypeOK, HostCardProbed, ~Match
  PROVE  TypeOK'
<1>1. np' \in [Peers -> Exchanges]
  <2>1. np' = [np EXCEPT ![h].xfer = "mc_send"]
    BY DEF HostCardProbed
  <2> QED  BY <2>1, TypeParts DEF Exchanges, Phases
<1>2. net' \in Sessions
  <2>1. net' = FinishAndSend([NoRx EXCEPT !.op = "mc", !.card = card[h]])
    BY DEF HostCardProbed
  <2> QED  BY <2>1, TypeParts, NoneTypes, SessionTypes, SendType, NewItemTypes
<1>3. /\ active' \in [Peers -> BOOLEAN] /\ card' \in [Peers -> Cards]
      /\ broken' \subseteq Faults /\ mode' \in Modes /\ haste' \in BOOLEAN
      /\ ops' \in 0..MaxOps
  BY SyncAssumption, TypeParts DEF TypeOK, HostCardProbed, env
<1>4. \A q \in Peers : vm'[q].adv => vm'[q].run
  BY DoHostCardMiss DEF TypeOK, DidHostCardMiss
<1>5. np'[g].xfer \notin {"mc_probe", "mc_send", "save_probe", "load_probe"}
  BY DoHostCardMiss DEF TypeOK, DidHostCardMiss
<1> QED  BY <1>1, <1>2, <1>3, <1>4, <1>5, DoHostCardMiss DEF TypeOK, DidHostCardMiss

DidHostCoordAbort ==
    /\ active[h] /\ np[h].xfer = "save_coord" /\ ss[h].save = "no"
    /\ np'[g] = np[g] /\ np'[h].xfer = "none" /\ np'[h].staged = FALSE /\ SyncKept(h)
    /\ np'[h].mc = np[h].mc /\ np'[h].acked = np[h].acked /\ np'[h].target = np[h].target
    /\ ss'[g] = ss[g] /\ ss'[h].sfail = FALSE /\ FilesKept(h) /\ PendingKept(h)
    /\ ss'[h].done = ss[h].done
    /\ vm' = vm /\ net' = net /\ active' = active /\ card' = card /\ broken' = broken

LEMMA DoHostCoordAbort ==
  ASSUME TypeOK, HostCoordAbort
  PROVE  DidHostCoordAbort
<1>1. /\ active[h] /\ np[h].xfer = "save_coord" /\ ss[h].save = "no"
  BY DEF TypeOK, HostCoordAbort, Pending
<1>2. /\ np'[g] = np[g] /\ np'[h].xfer = "none" /\ np'[h].staged = FALSE /\ SyncKept(h)
      /\ np'[h].mc = np[h].mc /\ np'[h].acked = np[h].acked /\ np'[h].target = np[h].target
  BY DEF TypeOK, HostCoordAbort, Exchanges
<1>3. /\ ss'[g] = ss[g] /\ ss'[h].sfail = FALSE /\ FilesKept(h) /\ PendingKept(h)
      /\ ss'[h].done = ss[h].done
  BY DEF TypeOK, HostCoordAbort, Stagings
<1>4. /\ vm' = vm /\ net' = net /\ active' = active /\ card' = card /\ broken' = broken
  BY DEF TypeOK, HostCoordAbort, env
<1> QED  BY <1>1, <1>2, <1>3, <1>4 DEF DidHostCoordAbort

LEMMA TypeHostCoordAbort ==
  ASSUME TypeOK, HostCoordAbort
  PROVE  TypeOK'
<1>1. np' \in [Peers -> Exchanges]
  <2>1. np' = [np EXCEPT ![h].xfer = "none", ![h].staged = FALSE]
    BY DEF HostCoordAbort
  <2> QED  BY <2>1, TypeParts DEF Exchanges, Phases
<1>2. ss' \in [Peers -> Stagings]
  <2>1. ss' = [ss EXCEPT ![h].sfail = FALSE]
    BY DEF HostCoordAbort
  <2> QED  BY <2>1, TypeParts, NoneTypes DEF Stagings
<1>3. /\ active' \in [Peers -> BOOLEAN] /\ card' \in [Peers -> Cards]
      /\ broken' \subseteq Faults /\ mode' \in Modes /\ haste' \in BOOLEAN
      /\ ops' \in 0..MaxOps
  BY SyncAssumption, TypeParts DEF TypeOK, HostCoordAbort, env
<1>4. \A q \in Peers : vm'[q].adv => vm'[q].run
  BY DoHostCoordAbort DEF TypeOK, DidHostCoordAbort
<1>5. np'[g].xfer \notin {"mc_probe", "mc_send", "save_probe", "load_probe"}
  BY DoHostCoordAbort DEF TypeOK, DidHostCoordAbort
<1> QED  BY <1>1, <1>2, <1>3, <1>4, <1>5, DoHostCoordAbort DEF TypeOK, DidHostCoordAbort

DidHostCoordDone ==
    /\ active[h] /\ np[h].xfer = "save_coord" /\ np[h].staged /\ ss[h].save = "no"
    /\ net.reply # "none"
    /\ np'[g] = np[g] /\ np'[h].xfer = "save_probe" /\ CoordKept(h) /\ SyncKept(h)
    /\ np'[h].mc = np[h].mc
    /\ net'.seen = net.seen /\ net'.reply = "none" /\ net'.tx = net.tx /\ net'.rx = net.rx
    /\ ss' = ss /\ vm' = vm /\ active' = active /\ card' = card /\ broken' = broken
    /\ net'.probe.op = "save" /\ net'.probe.file = ss[h].slot

LEMMA DoHostCoordDone ==
  ASSUME TypeOK, HostCoordDone
  PROVE  DidHostCoordDone
<1>1. /\ active[h] /\ np[h].xfer = "save_coord" /\ np[h].staged /\ ss[h].save = "no"
      /\ net.reply # "none"
  BY DEF TypeOK, HostCoordDone, SaveWritten, Pending, Replied
<1>2. /\ np'[g] = np[g] /\ np'[h].xfer = "save_probe" /\ CoordKept(h) /\ SyncKept(h)
      /\ np'[h].mc = np[h].mc
  BY DEF TypeOK, HostCoordDone, Exchanges
<1>3. /\ net'.seen = net.seen /\ net'.reply = "none" /\ net'.tx = net.tx
      /\ net'.rx = net.rx
  BY DEF TypeOK, HostCoordDone, Probe, NoProbe, Sessions
<1>4. /\ ss' = ss /\ vm' = vm /\ active' = active /\ card' = card /\ broken' = broken
  BY DEF TypeOK, HostCoordDone, env
<1>5. /\ net'.probe.op = "save" /\ net'.probe.file = ss[h].slot
  BY DEF TypeOK, HostCoordDone, Probe, NoProbe, Sessions
<1> QED  BY <1>1, <1>2, <1>3, <1>4, <1>5 DEF DidHostCoordDone

LEMMA TypeHostCoordDone ==
  ASSUME TypeOK, HostCoordDone
  PROVE  TypeOK'
<1>1. np' \in [Peers -> Exchanges]
  <2>1. np' = [np EXCEPT ![h].xfer = "save_probe"]
    BY DEF HostCoordDone
  <2> QED  BY <2>1, TypeParts DEF Exchanges, Phases
<1>2. net' \in Sessions
  <2>1. net' = Probe([NoProbe EXCEPT !.op = "save", !.file = ss[h].slot])
    BY DEF HostCoordDone
  <2> QED  BY <2>1, TypeParts, NoneTypes, ProbeType, NewProbeTypes
<1>3. /\ active' \in [Peers -> BOOLEAN] /\ card' \in [Peers -> Cards]
      /\ broken' \subseteq Faults /\ mode' \in Modes /\ haste' \in BOOLEAN
      /\ ops' \in 0..MaxOps
  BY SyncAssumption, TypeParts DEF TypeOK, HostCoordDone, env
<1>4. \A q \in Peers : vm'[q].adv => vm'[q].run
  BY DoHostCoordDone DEF TypeOK, DidHostCoordDone
<1>5. np'[g].xfer \notin {"mc_probe", "mc_send", "save_probe", "load_probe"}
  BY DoHostCoordDone DEF TypeOK, DidHostCoordDone
<1> QED  BY <1>1, <1>2, <1>3, <1>4, <1>5, DoHostCoordDone DEF TypeOK, DidHostCoordDone

DidHostSaveMatch ==
    /\ active[h] /\ np[h].xfer = "save_probe" /\ net.reply = "match"
    /\ np'[g] = np[g] /\ np'[h].xfer = "none" /\ CoordKept(h) /\ SyncKept(h)
    /\ np'[h].mc = np[h].mc
    /\ net'.probe = NoProbe /\ net'.seen = net.seen /\ net'.reply = "none"
    /\ net'.tx = net.tx /\ net'.rx = net.rx
    /\ ss' = ss /\ vm' = vm /\ active' = active /\ card' = card /\ broken' = broken

LEMMA DoHostSaveMatch ==
  ASSUME TypeOK, HostSaveProbed, Match
  PROVE  DidHostSaveMatch
<1>1. /\ active[h] /\ np[h].xfer = "save_probe" /\ net.reply = "match"
  BY DEF TypeOK, HostSaveProbed, Match
<1>2. /\ np'[g] = np[g] /\ np'[h].xfer = "none" /\ CoordKept(h) /\ SyncKept(h)
      /\ np'[h].mc = np[h].mc
  BY DEF TypeOK, HostSaveProbed, Exchanges
<1>3. /\ net'.probe = NoProbe /\ net'.seen = net.seen /\ net'.reply = "none"
      /\ net'.tx = net.tx /\ net'.rx = net.rx
  BY DEF TypeOK, HostSaveProbed, ProbeFinish, Probe, Sessions
<1>4. /\ ss' = ss /\ vm' = vm /\ active' = active /\ card' = card /\ broken' = broken
  BY DEF TypeOK, HostSaveProbed, env
<1> QED  BY <1>1, <1>2, <1>3, <1>4 DEF DidHostSaveMatch

LEMMA TypeHostSaveMatch ==
  ASSUME TypeOK, HostSaveProbed, Match
  PROVE  TypeOK'
<1>1. np' \in [Peers -> Exchanges]
  <2>1. np' = [np EXCEPT ![h].xfer = "none"]
    BY DEF HostSaveProbed
  <2> QED  BY <2>1, TypeParts DEF Exchanges, Phases
<1>2. net' \in Sessions
  <2>1. net' = ProbeFinish
    BY DEF HostSaveProbed
  <2> QED  BY <2>1, TypeParts, NoneTypes, SessionTypes
<1>3. /\ active' \in [Peers -> BOOLEAN] /\ card' \in [Peers -> Cards]
      /\ broken' \subseteq Faults /\ mode' \in Modes /\ haste' \in BOOLEAN
      /\ ops' \in 0..MaxOps
  BY SyncAssumption, TypeParts DEF TypeOK, HostSaveProbed, env
<1>4. \A q \in Peers : vm'[q].adv => vm'[q].run
  BY DoHostSaveMatch DEF TypeOK, DidHostSaveMatch
<1>5. np'[g].xfer \notin {"mc_probe", "mc_send", "save_probe", "load_probe"}
  BY DoHostSaveMatch DEF TypeOK, DidHostSaveMatch
<1> QED  BY <1>1, <1>2, <1>3, <1>4, <1>5, DoHostSaveMatch DEF TypeOK, DidHostSaveMatch

DidHostSaveMiss ==
    /\ active[h] /\ np[h].xfer = "save_probe" /\ net.reply = "miss"
    /\ np'[g] = np[g] /\ np'[h].xfer = "save_send" /\ CoordKept(h) /\ SyncKept(h)
    /\ np'[h].mc = np[h].mc
    /\ net'.probe = NoProbe /\ net'.seen = net.seen /\ net'.reply = "none"
    /\ net'.rx = net.rx
    /\ ss' = ss /\ vm' = vm /\ active' = active /\ card' = card /\ broken' = broken
    /\ net'.tx.st = "sending" /\ net'.tx.item.op = "save" /\ net'.tx.item.file = ss[h].slot

LEMMA DoHostSaveMiss ==
  ASSUME TypeOK, HostSaveProbed, ~Match
  PROVE  DidHostSaveMiss
<1>1. /\ active[h] /\ np[h].xfer = "save_probe" /\ net.reply = "miss"
  BY DEF TypeOK, HostSaveProbed, Replied, Match, Sessions
<1>2. /\ np'[g] = np[g] /\ np'[h].xfer = "save_send" /\ CoordKept(h) /\ SyncKept(h)
      /\ np'[h].mc = np[h].mc
  BY DEF TypeOK, HostSaveProbed, Exchanges
<1>3. /\ net'.probe = NoProbe /\ net'.seen = net.seen /\ net'.reply = "none"
      /\ net'.rx = net.rx
  BY DEF TypeOK, HostSaveProbed, FinishAndSend, ProbeFinish, Probe, NoRx, Sessions
<1>4. /\ ss' = ss /\ vm' = vm /\ active' = active /\ card' = card /\ broken' = broken
  BY DEF TypeOK, HostSaveProbed, env
<1>5. net'.tx = [item |-> [NoRx EXCEPT !.op = "save", !.file = ss[h].slot], st |-> "sending"]
  BY DEF TypeOK, HostSaveProbed, FinishAndSend, ProbeFinish, Probe, Sessions
<1>6. net'.tx.st = "sending" /\ net'.tx.item = [NoRx EXCEPT !.op = "save", !.file = ss[h].slot]
  BY <1>5
<1>7. net'.tx.item.op = "save" /\ net'.tx.item.file = ss[h].slot
  BY <1>6 DEF NoRx
<1> QED  BY <1>1, <1>2, <1>3, <1>4, <1>5, <1>6, <1>7 DEF DidHostSaveMiss

LEMMA TypeHostSaveMiss ==
  ASSUME TypeOK, HostSaveProbed, ~Match
  PROVE  TypeOK'
<1>1. np' \in [Peers -> Exchanges]
  <2>1. np' = [np EXCEPT ![h].xfer = "save_send"]
    BY DEF HostSaveProbed
  <2> QED  BY <2>1, TypeParts DEF Exchanges, Phases
<1>2. net' \in Sessions
  <2>1. net' = FinishAndSend([NoRx EXCEPT !.op = "save", !.file = ss[h].slot])
    BY DEF HostSaveProbed
  <2> QED  BY <2>1, TypeParts, NoneTypes, SessionTypes, SendType, NewItemTypes
<1>3. /\ active' \in [Peers -> BOOLEAN] /\ card' \in [Peers -> Cards]
      /\ broken' \subseteq Faults /\ mode' \in Modes /\ haste' \in BOOLEAN
      /\ ops' \in 0..MaxOps
  BY SyncAssumption, TypeParts DEF TypeOK, HostSaveProbed, env
<1>4. \A q \in Peers : vm'[q].adv => vm'[q].run
  BY DoHostSaveMiss DEF TypeOK, DidHostSaveMiss
<1>5. np'[g].xfer \notin {"mc_probe", "mc_send", "save_probe", "load_probe"}
  BY DoHostSaveMiss DEF TypeOK, DidHostSaveMiss
<1> QED  BY <1>1, <1>2, <1>3, <1>4, <1>5, DoHostSaveMiss DEF TypeOK, DidHostSaveMiss

DidHostLoadMatch ==
    /\ active[h] /\ np[h].xfer = "load_probe" /\ net.reply = "match"
    /\ np'[g] = np[g] /\ np'[h].xfer = "load_applying" /\ np'[h].synced = FALSE
    /\ CoordKept(h) /\ np'[h].mc = np[h].mc /\ np'[h].failed = np[h].failed
    /\ ss'[g] = ss[g] /\ ss'[h].load = TRUE /\ ss'[h].blob = NoBlob /\ ss'[h].done = FALSE
    /\ ss'[h].save = ss[h].save /\ ss'[h].sfail = ss[h].sfail /\ ss'[h].slot = ss[h].slot
    /\ vm'[g] = vm[g] /\ vm'[h].adv = FALSE /\ MachineKept(h) /\ vm'[h].run = vm[h].run
    /\ vm'[h].sim = vm[h].sim
    /\ net'.probe = NoProbe /\ net'.seen = net.seen /\ net'.reply = "none"
    /\ net'.tx = net.tx /\ net'.rx = net.rx
    /\ active' = active /\ card' = card /\ broken' = broken

LEMMA DoHostLoadMatch ==
  ASSUME TypeOK, HostLoadProbed, Match
  PROVE  DidHostLoadMatch
<1>1. /\ active[h] /\ np[h].xfer = "load_probe" /\ net.reply = "match"
  BY DEF TypeOK, HostLoadProbed, Match
<1>2. /\ np'[g] = np[g] /\ np'[h].xfer = "load_applying" /\ np'[h].synced = FALSE
      /\ CoordKept(h) /\ np'[h].mc = np[h].mc /\ np'[h].failed = np[h].failed
  <2>1. np' = [np EXCEPT ![h] = LoadApplying(np[h])]
    BY DEF TypeOK, HostLoadProbed
  <2>2. np'[g] = np[g] /\ np'[h] = LoadApplying(np[h]) /\ np[h] \in Exchanges
    BY <2>1 DEF TypeOK
  <2> QED  BY <2>2 DEF LoadApplying, Exchanges
<1>3. /\ ss'[g] = ss[g] /\ ss'[h].load = TRUE /\ ss'[h].blob = NoBlob
      /\ ss'[h].done = FALSE /\ ss'[h].save = ss[h].save /\ ss'[h].sfail = ss[h].sfail
      /\ ss'[h].slot = ss[h].slot
  BY DEF TypeOK, HostLoadProbed, StagedLoad, Stagings
<1>4. /\ vm'[g] = vm[g] /\ vm'[h].adv = FALSE /\ MachineKept(h) /\ vm'[h].run = vm[h].run
      /\ vm'[h].sim = vm[h].sim
  BY DEF TypeOK, HostLoadProbed, Unlatched, Machines
<1>5. /\ net'.probe = NoProbe /\ net'.seen = net.seen /\ net'.reply = "none"
      /\ net'.tx = net.tx /\ net'.rx = net.rx
  BY DEF TypeOK, HostLoadProbed, ProbeFinish, Probe, Sessions
<1>6. /\ active' = active /\ card' = card /\ broken' = broken
  BY DEF TypeOK, HostLoadProbed, env
<1> QED  BY <1>1, <1>2, <1>3, <1>4, <1>5, <1>6 DEF DidHostLoadMatch

LEMMA TypeHostLoadMatch ==
  ASSUME TypeOK, HostLoadProbed, Match
  PROVE  TypeOK'
<1>1. np' \in [Peers -> Exchanges]
  <2>1. np' = [np EXCEPT ![h] = LoadApplying(@)]
    BY DEF HostLoadProbed
  <2> QED  BY <2>1, TypeParts, ExchangeTypes
<1>2. ss' \in [Peers -> Stagings]
  <2>1. ss' = StagedLoad(h, NoBlob)
    BY DEF HostLoadProbed
  <2> QED  BY <2>1, TypeParts, NoneTypes, StagedTypes
<1>3. vm' \in [Peers -> Machines]
  <2>1. vm' = Unlatched(h)
    BY DEF HostLoadProbed
  <2> QED  BY <2>1, TypeParts, MachineTypes
<1>4. net' \in Sessions
  <2>1. net' = ProbeFinish
    BY DEF HostLoadProbed
  <2> QED  BY <2>1, TypeParts, NoneTypes, SessionTypes
<1>5. /\ active' \in [Peers -> BOOLEAN] /\ card' \in [Peers -> Cards]
      /\ broken' \subseteq Faults /\ mode' \in Modes /\ haste' \in BOOLEAN
      /\ ops' \in 0..MaxOps
  BY SyncAssumption, TypeParts DEF TypeOK, HostLoadProbed, env
<1>6. \A q \in Peers : vm'[q].adv => vm'[q].run
  BY DoHostLoadMatch DEF TypeOK, DidHostLoadMatch
<1>7. np'[g].xfer \notin {"mc_probe", "mc_send", "save_probe", "load_probe"}
  BY DoHostLoadMatch DEF TypeOK, DidHostLoadMatch
<1> QED  BY <1>1, <1>2, <1>3, <1>4, <1>5, <1>6, <1>7 DEF TypeOK

DidHostLoadMiss ==
    /\ active[h] /\ np[h].xfer = "load_probe" /\ net.reply = "miss"
    /\ np'[g] = np[g] /\ np'[h].xfer = "load_send" /\ np'[h].synced = FALSE /\ CoordKept(h)
    /\ np'[h].mc = np[h].mc /\ np'[h].failed = np[h].failed
    /\ net'.probe = NoProbe /\ net'.seen = net.seen /\ net'.reply = "none"
    /\ net'.rx = net.rx
    /\ ss' = ss /\ vm' = vm /\ active' = active /\ card' = card /\ broken' = broken
    /\ net'.tx.st = "sending" /\ net'.tx.item.op = "load" /\ net'.tx.item.file = ss[h].slot

LEMMA DoHostLoadMiss ==
  ASSUME TypeOK, HostLoadProbed, ~Match
  PROVE  DidHostLoadMiss
<1>1. /\ active[h] /\ np[h].xfer = "load_probe" /\ net.reply = "miss"
  BY DEF TypeOK, HostLoadProbed, Replied, Match, Sessions
<1>2. /\ np'[g] = np[g] /\ np'[h].xfer = "load_send" /\ np'[h].synced = FALSE
      /\ CoordKept(h) /\ np'[h].mc = np[h].mc /\ np'[h].failed = np[h].failed
  BY DEF TypeOK, HostLoadProbed, Exchanges
<1>3. /\ net'.probe = NoProbe /\ net'.seen = net.seen /\ net'.reply = "none"
      /\ net'.rx = net.rx
  BY DEF TypeOK, HostLoadProbed, FinishAndSend, ProbeFinish, Probe, NoRx, Sessions
<1>4. /\ ss' = ss /\ vm' = vm /\ active' = active /\ card' = card /\ broken' = broken
  BY DEF TypeOK, HostLoadProbed, env
<1>5. net'.tx = [item |-> [NoRx EXCEPT !.op = "load", !.file = ss[h].slot], st |-> "sending"]
  BY DEF TypeOK, HostLoadProbed, FinishAndSend, ProbeFinish, Probe, Sessions
<1>6. net'.tx.st = "sending" /\ net'.tx.item = [NoRx EXCEPT !.op = "load", !.file = ss[h].slot]
  BY <1>5
<1>7. net'.tx.item.op = "load" /\ net'.tx.item.file = ss[h].slot
  BY <1>6 DEF NoRx
<1> QED  BY <1>1, <1>2, <1>3, <1>4, <1>5, <1>6, <1>7 DEF DidHostLoadMiss

LEMMA TypeHostLoadMiss ==
  ASSUME TypeOK, HostLoadProbed, ~Match
  PROVE  TypeOK'
<1>1. np' \in [Peers -> Exchanges]
  <2>1. np' = [np EXCEPT ![h].xfer = "load_send", ![h].applied = FALSE, ![h].synced = FALSE]
    BY DEF HostLoadProbed
  <2> QED  BY <2>1, TypeParts DEF Exchanges, Phases
<1>2. net' \in Sessions
  <2>1. net' = FinishAndSend([NoRx EXCEPT !.op = "load", !.file = ss[h].slot])
    BY DEF HostLoadProbed
  <2> QED  BY <2>1, TypeParts, NoneTypes, SessionTypes, SendType, NewItemTypes
<1>3. /\ active' \in [Peers -> BOOLEAN] /\ card' \in [Peers -> Cards]
      /\ broken' \subseteq Faults /\ mode' \in Modes /\ haste' \in BOOLEAN
      /\ ops' \in 0..MaxOps
  BY SyncAssumption, TypeParts DEF TypeOK, HostLoadProbed, env
<1>4. \A q \in Peers : vm'[q].adv => vm'[q].run
  BY DoHostLoadMiss DEF TypeOK, DidHostLoadMiss
<1>5. np'[g].xfer \notin {"mc_probe", "mc_send", "save_probe", "load_probe"}
  BY DoHostLoadMiss DEF TypeOK, DidHostLoadMiss
<1> QED  BY <1>1, <1>2, <1>3, <1>4, <1>5, DoHostLoadMiss DEF TypeOK, DidHostLoadMiss

DidHostReady ==
    /\ active[h] /\ np[h].xfer = "load_ready" /\ net.reply # "none"
    /\ np'[g] = np[g] /\ np'[h].synced = TRUE /\ CoordKept(h) /\ np'[h].xfer = np[h].xfer
    /\ np'[h].mc = np[h].mc /\ np'[h].failed = np[h].failed
    /\ vm'[g] = vm[g] /\ MachineKept(h) /\ vm'[h].run = vm[h].run
    /\ net'.probe = NoProbe /\ net'.seen = net.seen /\ net'.reply = "none"
    /\ net'.tx = net.tx /\ net'.rx = net.rx
    /\ ss' = ss /\ active' = active /\ card' = card /\ broken' = broken
    /\ (np[h].synced => vm' = vm)
    /\ (~np[h].synced => vm'[h].sim = 0 /\ vm'[h].adv = FALSE)

LEMMA DoHostReady ==
  ASSUME TypeOK, HostReady
  PROVE  DidHostReady
<1>1. /\ active[h] /\ np[h].xfer = "load_ready" /\ net.reply # "none"
  BY DEF TypeOK, HostReady, Replied
<1>2. /\ np'[g] = np[g] /\ np'[h].synced = TRUE /\ CoordKept(h) /\ np'[h].xfer = np[h].xfer
      /\ np'[h].mc = np[h].mc /\ np'[h].failed = np[h].failed
  BY DEF TypeOK, HostReady, Exchanges
<1>3. /\ vm'[g] = vm[g] /\ MachineKept(h) /\ vm'[h].run = vm[h].run
  BY DEF TypeOK, HostReady, Resynced, Machines
<1>4. /\ net'.probe = NoProbe /\ net'.seen = net.seen /\ net'.reply = "none"
      /\ net'.tx = net.tx /\ net'.rx = net.rx
  BY DEF TypeOK, HostReady, ProbeFinish, Probe, Sessions
<1>5. /\ ss' = ss /\ active' = active /\ card' = card /\ broken' = broken
  BY DEF TypeOK, HostReady, env
<1>6. /\ (np[h].synced => vm' = vm)
      /\ (~np[h].synced => vm'[h].sim = 0 /\ vm'[h].adv = FALSE)
  BY DEF TypeOK, HostReady, Resynced, Machines
<1> QED  BY <1>1, <1>2, <1>3, <1>4, <1>5, <1>6 DEF DidHostReady

LEMMA TypeHostReady ==
  ASSUME TypeOK, HostReady
  PROVE  TypeOK'
<1>1. np' \in [Peers -> Exchanges]
  <2>1. np' = [np EXCEPT ![h].synced = TRUE, ![h].replied = TRUE]
    BY DEF HostReady
  <2> QED  BY <2>1, TypeParts DEF Exchanges, Phases
<1>2. vm' \in [Peers -> Machines]
  <2>1. vm' = IF np[h].synced THEN vm ELSE Resynced(h)
    BY DEF HostReady
  <2> QED  BY <2>1, TypeParts, MachineTypes
<1>3. net' \in Sessions
  <2>1. net' = ProbeFinish
    BY DEF HostReady
  <2> QED  BY <2>1, TypeParts, NoneTypes, SessionTypes
<1>4. /\ active' \in [Peers -> BOOLEAN] /\ card' \in [Peers -> Cards]
      /\ broken' \subseteq Faults /\ mode' \in Modes /\ haste' \in BOOLEAN
      /\ ops' \in 0..MaxOps
  BY SyncAssumption, TypeParts DEF TypeOK, HostReady, env
<1>5. \A q \in Peers : vm'[q].adv => vm'[q].run
  BY DoHostReady DEF TypeOK, DidHostReady
<1>6. np'[g].xfer \notin {"mc_probe", "mc_send", "save_probe", "load_probe"}
  BY DoHostReady DEF TypeOK, DidHostReady
<1> QED  BY <1>1, <1>2, <1>3, <1>4, <1>5, <1>6, DoHostReady DEF TypeOK, DidHostReady

DidStartMcSync ==
    /\ active[h] /\ np[h].xfer = "none" /\ net.probe = NoProbe /\ net.tx = NoTx
    /\ ~np[h].mc
    /\ np'[g] = np[g] /\ np'[h].xfer = "mc_probe" /\ CoordKept(h) /\ SyncKept(h)
    /\ np'[h].mc = np[h].mc
    /\ net'.seen = net.seen /\ net'.reply = "none" /\ net'.tx = net.tx /\ net'.rx = net.rx
    /\ ss' = ss /\ vm' = vm /\ active' = active /\ card' = card /\ broken' = broken
    /\ net'.probe.op = "mc" /\ net'.probe.card = card[h]

LEMMA DoStartMcSync ==
  ASSUME TypeOK, StartMcSync
  PROVE  DidStartMcSync
<1>1. /\ active[h] /\ np[h].xfer = "none" /\ net.probe = NoProbe /\ net.tx = NoTx
      /\ ~np[h].mc
  BY DEF TypeOK, StartMcSync, Busy
<1>2. /\ np'[g] = np[g] /\ np'[h].xfer = "mc_probe" /\ CoordKept(h) /\ SyncKept(h)
      /\ np'[h].mc = np[h].mc
  BY DEF TypeOK, StartMcSync, Exchanges
<1>3. /\ net'.seen = net.seen /\ net'.reply = "none" /\ net'.tx = net.tx
      /\ net'.rx = net.rx
  BY DEF TypeOK, StartMcSync, Probe, NoProbe, Sessions
<1>4. /\ ss' = ss /\ vm' = vm /\ active' = active /\ card' = card /\ broken' = broken
  BY DEF TypeOK, StartMcSync, env
<1>5. /\ net'.probe.op = "mc" /\ net'.probe.card = card[h]
  BY DEF TypeOK, StartMcSync, Probe, NoProbe, Sessions
<1> QED  BY <1>1, <1>2, <1>3, <1>4, <1>5 DEF DidStartMcSync

LEMMA TypeStartMcSync ==
  ASSUME TypeOK, StartMcSync
  PROVE  TypeOK'
<1>1. np' \in [Peers -> Exchanges]
  <2>1. np' = [np EXCEPT ![h].sent = TRUE, ![h].xfer = "mc_probe"]
    BY DEF StartMcSync
  <2> QED  BY <2>1, TypeParts DEF Exchanges, Phases
<1>2. net' \in Sessions
  <2>1. net' = Probe([NoProbe EXCEPT !.op = "mc", !.card = card[h]])
    BY DEF StartMcSync
  <2> QED  BY <2>1, TypeParts, NoneTypes, ProbeType, NewProbeTypes
<1>3. /\ active' \in [Peers -> BOOLEAN] /\ card' \in [Peers -> Cards]
      /\ broken' \subseteq Faults /\ mode' \in Modes /\ haste' \in BOOLEAN
      /\ ops' \in 0..MaxOps
  BY SyncAssumption, TypeParts DEF TypeOK, StartMcSync, env
<1>4. \A q \in Peers : vm'[q].adv => vm'[q].run
  BY DoStartMcSync DEF TypeOK, DidStartMcSync
<1>5. np'[g].xfer \notin {"mc_probe", "mc_send", "save_probe", "load_probe"}
  BY DoStartMcSync DEF TypeOK, DidStartMcSync
<1> QED  BY <1>1, <1>2, <1>3, <1>4, <1>5, DoStartMcSync DEF TypeOK, DidStartMcSync

-----------------------------------------------------------------------------
(* What could not start *)

DidGuestDropsLoad ==
    /\ active[g] /\ net.rx.op = "load"
    /\ np'[h] = np[h] /\ np'[g].xfer = "none" /\ SyncKept(g) /\ np'[g].mc = np[g].mc
    /\ ss' = ss /\ vm' = vm /\ active' = active /\ card' = card
    /\ net'.probe = net.probe /\ net'.seen = net.seen /\ net'.reply = net.reply
    /\ net'.tx = net.tx /\ net'.rx = NoRx
    /\ "start" \in broken' /\ broken' \subseteq Faults

LEMMA DoGuestDropsLoad ==
  ASSUME TypeOK, GuestDropsLoad
  PROVE  DidGuestDropsLoad
<1>1. /\ np'[h] = np[h] /\ np'[g].xfer = "none" /\ SyncKept(g) /\ np'[g].mc = np[g].mc
  BY DEF TypeOK, GuestDropsLoad, Exchanges
<1>2. /\ net'.probe = net.probe /\ net'.seen = net.seen /\ net'.reply = net.reply
      /\ net'.tx = net.tx /\ net'.rx = NoRx
  BY DEF TypeOK, GuestDropsLoad, GuestFinish, Sessions
<1>3. /\ ss' = ss /\ vm' = vm /\ active' = active /\ card' = card
      /\ "start" \in broken' /\ broken' \subseteq Faults
  BY DEF TypeOK, GuestDropsLoad, Fails, MayFail, env
<1> QED  BY <1>1, <1>2, <1>3 DEF DidGuestDropsLoad, GuestDropsLoad

LEMMA TypeGuestDropsLoad ==
  ASSUME TypeOK, GuestDropsLoad
  PROVE  TypeOK'
<1>1. np' \in [Peers -> Exchanges]
  <2>1. np' = [np EXCEPT ![g].xfer = "none"]
    BY DEF GuestDropsLoad
  <2> QED  BY <2>1, TypeParts DEF Exchanges, Phases
<1>2. net' \in Sessions
  <2>1. net' = GuestFinish
    BY DEF GuestDropsLoad
  <2> QED  BY <2>1, TypeParts, NoneTypes, SessionTypes
<1>3. mode' \in Modes /\ haste' \in BOOLEAN /\ ops' \in 0..MaxOps
  BY DEF TypeOK, GuestDropsLoad, env
<1> QED  BY <1>1, <1>2, <1>3, DoGuestDropsLoad DEF TypeOK, DidGuestDropsLoad

\* What np_host_drive_xfer does when it cannot send, or cannot compare: the probe
\* is finished and the host is out of the exchange.
DidHostRefused ==
    /\ active[h] /\ np[h].xfer \in {"mc_probe", "save_probe", "load_probe", "save_coord"}
    /\ ss[h].save = "no" \/ np[h].xfer # "save_coord"
    /\ np'[g] = np[g] /\ np'[h].xfer = "none" /\ np'[h].failed = np[h].failed
    /\ IF np[h].xfer = "mc_probe" THEN np'[h].mc = TRUE ELSE np'[h].mc = np[h].mc
    /\ ss' = ss /\ vm' = vm /\ active' = active /\ card' = card
    /\ net'.probe = NoProbe /\ net'.seen = net.seen /\ net'.reply = "none"
    /\ net'.tx = net.tx /\ net'.rx = net.rx
    /\ "start" \in broken' /\ broken' \subseteq Faults

LEMMA DoHostRefused ==
  ASSUME TypeOK, HostSendsNothing \/ HostSaveUnprobed
  PROVE  DidHostRefused
<1>1. /\ active[h] /\ np[h].xfer \in {"mc_probe", "save_probe", "load_probe", "save_coord"}
      /\ ss[h].save = "no" \/ np[h].xfer # "save_coord"
  BY DEF HostSendsNothing, HostSaveUnprobed, SaveWritten, Pending
<1>2. np[h] \in Exchanges /\ DOMAIN np = Peers
  BY DEF TypeOK
<1>3. /\ np'[g] = np[g] /\ np'[h].xfer = "none" /\ np'[h].failed = np[h].failed
      /\ IF np[h].xfer = "mc_probe" THEN np'[h].mc = TRUE ELSE np'[h].mc = np[h].mc
  <2>1. CASE HostSaveUnprobed
    BY <1>2, <2>1 DEF HostSaveUnprobed, Exchanges
  <2>2. CASE HostSendsNothing
    BY <1>2, <2>2 DEF HostSendsNothing, Exchanges
  <2> QED  BY <2>1, <2>2
<1>4. net' = ProbeFinish
  BY DEF HostSendsNothing, HostSaveUnprobed
<1>5. /\ net'.probe = NoProbe /\ net'.seen = net.seen /\ net'.reply = "none"
      /\ net'.tx = net.tx /\ net'.rx = net.rx
  BY <1>4 DEF TypeOK, ProbeFinish, Probe, Sessions
<1>6. /\ ss' = ss /\ vm' = vm /\ active' = active /\ card' = card
      /\ "start" \in broken' /\ broken' \subseteq Faults
  BY DEF TypeOK, HostSendsNothing, HostSaveUnprobed, Fails, MayFail, env
<1> QED  BY <1>1, <1>3, <1>5, <1>6 DEF DidHostRefused

LEMMA TypeHostRefused ==
  ASSUME TypeOK, HostSendsNothing \/ HostSaveUnprobed
  PROVE  TypeOK'
<1>1. np' \in [Peers -> Exchanges]
  <2>1. CASE HostSaveUnprobed
    <3>1. np' = [np EXCEPT ![h].xfer = "none"]
      BY <2>1 DEF HostSaveUnprobed
    <3> QED  BY <3>1, TypeParts DEF Exchanges, Phases
  <2>2. CASE HostSendsNothing
    <3>1. np[h].synced \in BOOLEAN
      BY TypeParts DEF Exchanges
    <3>2. \/ np' = [np EXCEPT ![h].xfer = "none", ![h].mc = TRUE]
          \/ np' = [np EXCEPT ![h].xfer = "none"]
          \/ \E b \in BOOLEAN :
                np' = [np EXCEPT ![h].xfer = "none", ![h].applied = FALSE, ![h].synced = b]
      BY <2>2, <3>1 DEF HostSendsNothing
    <3>3. CASE np' = [np EXCEPT ![h].xfer = "none", ![h].mc = TRUE]
      BY <3>3, TypeParts DEF Exchanges, Phases
    <3>4. CASE np' = [np EXCEPT ![h].xfer = "none"]
      BY <3>4, TypeParts DEF Exchanges, Phases
    <3>5. ASSUME NEW b \in BOOLEAN,
                 np' = [np EXCEPT ![h].xfer = "none", ![h].applied = FALSE, ![h].synced = b]
          PROVE  np' \in [Peers -> Exchanges]
      BY <3>5, TypeParts DEF Exchanges, Phases
    <3> QED  BY <3>2, <3>3, <3>4, <3>5
  <2> QED  BY <2>1, <2>2
<1>2. net' \in Sessions
  <2>1. net' = ProbeFinish
    BY DEF HostSendsNothing, HostSaveUnprobed
  <2> QED  BY <2>1, TypeParts, NoneTypes, ProbeType DEF ProbeFinish
<1>3. mode' \in Modes /\ haste' \in BOOLEAN /\ ops' \in 0..MaxOps
  BY DEF TypeOK, HostSendsNothing, HostSaveUnprobed, env
<1> QED  BY <1>1, <1>2, <1>3, DoHostRefused DEF TypeOK, DidHostRefused

DidNoReadyProbe ==
    /\ active[h] /\ np[h].xfer = "load_applying" /\ ~ss[h].load /\ ss[h].save = "no"
    /\ np'[g] = np[g] /\ np'[h].xfer = "none" /\ np'[h].failed = np[h].failed
    /\ np'[h].mc = np[h].mc
    /\ ss'[g] = ss[g] /\ FilesKept(h) /\ PendingKept(h)
    /\ vm'[g] = vm[g] /\ vm'[h].adv = FALSE /\ MachineKept(h) /\ vm'[h].run = vm[h].run
    /\ vm'[h].sim = vm[h].sim
    /\ net' = net /\ active' = active /\ card' = card
    /\ "ready" \in broken' /\ broken' \subseteq Faults

LEMMA DoNoReadyProbe ==
  ASSUME TypeOK, NoReadyProbe
  PROVE  DidNoReadyProbe
<1>1. /\ active[h] /\ np[h].xfer = "load_applying" /\ ~ss[h].load /\ ss[h].save = "no"
  BY DEF TypeOK, NoReadyProbe, JustApplied, Pending
<1>2. /\ np'[g] = np[g] /\ np'[h].xfer = "none" /\ np'[h].failed = np[h].failed
      /\ np'[h].mc = np[h].mc
  <2>1. np' = [np EXCEPT ![h] = [LoadReady(np[h]) EXCEPT !.xfer = "none", !.applied = FALSE]]
    BY DEF TypeOK, NoReadyProbe
  <2>2. /\ np'[g] = np[g] /\ np[h] \in Exchanges
        /\ np'[h] = [LoadReady(np[h]) EXCEPT !.xfer = "none", !.applied = FALSE]
    BY <2>1 DEF TypeOK
  <2>3. /\ DOMAIN LoadReady(np[h]) = DOMAIN np[h] /\ LoadReady(np[h]).failed = np[h].failed
        /\ LoadReady(np[h]).mc = np[h].mc
    BY <2>2 DEF LoadReady, Exchanges
  <2>4. DOMAIN np[h] = {"xfer", "mc", "sent", "staged", "acked", "target", "applied",
                        "replied", "synced", "failed"}
    BY <2>2 DEF Exchanges
  <2> QED  BY <2>2, <2>3, <2>4
<1>3. ss'[g] = ss[g] /\ FilesKept(h) /\ PendingKept(h)
  BY DEF TypeOK, NoReadyProbe, Stagings
<1>4. /\ vm'[g] = vm[g] /\ vm'[h].adv = FALSE /\ MachineKept(h) /\ vm'[h].run = vm[h].run
      /\ vm'[h].sim = vm[h].sim
  BY DEF TypeOK, NoReadyProbe, Unlatched, Machines
<1>5. /\ net' = net /\ active' = active /\ card' = card
      /\ "ready" \in broken' /\ broken' \subseteq Faults
  BY DEF TypeOK, NoReadyProbe, Fails, MayFail, env
<1> QED  BY <1>1, <1>2, <1>3, <1>4, <1>5 DEF DidNoReadyProbe

LEMMA TypeNoReadyProbe ==
  ASSUME TypeOK, NoReadyProbe
  PROVE  TypeOK'
<1>1. np' \in [Peers -> Exchanges]
  <2>1. np' = [np EXCEPT ![h] = [LoadReady(np[h]) EXCEPT !.xfer = "none", !.applied = FALSE]]
    BY DEF TypeOK, NoReadyProbe
  <2>2. LoadReady(np[h]) \in Exchanges
    BY TypeParts, ExchangeTypes
  <2>3. [LoadReady(np[h]) EXCEPT !.xfer = "none", !.applied = FALSE] \in Exchanges
    BY <2>2 DEF Exchanges, Phases
  <2> QED  BY <2>1, <2>3, TypeParts
<1>2. ss' \in [Peers -> Stagings]
  <2>1. ss' = [ss EXCEPT ![h].done = FALSE]
    BY DEF NoReadyProbe
  <2> QED  BY <2>1, TypeParts, NoneTypes DEF Stagings
<1>3. vm' \in [Peers -> Machines]
  <2>1. vm' = Unlatched(h)
    BY DEF NoReadyProbe
  <2> QED  BY <2>1, TypeParts, MachineTypes
<1>4. mode' \in Modes /\ haste' \in BOOLEAN /\ ops' \in 0..MaxOps
  BY DEF TypeOK, NoReadyProbe, env
<1> QED  BY <1>1, <1>2, <1>3, <1>4, DoNoReadyProbe DEF TypeOK, DidNoReadyProbe

DidMcSyncSkipped ==
    /\ active[h] /\ np[h].xfer = "none" /\ ~np[h].mc
    /\ np'[g] = np[g] /\ np'[h].xfer = "none" /\ SyncKept(h) /\ np'[h].mc = TRUE
    /\ ss' = ss /\ vm' = vm /\ active' = active /\ card' = card /\ net' = net
    /\ "start" \in broken' /\ broken' \subseteq Faults

LEMMA DoMcSyncSkipped ==
  ASSUME TypeOK, McSyncSkipped
  PROVE  DidMcSyncSkipped
<1>1. active[h] /\ np[h].xfer = "none" /\ ~np[h].mc
  BY DEF McSyncSkipped, Busy
<1>2. np'[g] = np[g] /\ np'[h].xfer = np[h].xfer /\ SyncKept(h) /\ np'[h].mc = TRUE
  BY DEF TypeOK, McSyncSkipped, Exchanges
<1>3. /\ ss' = ss /\ vm' = vm /\ active' = active /\ card' = card /\ net' = net
      /\ "start" \in broken' /\ broken' \subseteq Faults
  BY DEF TypeOK, McSyncSkipped, Fails, MayFail, env
<1> QED  BY <1>1, <1>2, <1>3 DEF DidMcSyncSkipped

LEMMA TypeMcSyncSkipped ==
  ASSUME TypeOK, McSyncSkipped
  PROVE  TypeOK'
<1>1. np' \in [Peers -> Exchanges]
  <2>1. np' = [np EXCEPT ![h].mc = TRUE]
    BY DEF McSyncSkipped
  <2> QED  BY <2>1, TypeParts DEF Exchanges
<1>2. mode' \in Modes /\ haste' \in BOOLEAN /\ ops' \in 0..MaxOps
  BY DEF TypeOK, McSyncSkipped, env
<1> QED  BY <1>1, <1>2, DoMcSyncSkipped DEF TypeOK, DidMcSyncSkipped

-----------------------------------------------------------------------------
(* The host's keys *)

DidRequestSave ==
    /\ active[h] /\ np[h].xfer = "none" /\ net.probe = NoProbe /\ net.tx = NoTx /\ np[h].mc
    /\ np'[g] = np[g] /\ np'[h].xfer = "save_coord" /\ np'[h].staged = FALSE
    /\ np'[h].acked = FALSE /\ np'[h].target = SaveTick /\ SyncKept(h)
    /\ np'[h].mc = np[h].mc
    /\ net'.seen = net.seen /\ net'.reply = "none" /\ net'.tx = net.tx /\ net'.rx = net.rx
    /\ ss' = ss /\ vm' = vm /\ active' = active /\ card' = card /\ broken' = broken
    /\ net'.probe.op = "coord" /\ SaveTick \in Nat /\ vm[h].sim + 1 < SaveTick

LEMMA DoRequestSave ==
  ASSUME TypeOK, RequestSave
  PROVE  DidRequestSave
<1>1. /\ active[h] /\ np[h].xfer = "none" /\ net.probe = NoProbe /\ net.tx = NoTx
      /\ np[h].mc
  BY DEF TypeOK, RequestSave, MayAsk, Busy
<1>2. /\ np'[g] = np[g] /\ np'[h].xfer = "save_coord" /\ np'[h].staged = FALSE
      /\ np'[h].acked = FALSE /\ np'[h].target = SaveTick /\ SyncKept(h)
      /\ np'[h].mc = np[h].mc
  BY DEF TypeOK, RequestSave, Exchanges
<1>3. /\ net'.seen = net.seen /\ net'.reply = "none" /\ net'.tx = net.tx
      /\ net'.rx = net.rx
  BY DEF TypeOK, RequestSave, Probe, NoProbe, Sessions
<1>4. /\ ss' = ss /\ vm' = vm /\ active' = active /\ card' = card /\ broken' = broken
  BY DEF TypeOK, RequestSave, env
<1>5. net' = Probe([NoProbe EXCEPT !.op = "coord", !.tick = SaveTick])
  BY DEF RequestSave
<1>6. net'.probe = [NoProbe EXCEPT !.op = "coord", !.tick = SaveTick]
  BY <1>5, TypeParts DEF Probe, Sessions
<1>7. net'.probe.op = "coord"
  BY <1>6 DEF NoProbe
<1>8. vm[h].sim \in Nat /\ Delay \in Nat
  BY TypeParts, SyncAssumption
<1>9. SaveTick \in Nat /\ vm[h].sim + 1 < SaveTick
  BY <1>8 DEF SaveTick
<1> QED  BY <1>1, <1>2, <1>3, <1>4, <1>5, <1>6, <1>7, <1>8, <1>9 DEF DidRequestSave

LEMMA TypeRequestSave ==
  ASSUME TypeOK, RequestSave
  PROVE  TypeOK'
<1>1. np' \in [Peers -> Exchanges]
  <2>1. SaveTick \in Nat
    BY TypeParts, SyncAssumption DEF SaveTick
  <2>2. np' = [np EXCEPT ![h].xfer = "save_coord", ![h].target = SaveTick,
                         ![h].staged = FALSE, ![h].acked = FALSE]
    BY DEF RequestSave
  <2> QED  BY <2>1, <2>2, TypeParts DEF Exchanges, Phases
<1>2. net' \in Sessions
  <2>1. SaveTick \in Nat
    BY TypeParts, SyncAssumption DEF SaveTick
  <2>2. net' = Probe([NoProbe EXCEPT !.op = "coord", !.tick = SaveTick])
    BY DEF RequestSave
  <2>3. [NoProbe EXCEPT !.op = "coord", !.tick = SaveTick] \in Probes
    BY <2>1, NoneTypes, NewProbeTypes
  <2> QED  BY <2>2, <2>3, ProbeType, TypeParts
<1>3. /\ active' \in [Peers -> BOOLEAN] /\ card' \in [Peers -> Cards]
      /\ broken' \subseteq Faults /\ mode' \in Modes /\ haste' \in BOOLEAN
      /\ ops' \in 0..MaxOps
  <2>1. ops' \in 0..MaxOps
    BY SyncAssumption DEF TypeOK, RequestSave
  <2> QED  BY <2>1 DEF TypeOK, RequestSave, env
<1>4. \A q \in Peers : vm'[q].adv => vm'[q].run
  BY DoRequestSave DEF TypeOK, DidRequestSave
<1>5. np'[g].xfer \notin {"mc_probe", "mc_send", "save_probe", "load_probe"}
  BY DoRequestSave DEF TypeOK, DidRequestSave
<1> QED  BY <1>1, <1>2, <1>3, <1>4, <1>5, DoRequestSave DEF TypeOK, DidRequestSave

DidRequestLoad ==
    /\ active[h] /\ np[h].xfer = "none" /\ net.probe = NoProbe /\ net.tx = NoTx /\ np[h].mc
    /\ ss[h].slot # NoFile
    /\ np'[g] = np[g] /\ np'[h].xfer = "load_probe" /\ np'[h].failed = FALSE
    /\ CoordKept(h) /\ np'[h].mc = np[h].mc /\ np'[h].synced = np[h].synced
    /\ net'.seen = net.seen /\ net'.reply = "none" /\ net'.tx = net.tx /\ net'.rx = net.rx
    /\ ss' = ss /\ vm' = vm /\ active' = active /\ card' = card /\ broken' = broken
    /\ net'.probe.op = "load" /\ net'.probe.file = ss[h].slot

LEMMA DoRequestLoad ==
  ASSUME TypeOK, RequestLoad
  PROVE  DidRequestLoad
<1>1. /\ active[h] /\ np[h].xfer = "none" /\ net.probe = NoProbe /\ net.tx = NoTx
      /\ np[h].mc /\ ss[h].slot # NoFile
  BY DEF TypeOK, RequestLoad, MayAsk, Busy
<1>2. /\ np'[g] = np[g] /\ np'[h].xfer = "load_probe" /\ np'[h].failed = FALSE
      /\ CoordKept(h) /\ np'[h].mc = np[h].mc /\ np'[h].synced = np[h].synced
  BY DEF TypeOK, RequestLoad, Exchanges
<1>3. /\ net'.seen = net.seen /\ net'.reply = "none" /\ net'.tx = net.tx
      /\ net'.rx = net.rx
  BY DEF TypeOK, RequestLoad, Probe, NoProbe, Sessions
<1>4. /\ ss' = ss /\ vm' = vm /\ active' = active /\ card' = card /\ broken' = broken
  BY DEF TypeOK, RequestLoad, env
<1>5. /\ net'.probe.op = "load" /\ net'.probe.file = ss[h].slot
  BY DEF TypeOK, RequestLoad, Probe, NoProbe, Sessions
<1> QED  BY <1>1, <1>2, <1>3, <1>4, <1>5 DEF DidRequestLoad

LEMMA TypeRequestLoad ==
  ASSUME TypeOK, RequestLoad
  PROVE  TypeOK'
<1>1. np' \in [Peers -> Exchanges]
  <2>1. np' = [np EXCEPT ![h].xfer = "load_probe", ![h].applied = FALSE, ![h].failed = FALSE]
    BY DEF RequestLoad
  <2> QED  BY <2>1, TypeParts DEF Exchanges, Phases
<1>2. net' \in Sessions
  <2>1. net' = Probe([NoProbe EXCEPT !.op = "load", !.file = ss[h].slot])
    BY DEF RequestLoad
  <2> QED  BY <2>1, TypeParts, NoneTypes, ProbeType, NewProbeTypes
<1>3. /\ active' \in [Peers -> BOOLEAN] /\ card' \in [Peers -> Cards]
      /\ broken' \subseteq Faults /\ mode' \in Modes /\ haste' \in BOOLEAN
      /\ ops' \in 0..MaxOps
  <2>1. ops' \in 0..MaxOps
    BY SyncAssumption DEF TypeOK, RequestLoad
  <2> QED  BY <2>1 DEF TypeOK, RequestLoad, env
<1>4. \A q \in Peers : vm'[q].adv => vm'[q].run
  BY DoRequestLoad DEF TypeOK, DidRequestLoad
<1>5. np'[g].xfer \notin {"mc_probe", "mc_send", "save_probe", "load_probe"}
  BY DoRequestLoad DEF TypeOK, DidRequestLoad
<1> QED  BY <1>1, <1>2, <1>3, <1>4, <1>5, DoRequestLoad DEF TypeOK, DidRequestLoad

-----------------------------------------------------------------------------
(* psx_netplay_poll_admit *)

DidAdmitApplying(p) ==
    /\ active[p] /\ ~vm[p].run /\ np[p].mc /\ ~np[p].failed /\ np[p].xfer = "load_applying"
    /\ (ss[p].load \/ ss[p].save # "no")
    /\ OthersKept_vm(p) /\ vm'[p].run = TRUE /\ vm'[p].adv = TRUE
    /\ vm'[p].age = vm[p].age + 1 /\ vm'[p].sim = vm[p].sim /\ vm'[p].base = vm[p].base
    /\ np' = np /\ ss' = ss /\ net' = net /\ active' = active /\ card' = card
    /\ broken' = broken

LEMMA DoAdmitApplying ==
  ASSUME NEW p \in Peers, TypeOK, AdmitApplying(p)
  PROVE  DidAdmitApplying(p)
<1>1. /\ active[p] /\ ~vm[p].run /\ np[p].mc /\ ~np[p].failed
      /\ np[p].xfer = "load_applying" /\ (ss[p].load \/ ss[p].save # "no")
  BY DEF TypeOK, AdmitApplying, AtBarrier, Waiting, Pending
<1>2. /\ OthersKept_vm(p) /\ vm'[p].run = TRUE /\ vm'[p].adv = TRUE
      /\ vm'[p].age = vm[p].age + 1 /\ vm'[p].sim = vm[p].sim /\ vm'[p].base = vm[p].base
  BY DEF TypeOK, AdmitApplying, Frame, Machines
<1>3. /\ np' = np /\ ss' = ss /\ net' = net /\ active' = active /\ card' = card
      /\ broken' = broken
  BY DEF TypeOK, AdmitApplying, env
<1> QED  BY <1>1, <1>2, <1>3 DEF DidAdmitApplying

LEMMA TypeAdmitApplying ==
  ASSUME NEW p \in Peers, TypeOK, AdmitApplying(p)
  PROVE  TypeOK'
<1>1. vm' \in [Peers -> Machines]
  <2>1. vm' = Frame(p)
    BY DEF AdmitApplying
  <2> QED  BY <2>1, TypeParts, MachineTypes
<1>2. /\ active' \in [Peers -> BOOLEAN] /\ card' \in [Peers -> Cards]
      /\ broken' \subseteq Faults /\ mode' \in Modes /\ haste' \in BOOLEAN
      /\ ops' \in 0..MaxOps
  BY SyncAssumption, TypeParts DEF TypeOK, AdmitApplying, env
<1>3. \A q \in Peers : vm'[q].adv => vm'[q].run
  BY DoAdmitApplying DEF TypeOK, DidAdmitApplying
<1>4. np'[g].xfer \notin {"mc_probe", "mc_send", "save_probe", "load_probe"}
  BY DoAdmitApplying DEF TypeOK, DidAdmitApplying
<1> QED  BY <1>1, <1>2, <1>3, <1>4, DoAdmitApplying DEF TypeOK, DidAdmitApplying

DidAdmitReady(p) ==
    /\ active[p] /\ ~vm[p].run /\ np[p].mc /\ ~np[p].failed /\ np[p].xfer = "load_ready"
    /\ np[p].synced
    /\ OthersKept_np(p) /\ np'[p].xfer = "none" /\ np'[p].synced = FALSE /\ CoordKept(p)
    /\ np'[p].mc = np[p].mc /\ np'[p].failed = np[p].failed
    /\ OthersKept_vm(p) /\ vm'[p].run = TRUE /\ vm'[p].adv = TRUE
    /\ vm'[p].age = vm[p].age + 1 /\ vm'[p].sim = vm[p].sim /\ vm'[p].base = vm[p].base
    /\ ss' = ss /\ net' = net /\ active' = active /\ card' = card /\ broken' = broken

LEMMA DoAdmitReady ==
  ASSUME NEW p \in Peers, TypeOK, AdmitReady(p)
  PROVE  DidAdmitReady(p)
<1>1. /\ active[p] /\ ~vm[p].run /\ np[p].mc /\ ~np[p].failed /\ np[p].xfer = "load_ready"
      /\ np[p].synced
  BY DEF TypeOK, AdmitReady, AtBarrier, Waiting
<1>2. /\ OthersKept_np(p) /\ np'[p].xfer = "none" /\ np'[p].synced = FALSE /\ CoordKept(p)
      /\ np'[p].mc = np[p].mc /\ np'[p].failed = np[p].failed
  BY DEF TypeOK, AdmitReady, Exchanges
<1>3. /\ OthersKept_vm(p) /\ vm'[p].run = TRUE /\ vm'[p].adv = TRUE
      /\ vm'[p].age = vm[p].age + 1 /\ vm'[p].sim = vm[p].sim /\ vm'[p].base = vm[p].base
  BY DEF TypeOK, AdmitReady, Frame, Machines
<1>4. /\ ss' = ss /\ net' = net /\ active' = active /\ card' = card /\ broken' = broken
  BY DEF TypeOK, AdmitReady, env
<1> QED  BY <1>1, <1>2, <1>3, <1>4 DEF DidAdmitReady

LEMMA TypeAdmitReady ==
  ASSUME NEW p \in Peers, TypeOK, AdmitReady(p)
  PROVE  TypeOK'
<1>1. np' \in [Peers -> Exchanges]
  <2>1. np' = [np EXCEPT ![p] = [np[p] EXCEPT !.xfer = "none", !.applied = FALSE,
                                              !.replied = FALSE, !.synced = FALSE]]
    BY DEF AdmitReady
  <2>2. [np[p] EXCEPT !.xfer = "none", !.applied = FALSE, !.replied = FALSE,
                      !.synced = FALSE] \in Exchanges
    BY TypeParts, NoneTypes DEF Exchanges, Phases
  <2> QED  BY <2>1, <2>2, TypeParts
<1>2. vm' \in [Peers -> Machines]
  <2>1. vm' = Frame(p)
    BY DEF AdmitReady
  <2> QED  BY <2>1, TypeParts, MachineTypes
<1>3. /\ active' \in [Peers -> BOOLEAN] /\ card' \in [Peers -> Cards]
      /\ broken' \subseteq Faults /\ mode' \in Modes /\ haste' \in BOOLEAN
      /\ ops' \in 0..MaxOps
  BY SyncAssumption, TypeParts DEF TypeOK, AdmitReady, env
<1>4. \A q \in Peers : vm'[q].adv => vm'[q].run
  BY DoAdmitReady DEF TypeOK, DidAdmitReady
<1>5. np'[g].xfer \notin {"mc_probe", "mc_send", "save_probe", "load_probe"}
  BY DoAdmitReady DEF TypeOK, DidAdmitReady
<1> QED  BY <1>1, <1>2, <1>3, <1>4, <1>5, DoAdmitReady DEF TypeOK, DidAdmitReady

DidAdmitCoord(p) ==
    /\ active[p] /\ ~vm[p].run /\ np[p].mc /\ ~np[p].failed /\ np[p].xfer = "save_coord"
    /\ OthersKept_vm(p) /\ vm'[p].run = TRUE /\ vm'[p].adv = TRUE
    /\ vm'[p].age = vm[p].age + 1 /\ vm'[p].sim = vm[p].sim /\ vm'[p].base = vm[p].base
    /\ np' = np /\ ss' = ss /\ net' = net /\ active' = active /\ card' = card
    /\ broken' = broken

LEMMA DoAdmitCoord ==
  ASSUME NEW p \in Peers, TypeOK, AdmitCoord(p)
  PROVE  DidAdmitCoord(p)
<1>1. /\ active[p] /\ ~vm[p].run /\ np[p].mc /\ ~np[p].failed /\ np[p].xfer = "save_coord"
  BY DEF TypeOK, AdmitCoord, AtBarrier, Waiting
<1>2. /\ OthersKept_vm(p) /\ vm'[p].run = TRUE /\ vm'[p].adv = TRUE
      /\ vm'[p].age = vm[p].age + 1 /\ vm'[p].sim = vm[p].sim /\ vm'[p].base = vm[p].base
  BY DEF TypeOK, AdmitCoord, Frame, Machines
<1>3. /\ np' = np /\ ss' = ss /\ net' = net /\ active' = active /\ card' = card
      /\ broken' = broken
  BY DEF TypeOK, AdmitCoord, env
<1> QED  BY <1>1, <1>2, <1>3 DEF DidAdmitCoord

LEMMA TypeAdmitCoord ==
  ASSUME NEW p \in Peers, TypeOK, AdmitCoord(p)
  PROVE  TypeOK'
<1>1. vm' \in [Peers -> Machines]
  <2>1. vm' = Frame(p)
    BY DEF AdmitCoord
  <2> QED  BY <2>1, TypeParts, MachineTypes
<1>2. /\ active' \in [Peers -> BOOLEAN] /\ card' \in [Peers -> Cards]
      /\ broken' \subseteq Faults /\ mode' \in Modes /\ haste' \in BOOLEAN
      /\ ops' \in 0..MaxOps
  BY SyncAssumption, TypeParts DEF TypeOK, AdmitCoord, env
<1>3. \A q \in Peers : vm'[q].adv => vm'[q].run
  BY DoAdmitCoord DEF TypeOK, DidAdmitCoord
<1>4. np'[g].xfer \notin {"mc_probe", "mc_send", "save_probe", "load_probe"}
  BY DoAdmitCoord DEF TypeOK, DidAdmitCoord
<1> QED  BY <1>1, <1>2, <1>3, <1>4, DoAdmitCoord DEF TypeOK, DidAdmitCoord

DidAdmitPlay(p) ==
    /\ active[p] /\ ~vm[p].run /\ np[p].mc /\ ~np[p].failed
    /\ np[p].xfer \notin {"save_coord", "load_applying", "load_ready"}
    /\ OthersKept_vm(p) /\ vm'[p].run = TRUE /\ vm'[p].adv = TRUE
    /\ vm'[p].age = vm[p].age + 1 /\ vm'[p].sim = vm[p].sim /\ vm'[p].base = vm[p].base
    /\ np' = np /\ ss' = ss /\ net' = net /\ active' = active /\ card' = card
    /\ broken' = broken

LEMMA DoAdmitPlay ==
  ASSUME NEW p \in Peers, TypeOK, AdmitPlay(p)
  PROVE  DidAdmitPlay(p)
<1>1. /\ active[p] /\ ~vm[p].run /\ np[p].mc /\ ~np[p].failed
      /\ np[p].xfer \notin {"save_coord", "load_applying", "load_ready"}
  BY DEF TypeOK, AdmitPlay, AtBarrier, Waiting
<1>2. /\ OthersKept_vm(p) /\ vm'[p].run = TRUE /\ vm'[p].adv = TRUE
      /\ vm'[p].age = vm[p].age + 1 /\ vm'[p].sim = vm[p].sim /\ vm'[p].base = vm[p].base
  BY DEF TypeOK, AdmitPlay, Frame, Machines
<1>3. /\ np' = np /\ ss' = ss /\ net' = net /\ active' = active /\ card' = card
      /\ broken' = broken
  BY DEF TypeOK, AdmitPlay, env
<1> QED  BY <1>1, <1>2, <1>3 DEF DidAdmitPlay

LEMMA TypeAdmitPlay ==
  ASSUME NEW p \in Peers, TypeOK, AdmitPlay(p)
  PROVE  TypeOK'
<1>1. vm' \in [Peers -> Machines]
  <2>1. vm' = Frame(p)
    BY DEF AdmitPlay
  <2> QED  BY <2>1, TypeParts, MachineTypes
<1>2. /\ active' \in [Peers -> BOOLEAN] /\ card' \in [Peers -> Cards]
      /\ broken' \subseteq Faults /\ mode' \in Modes /\ haste' \in BOOLEAN
      /\ ops' \in 0..MaxOps
  BY SyncAssumption, TypeParts DEF TypeOK, AdmitPlay, env
<1>3. \A q \in Peers : vm'[q].adv => vm'[q].run
  BY DoAdmitPlay DEF TypeOK, DidAdmitPlay
<1>4. np'[g].xfer \notin {"mc_probe", "mc_send", "save_probe", "load_probe"}
  BY DoAdmitPlay DEF TypeOK, DidAdmitPlay
<1> QED  BY <1>1, <1>2, <1>3, <1>4, DoAdmitPlay DEF TypeOK, DidAdmitPlay

-----------------------------------------------------------------------------
(* savestate_poll and psx_netplay_finish_frame *)

DidSavePoll(p) ==
    /\ vm[p].run /\ ss[p].save # "no"
    /\ OthersKept_ss(p) /\ ss'[p].save = "no" /\ ss'[p].load = ss[p].load
    /\ ss'[p].blob = ss[p].blob /\ ss'[p].done = ss[p].done
    /\ np' = np /\ vm' = vm /\ net' = net /\ active' = active /\ card' = card
    /\ broken \subseteq broken' /\ (SaveFault(p) \notin broken' => ss'[p].sfail = FALSE)

LEMMA DoSavePoll ==
  ASSUME NEW p \in Peers, TypeOK, SavePoll(p)
  PROVE  DidSavePoll(p)
<1>1. /\ vm[p].run /\ ss[p].save # "no"
  BY DEF TypeOK, SavePoll
<1>2. /\ OthersKept_ss(p) /\ ss'[p].save = "no" /\ ss'[p].load = ss[p].load
      /\ ss'[p].blob = ss[p].blob /\ ss'[p].done = ss[p].done
  BY DEF TypeOK, SavePoll, Stagings
<1>3. /\ np' = np /\ vm' = vm /\ net' = net /\ active' = active /\ card' = card
  BY DEF TypeOK, SavePoll, env
<1>4. /\ broken \subseteq broken' /\ (SaveFault(p) \notin broken' => ss'[p].sfail = FALSE)
  BY DEF TypeOK, SavePoll, Stagings
<1> QED  BY <1>1, <1>2, <1>3, <1>4 DEF DidSavePoll

LEMMA TypeSavePoll ==
  ASSUME NEW p \in Peers, TypeOK, SavePoll(p)
  PROVE  TypeOK'
<1>1. ss' \in [Peers -> Stagings]
  <2>1. CASE \E m \in Moments(p) :
                ss' = [ss EXCEPT ![p].save = "no", ![p].pc = TRUE, ![p].sfail = FALSE,
                                 ![p].slot = Append(vm[p].base, m)]
    <3>1. PICK m \in Moments(p) :
             ss' = [ss EXCEPT ![p].save = "no", ![p].pc = TRUE, ![p].sfail = FALSE,
                              ![p].slot = Append(vm[p].base, m)]
      BY <2>1
    <3>2. m \in Nat
      BY TypeParts DEF Moments
    <3>3. Append(vm[p].base, m) \in Seq(Nat)
      BY <3>2, TypeParts, AppendType
    <3>4. [ss[p] EXCEPT !.save = "no", !.pc = TRUE, !.sfail = FALSE,
                        !.slot = Append(vm[p].base, m)] \in Stagings
      BY <3>3, TypeParts DEF Stagings
    <3>5. ss' = [ss EXCEPT ![p] = [ss[p] EXCEPT !.save = "no", !.pc = TRUE, !.sfail = FALSE,
                                               !.slot = Append(vm[p].base, m)]]
      BY <3>1
    <3> QED  BY <3>4, <3>5, TypeParts
  <2>2. CASE ss' = [ss EXCEPT ![p].save = "no", ![p].pc = FALSE, ![p].sfail = TRUE]
    BY <2>2, TypeParts DEF Stagings
  <2> QED  BY <2>1, <2>2 DEF SavePoll
<1>2. /\ active' \in [Peers -> BOOLEAN] /\ card' \in [Peers -> Cards]
      /\ broken' \subseteq Faults /\ mode' \in Modes /\ haste' \in BOOLEAN
      /\ ops' \in 0..MaxOps
  BY SyncAssumption, TypeParts DEF TypeOK, SavePoll, env, MayFail, SaveFault
<1>3. \A q \in Peers : vm'[q].adv => vm'[q].run
  BY DoSavePoll DEF TypeOK, DidSavePoll
<1>4. np'[g].xfer \notin {"mc_probe", "mc_send", "save_probe", "load_probe"}
  BY DoSavePoll DEF TypeOK, DidSavePoll
<1> QED  BY <1>1, <1>2, <1>3, <1>4, DoSavePoll DEF TypeOK, DidSavePoll

DidLoadPoll(p) ==
    /\ vm[p].run /\ ss[p].load /\ ss[p].save = "no"
    /\ OthersKept_ss(p) /\ ss'[p].load = FALSE /\ ss'[p].blob = NoBlob
    /\ ss'[p].done = TRUE /\ ss'[p].save = ss[p].save /\ ss'[p].sfail = ss[p].sfail
    /\ ss'[p].slot = ss[p].slot
    /\ OthersKept_vm(p) /\ vm'[p].base = LoadSource(p) /\ vm'[p].age = 0 /\ FrameKept(p)
    /\ np' = np /\ net' = net /\ active' = active /\ card' = card /\ broken' = broken

LEMMA DoLoadPoll ==
  ASSUME NEW p \in Peers, TypeOK, LoadPoll(p)
  PROVE  DidLoadPoll(p)
<1>1. /\ vm[p].run /\ ss[p].load /\ ss[p].save = "no"
  BY DEF TypeOK, LoadPoll
<1>2. /\ OthersKept_ss(p) /\ ss'[p].load = FALSE /\ ss'[p].blob = NoBlob
      /\ ss'[p].done = TRUE /\ ss'[p].save = ss[p].save /\ ss'[p].sfail = ss[p].sfail
      /\ ss'[p].slot = ss[p].slot
  BY DEF TypeOK, LoadPoll, Stagings
<1>3. /\ OthersKept_vm(p) /\ vm'[p].base = LoadSource(p) /\ vm'[p].age = 0 /\ FrameKept(p)
  BY DEF TypeOK, LoadPoll, Machines
<1>4. /\ np' = np /\ net' = net /\ active' = active /\ card' = card /\ broken' = broken
  BY DEF TypeOK, LoadPoll, env
<1> QED  BY <1>1, <1>2, <1>3, <1>4 DEF DidLoadPoll

LEMMA TypeLoadPoll ==
  ASSUME NEW p \in Peers, TypeOK, LoadPoll(p)
  PROVE  TypeOK'
<1>1. ss' \in [Peers -> Stagings]
  <2>1. ss' = [ss EXCEPT ![p] = [ss[p] EXCEPT !.load = FALSE, !.blob = NoBlob, !.done = TRUE]]
    BY DEF LoadPoll
  <2>2. [ss[p] EXCEPT !.load = FALSE, !.blob = NoBlob, !.done = TRUE] \in Stagings
    BY TypeParts, NoneTypes DEF Stagings
  <2> QED  BY <2>1, <2>2, TypeParts
<1>2. vm' \in [Peers -> Machines]
  <2>1. vm' = [vm EXCEPT ![p].base = LoadSource(p), ![p].age = 0]
    BY DEF LoadPoll
  <2>2. LoadSource(p) \in Seq(Nat)
    BY TypeParts DEF LoadSource
  <2> QED  BY <2>1, <2>2, TypeParts DEF Machines
<1>3. /\ active' \in [Peers -> BOOLEAN] /\ card' \in [Peers -> Cards]
      /\ broken' \subseteq Faults /\ mode' \in Modes /\ haste' \in BOOLEAN
      /\ ops' \in 0..MaxOps
  BY SyncAssumption, TypeParts DEF TypeOK, LoadPoll, env
<1>4. \A q \in Peers : vm'[q].adv => vm'[q].run
  BY DoLoadPoll DEF TypeOK, DidLoadPoll
<1>5. np'[g].xfer \notin {"mc_probe", "mc_send", "save_probe", "load_probe"}
  BY DoLoadPoll DEF TypeOK, DidLoadPoll
<1> QED  BY <1>1, <1>2, <1>3, <1>4, <1>5, DoLoadPoll DEF TypeOK, DidLoadPoll

DidLoadPollFails(p) ==
    /\ vm[p].run /\ ss[p].load /\ ss[p].save = "no"
    /\ OthersKept_ss(p) /\ ss'[p].load = FALSE /\ ss'[p].blob = NoBlob
    /\ ss'[p].save = ss[p].save /\ ss'[p].done = ss[p].done /\ ss'[p].sfail = ss[p].sfail
    /\ ss'[p].slot = ss[p].slot
    /\ np' = np /\ vm' = vm /\ net' = net /\ active' = active /\ card' = card
    /\ broken \subseteq broken'

LEMMA DoLoadPollFails ==
  ASSUME NEW p \in Peers, TypeOK, LoadPollFails(p)
  PROVE  DidLoadPollFails(p)
<1>1. /\ vm[p].run /\ ss[p].load /\ ss[p].save = "no"
  BY DEF TypeOK, LoadPollFails
<1>2. /\ OthersKept_ss(p) /\ ss'[p].load = FALSE /\ ss'[p].blob = NoBlob
      /\ ss'[p].save = ss[p].save /\ ss'[p].done = ss[p].done /\ ss'[p].sfail = ss[p].sfail
      /\ ss'[p].slot = ss[p].slot
  BY DEF TypeOK, LoadPollFails, Stagings
<1>3. /\ np' = np /\ vm' = vm /\ net' = net /\ active' = active /\ card' = card
  BY DEF TypeOK, LoadPollFails, env
<1>4. /\ broken \subseteq broken'
  BY DEF TypeOK, LoadPollFails
<1> QED  BY <1>1, <1>2, <1>3, <1>4 DEF DidLoadPollFails

LEMMA TypeLoadPollFails ==
  ASSUME NEW p \in Peers, TypeOK, LoadPollFails(p)
  PROVE  TypeOK'
<1>1. ss' \in [Peers -> Stagings]
  <2>1. ss' = [ss EXCEPT ![p] = [ss[p] EXCEPT !.load = FALSE, !.blob = NoBlob, !.lfail = TRUE]]
    BY DEF LoadPollFails
  <2>2. [ss[p] EXCEPT !.load = FALSE, !.blob = NoBlob, !.lfail = TRUE] \in Stagings
    BY TypeParts, NoneTypes DEF Stagings
  <2> QED  BY <2>1, <2>2, TypeParts
<1>2. /\ active' \in [Peers -> BOOLEAN] /\ card' \in [Peers -> Cards]
      /\ broken' \subseteq Faults /\ mode' \in Modes /\ haste' \in BOOLEAN
      /\ ops' \in 0..MaxOps
  BY SyncAssumption, TypeParts DEF TypeOK, LoadPollFails, env, MayFail, SaveFault
<1>3. \A q \in Peers : vm'[q].adv => vm'[q].run
  BY DoLoadPollFails DEF TypeOK, DidLoadPollFails
<1>4. np'[g].xfer \notin {"mc_probe", "mc_send", "save_probe", "load_probe"}
  BY DoLoadPollFails DEF TypeOK, DidLoadPollFails
<1> QED  BY <1>1, <1>2, <1>3, <1>4, DoLoadPollFails DEF TypeOK, DidLoadPollFails

DidFinishFrame(p) ==
    /\ active[p] /\ vm[p].run /\ ~ss[p].load
    /\ OthersKept_ss(p) /\ FilesKept(p) /\ ss'[p].load = ss[p].load
    /\ ss'[p].done = ss[p].done /\ ss'[p].sfail = ss[p].sfail
    /\ OthersKept_vm(p) /\ vm'[p].run = FALSE /\ vm'[p].adv = FALSE /\ MachineKept(p)
    /\ np' = np /\ net' = net /\ active' = active /\ card' = card /\ broken' = broken
    /\ (vm[p].adv => vm'[p].sim = vm[p].sim + 1) /\ (~vm[p].adv => vm'[p].sim = vm[p].sim)
    /\ (ss[p].save = "no" => ss'[p].save = "no")

LEMMA DoFinishFrame ==
  ASSUME NEW p \in Peers, TypeOK, FinishFrame(p)
  PROVE  DidFinishFrame(p)
<1>1. /\ active[p] /\ vm[p].run /\ ~ss[p].load
  BY DEF TypeOK, FinishFrame
<1>2. /\ OthersKept_ss(p) /\ FilesKept(p) /\ ss'[p].load = ss[p].load
      /\ ss'[p].done = ss[p].done /\ ss'[p].sfail = ss[p].sfail
  BY DEF TypeOK, FinishFrame, Stagings
<1>3. /\ OthersKept_vm(p) /\ vm'[p].run = FALSE /\ vm'[p].adv = FALSE /\ MachineKept(p)
  BY DEF TypeOK, FinishFrame, Machines
<1>4. /\ np' = np /\ net' = net /\ active' = active /\ card' = card /\ broken' = broken
  BY DEF TypeOK, FinishFrame, env
<1>5. /\ (vm[p].adv => vm'[p].sim = vm[p].sim + 1)
      /\ (~vm[p].adv => vm'[p].sim = vm[p].sim)
      /\ (ss[p].save = "no" => ss'[p].save = "no")
  BY DEF TypeOK, FinishFrame, Stagings, Machines
<1> QED  BY <1>1, <1>2, <1>3, <1>4, <1>5 DEF DidFinishFrame

LEMMA TypeFinishFrame ==
  ASSUME NEW p \in Peers, TypeOK, FinishFrame(p)
  PROVE  TypeOK'
<1>1. ss' \in [Peers -> Stagings]
  <2>1. ss' = [ss EXCEPT ![p].save = IF @ = "edge" THEN "late" ELSE @]
    BY DEF FinishFrame
  <2> QED  BY <2>1, TypeParts, NoneTypes DEF Stagings
<1>2. vm' \in [Peers -> Machines]
  <2> DEFINE t == IF vm[p].adv THEN vm[p].sim + 1 ELSE vm[p].sim
             e == [vm[p] EXCEPT !.run = FALSE, !.adv = FALSE, !.sim = t]
  <2>1. t \in Nat
    BY TypeParts
  <2>2. vm' = [vm EXCEPT ![p] = e]
    BY DEF FinishFrame
  <2> HIDE DEF t
  <2>3. e \in Machines
    BY <2>1, TypeParts DEF Machines
  <2> QED  BY <2>2, <2>3, TypeParts
<1>3. /\ active' \in [Peers -> BOOLEAN] /\ card' \in [Peers -> Cards]
      /\ broken' \subseteq Faults /\ mode' \in Modes /\ haste' \in BOOLEAN
      /\ ops' \in 0..MaxOps
  BY SyncAssumption, TypeParts DEF TypeOK, FinishFrame, env
<1>4. \A q \in Peers : vm'[q].adv => vm'[q].run
  BY DoFinishFrame DEF TypeOK, DidFinishFrame
<1>5. np'[g].xfer \notin {"mc_probe", "mc_send", "save_probe", "load_probe"}
  BY DoFinishFrame DEF TypeOK, DidFinishFrame
<1> QED  BY <1>1, <1>2, <1>3, <1>4, <1>5, DoFinishFrame DEF TypeOK, DidFinishFrame

-----------------------------------------------------------------------------
(* psx_netplay_shutdown *)

DidShutdown(p) ==
    /\ active[p] /\ ~vm[p].run
    /\ OthersKept_np(p) /\ np'[p].xfer = "none" /\ np'[p].mc = FALSE
    /\ np'[p].staged = FALSE /\ np'[p].acked = FALSE /\ np'[p].target = 0
    /\ np'[p].synced = FALSE /\ np'[p].failed = FALSE
    /\ ss' = ss /\ vm' = vm /\ net' = net /\ card' = card /\ broken' = broken
    /\ active'[p] = FALSE /\ (\A q \in Peers \ {p} : active'[q] = active[q])

LEMMA DoShutdown ==
  ASSUME NEW p \in Peers, TypeOK, Waiting(p), Shutdown(p)
  PROVE  DidShutdown(p)
<1>1. /\ active[p] /\ ~vm[p].run
  BY DEF TypeOK, Shutdown, Waiting
<1>2. /\ OthersKept_np(p) /\ np'[p].xfer = "none" /\ np'[p].mc = FALSE
      /\ np'[p].staged = FALSE /\ np'[p].acked = FALSE /\ np'[p].target = 0
      /\ np'[p].synced = FALSE /\ np'[p].failed = FALSE
  BY DEF TypeOK, Shutdown, NoExchange, Exchanges
<1>3. /\ ss' = ss /\ vm' = vm /\ net' = net /\ card' = card /\ broken' = broken
  BY DEF TypeOK, Shutdown, env
<1>4. /\ active'[p] = FALSE /\ (\A q \in Peers \ {p} : active'[q] = active[q])
  BY DEF TypeOK, Shutdown
<1> QED  BY <1>1, <1>2, <1>3, <1>4 DEF DidShutdown

LEMMA TypeShutdown ==
  ASSUME NEW p \in Peers, TypeOK, Waiting(p), Shutdown(p)
  PROVE  TypeOK'
<1>1. np' \in [Peers -> Exchanges]
  <2>1. np' = [np EXCEPT ![p] = NoExchange]
    BY DEF Shutdown
  <2> QED  BY <2>1, TypeParts DEF Exchanges, Phases, NoExchange
<1>2. /\ active' \in [Peers -> BOOLEAN] /\ card' \in [Peers -> Cards]
      /\ broken' \subseteq Faults /\ mode' \in Modes /\ haste' \in BOOLEAN
      /\ ops' \in 0..MaxOps
  BY SyncAssumption, TypeParts DEF TypeOK, Shutdown, env
<1>3. \A q \in Peers : vm'[q].adv => vm'[q].run
  BY DoShutdown DEF TypeOK, DidShutdown
<1>4. np'[g].xfer \notin {"mc_probe", "mc_send", "save_probe", "load_probe"}
  BY DoShutdown DEF TypeOK, DidShutdown
<1> QED  BY <1>1, <1>2, <1>3, <1>4, DoShutdown DEF TypeOK, DidShutdown

-----------------------------------------------------------------------------
(* Each action preserves the invariant *)

USE DEF NoProbe, NoRx, NoTx, NoFile, NoBlob, LoadSource, SaveFault

LEMMA StepDeliverProbe ==
  ASSUME IInv, DeliverProbe
  PROVE  IInv' /\ ResumesTogether /\ EndsWithSameFile
<1>1. TypeOK' /\ DidDeliverProbe
  BY TypeDeliverProbe, DoDeliverProbe
<1>2. RunInv' /\ CardInv' /\ NetInv' /\ LoadInv'
  BY <1>1, TypeFacts DEF DidDeliverProbe, RunInv, CardInv, NetInv, LoadInv, Loads
<1>3. HostInv'
  BY <1>1, TypeFacts DEF DidDeliverProbe, HostInv, NetInv, RunInv, LoadInv, Loads
<1>4. PhaseInv'
  BY <1>1, TypeFacts DEF DidDeliverProbe, PhaseInv, CardInv, HostInv, NetInv, LoadInv, Loads
<1>5. ClockInv'
  BY <1>1, TypeFacts DEF DidDeliverProbe, ClockInv, PhaseInv, HostInv, LoadInv, Loads, Phases
<1>6. SyncInv'
  BY <1>1, TypeFacts DEF DidDeliverProbe, SyncInv, CoordInv, TrackInv, BaseInv, PhaseInv,
     HostInv, LoadInv, Loads
<1>7. SaveInv' /\ EndsWithSameFile
  BY <1>1, TypeFacts DEF DidDeliverProbe, SaveInv, EndsWithSameFile, PhaseInv, HostInv,
     SyncInv, CoordInv, RunInv
<1>8. ResumesTogether
  BY <1>1, TypeFacts DEF DidDeliverProbe, ResumesTogether, Other, SyncInv, BaseInv, CoordInv,
     PhaseInv, HostInv, LoadInv, Loads
<1> QED  BY <1>1, <1>2, <1>3, <1>4, <1>5, <1>6, <1>7, <1>8

LEMMA StepDeliverChunks ==
  ASSUME IInv, DeliverChunks
  PROVE  IInv' /\ ResumesTogether /\ EndsWithSameFile
<1>1. TypeOK' /\ DidDeliverChunks
  BY TypeDeliverChunks, DoDeliverChunks
<1>2. RunInv' /\ CardInv' /\ NetInv' /\ LoadInv'
  BY <1>1, TypeFacts DEF DidDeliverChunks, RunInv, CardInv, NetInv, LoadInv, Loads
<1>3. HostInv'
  BY <1>1, TypeFacts DEF DidDeliverChunks, HostInv, NetInv, RunInv, LoadInv, Loads
<1>4. PhaseInv'
  BY <1>1, TypeFacts DEF DidDeliverChunks, PhaseInv, CardInv, HostInv, NetInv, LoadInv, Loads
<1>5. ClockInv'
  BY <1>1, TypeFacts DEF DidDeliverChunks, ClockInv, PhaseInv, HostInv, LoadInv, Loads,
     Phases
<1>6. SyncInv'
  BY <1>1, TypeFacts DEF DidDeliverChunks, SyncInv, CoordInv, TrackInv, BaseInv, PhaseInv,
     HostInv, LoadInv, Loads
<1>7. SaveInv' /\ EndsWithSameFile
  BY <1>1, TypeFacts DEF DidDeliverChunks, SaveInv, EndsWithSameFile, PhaseInv, HostInv,
     SyncInv, CoordInv, RunInv
<1>8. ResumesTogether
  BY <1>1, TypeFacts DEF DidDeliverChunks, ResumesTogether, Other, SyncInv, BaseInv,
     CoordInv, PhaseInv, HostInv, LoadInv, Loads
<1> QED  BY <1>1, <1>2, <1>3, <1>4, <1>5, <1>6, <1>7, <1>8

LEMMA StepDeliverAck ==
  ASSUME IInv, DeliverAck
  PROVE  IInv' /\ ResumesTogether /\ EndsWithSameFile
<1>1. TypeOK' /\ DidDeliverAck
  BY TypeDeliverAck, DoDeliverAck
<1>2. RunInv' /\ CardInv' /\ NetInv' /\ LoadInv'
  BY <1>1, TypeFacts DEF DidDeliverAck, RunInv, CardInv, NetInv, LoadInv, Loads
<1>3. HostInv'
  BY <1>1, TypeFacts DEF DidDeliverAck, HostInv, NetInv, RunInv, LoadInv, Loads
<1>4. PhaseInv'
  BY <1>1, TypeFacts DEF DidDeliverAck, PhaseInv, CardInv, HostInv, NetInv, LoadInv, Loads
<1>5. ClockInv'
  BY <1>1, TypeFacts DEF DidDeliverAck, ClockInv, PhaseInv, HostInv, LoadInv, Loads, Phases
<1>6. SyncInv'
  BY <1>1, TypeFacts DEF DidDeliverAck, SyncInv, CoordInv, TrackInv, BaseInv, PhaseInv,
     HostInv, LoadInv, Loads
<1>7. SaveInv' /\ EndsWithSameFile
  BY <1>1, TypeFacts DEF DidDeliverAck, SaveInv, EndsWithSameFile, PhaseInv, HostInv,
     SyncInv, CoordInv, RunInv
<1>8. ResumesTogether
  BY <1>1, TypeFacts DEF DidDeliverAck, ResumesTogether, Other, SyncInv, BaseInv, CoordInv,
     PhaseInv, HostInv, LoadInv, Loads
<1> QED  BY <1>1, <1>2, <1>3, <1>4, <1>5, <1>6, <1>7, <1>8

LEMMA StepGuestReadyNow ==
  ASSUME IInv, GuestReady, JustApplied(g)
  PROVE  IInv' /\ ResumesTogether /\ EndsWithSameFile
<1>1. TypeOK' /\ DidGuestReadyNow
  BY TypeGuestReadyNow, DoGuestReadyNow
<1>2. RunInv' /\ CardInv' /\ NetInv' /\ LoadInv'
  BY <1>1, TypeFacts DEF DidGuestReadyNow, RunInv, CardInv, NetInv, LoadInv, Loads
<1>3. HostInv'
  BY <1>1, TypeFacts DEF DidGuestReadyNow, HostInv, NetInv, RunInv, LoadInv, Loads
<1>4. PhaseInv'
  BY <1>1, TypeFacts DEF DidGuestReadyNow, PhaseInv, CardInv, HostInv, NetInv, LoadInv, Loads
<1>5. ClockInv'
  BY <1>1, TypeFacts DEF DidGuestReadyNow, ClockInv, PhaseInv, HostInv, LoadInv, Loads,
     Phases
<1>6. SyncInv'
  BY <1>1, TypeFacts DEF DidGuestReadyNow, SyncInv, CoordInv, TrackInv, BaseInv, PhaseInv,
     HostInv, LoadInv, Loads
<1>7. SaveInv' /\ EndsWithSameFile
  BY <1>1, TypeFacts DEF DidGuestReadyNow, SaveInv, EndsWithSameFile, PhaseInv, HostInv,
     SyncInv, CoordInv, RunInv
<1>8. ResumesTogether
  BY <1>1, TypeFacts DEF DidGuestReadyNow, ResumesTogether, Other, SyncInv, BaseInv,
     CoordInv, PhaseInv, HostInv, LoadInv, Loads
<1> QED  BY <1>1, <1>2, <1>3, <1>4, <1>5, <1>6, <1>7, <1>8

LEMMA StepGuestReadyAgain ==
  ASSUME IInv, GuestReady, ~JustApplied(g)
  PROVE  IInv' /\ ResumesTogether /\ EndsWithSameFile
<1>1. TypeOK' /\ DidGuestReadyAgain
  BY TypeGuestReadyAgain, DoGuestReadyAgain
<1>2. RunInv' /\ CardInv' /\ NetInv' /\ LoadInv'
  BY <1>1, TypeFacts DEF DidGuestReadyAgain, RunInv, CardInv, NetInv, LoadInv, Loads
<1>3. HostInv'
  BY <1>1, TypeFacts DEF DidGuestReadyAgain, HostInv, NetInv, RunInv, LoadInv, Loads
<1>4. PhaseInv'
  BY <1>1, TypeFacts DEF DidGuestReadyAgain, PhaseInv, CardInv, HostInv, NetInv, LoadInv,
     Loads
<1>5. ClockInv'
  BY <1>1, TypeFacts DEF DidGuestReadyAgain, ClockInv, PhaseInv, HostInv, LoadInv, Loads,
     Phases
<1>6. SyncInv'
  BY <1>1, TypeFacts DEF DidGuestReadyAgain, SyncInv, CoordInv, TrackInv, BaseInv, PhaseInv,
     HostInv, LoadInv, Loads
<1>7. SaveInv' /\ EndsWithSameFile
  BY <1>1, TypeFacts DEF DidGuestReadyAgain, SaveInv, EndsWithSameFile, PhaseInv, HostInv,
     SyncInv, CoordInv, RunInv
<1>8. ResumesTogether
  BY <1>1, TypeFacts DEF DidGuestReadyAgain, ResumesTogether, Other, SyncInv, BaseInv,
     CoordInv, PhaseInv, HostInv, LoadInv, Loads
<1> QED  BY <1>1, <1>2, <1>3, <1>4, <1>5, <1>6, <1>7, <1>8

LEMMA StepGuestCoordArm ==
  ASSUME IInv, GuestCoordArm
  PROVE  IInv' /\ ResumesTogether /\ EndsWithSameFile
<1>1. TypeOK' /\ DidGuestCoordArm
  BY TypeGuestCoordArm, DoGuestCoordArm
<1>2. RunInv' /\ CardInv' /\ NetInv' /\ LoadInv'
  BY <1>1, TypeFacts DEF DidGuestCoordArm, RunInv, CardInv, NetInv, LoadInv, Loads
<1>3. HostInv'
  BY <1>1, TypeFacts DEF DidGuestCoordArm, HostInv, NetInv, RunInv, LoadInv, Loads
<1>4. PhaseInv'
  BY <1>1, TypeFacts DEF DidGuestCoordArm, PhaseInv, CardInv, HostInv, NetInv, LoadInv, Loads
<1>5. ClockInv'
  BY <1>1, TypeFacts DEF DidGuestCoordArm, ClockInv, PhaseInv, HostInv, LoadInv, Loads,
     Phases
<1>6. SyncInv'
  BY <1>1, TypeFacts DEF DidGuestCoordArm, SyncInv, CoordInv, TrackInv, BaseInv, PhaseInv,
     HostInv, LoadInv, Loads
<1>7. SaveInv' /\ EndsWithSameFile
  BY <1>1, TypeFacts DEF DidGuestCoordArm, SaveInv, EndsWithSameFile, PhaseInv, HostInv,
     SyncInv, CoordInv, RunInv
<1>8. ResumesTogether
  BY <1>1, TypeFacts DEF DidGuestCoordArm, ResumesTogether, Other, SyncInv, BaseInv,
     CoordInv, PhaseInv, HostInv, LoadInv, Loads
<1> QED  BY <1>1, <1>2, <1>3, <1>4, <1>5, <1>6, <1>7, <1>8

LEMMA StepGuestCoordFailed ==
  ASSUME IInv, GuestCoordFailed
  PROVE  IInv' /\ ResumesTogether /\ EndsWithSameFile
<1>1. TypeOK' /\ DidGuestCoordFailed
  BY TypeGuestCoordFailed, DoGuestCoordFailed
<1>2. RunInv' /\ CardInv' /\ NetInv' /\ LoadInv'
  BY <1>1, TypeFacts DEF DidGuestCoordFailed, RunInv, CardInv, NetInv, LoadInv, Loads
<1>3. HostInv'
  BY <1>1, TypeFacts DEF DidGuestCoordFailed, HostInv, NetInv, RunInv, LoadInv, Loads
<1>4. PhaseInv'
  BY <1>1, TypeFacts DEF DidGuestCoordFailed, PhaseInv, CardInv, HostInv, NetInv, LoadInv,
     Loads
<1>5. ClockInv'
  BY <1>1, TypeFacts DEF DidGuestCoordFailed, ClockInv, PhaseInv, HostInv, LoadInv, Loads,
     Phases
<1>6. SyncInv'
  BY <1>1, TypeFacts DEF DidGuestCoordFailed, SyncInv, CoordInv, TrackInv, BaseInv, PhaseInv,
     HostInv, LoadInv, Loads
<1>7. SaveInv' /\ EndsWithSameFile
  BY <1>1, TypeFacts DEF DidGuestCoordFailed, SaveInv, EndsWithSameFile, PhaseInv, HostInv,
     SyncInv, CoordInv, RunInv
<1>8. ResumesTogether
  BY <1>1, TypeFacts DEF DidGuestCoordFailed, ResumesTogether, Other, SyncInv, BaseInv,
     CoordInv, PhaseInv, HostInv, LoadInv, Loads
<1> QED  BY <1>1, <1>2, <1>3, <1>4, <1>5, <1>6, <1>7, <1>8

LEMMA StepGuestCoordAck ==
  ASSUME IInv, GuestCoordAck
  PROVE  IInv' /\ ResumesTogether /\ EndsWithSameFile
<1>1. TypeOK' /\ DidGuestCoordAck
  BY TypeGuestCoordAck, DoGuestCoordAck
<1>2. RunInv' /\ CardInv' /\ NetInv' /\ LoadInv'
  BY <1>1, TypeFacts DEF DidGuestCoordAck, RunInv, CardInv, NetInv, LoadInv, Loads
<1>3. HostInv'
  BY <1>1, TypeFacts DEF DidGuestCoordAck, HostInv, NetInv, RunInv, LoadInv, Loads
<1>4. PhaseInv'
  BY <1>1, TypeFacts DEF DidGuestCoordAck, PhaseInv, CardInv, HostInv, NetInv, LoadInv, Loads
<1>5. ClockInv'
  BY <1>1, TypeFacts DEF DidGuestCoordAck, ClockInv, PhaseInv, HostInv, LoadInv, Loads,
     Phases
<1>6. SyncInv'
  BY <1>1, TypeFacts DEF DidGuestCoordAck, SyncInv, CoordInv, TrackInv, BaseInv, PhaseInv,
     HostInv, LoadInv, Loads
<1>7. SaveInv' /\ EndsWithSameFile
  BY <1>1, TypeFacts DEF DidGuestCoordAck, SaveInv, EndsWithSameFile, PhaseInv, HostInv,
     SyncInv, CoordInv, RunInv
<1>8. ResumesTogether
  BY <1>1, TypeFacts DEF DidGuestCoordAck, ResumesTogether, Other, SyncInv, BaseInv,
     CoordInv, PhaseInv, HostInv, LoadInv, Loads
<1> QED  BY <1>1, <1>2, <1>3, <1>4, <1>5, <1>6, <1>7, <1>8

LEMMA StepGuestCard ==
  ASSUME IInv, GuestCard
  PROVE  IInv' /\ ResumesTogether /\ EndsWithSameFile
<1>1. TypeOK' /\ DidGuestCard
  BY TypeGuestCard, DoGuestCard
<1>2. RunInv' /\ CardInv' /\ NetInv' /\ LoadInv'
  BY <1>1, TypeFacts DEF DidGuestCard, RunInv, CardInv, NetInv, LoadInv, Loads
<1>3. HostInv'
  BY <1>1, TypeFacts DEF DidGuestCard, HostInv, NetInv, RunInv, LoadInv, Loads
<1>4. PhaseInv'
  BY <1>1, TypeFacts DEF DidGuestCard, PhaseInv, CardInv, HostInv, NetInv, LoadInv, Loads
<1>5. ClockInv'
  BY <1>1, TypeFacts DEF DidGuestCard, ClockInv, PhaseInv, HostInv, LoadInv, Loads, Phases
<1>6. SyncInv'
  BY <1>1, TypeFacts DEF DidGuestCard, SyncInv, CoordInv, TrackInv, BaseInv, PhaseInv,
     HostInv, LoadInv, Loads
<1>7. SaveInv' /\ EndsWithSameFile
  BY <1>1, TypeFacts DEF DidGuestCard, SaveInv, EndsWithSameFile, PhaseInv, HostInv, SyncInv,
     CoordInv, RunInv
<1>8. ResumesTogether
  BY <1>1, TypeFacts DEF DidGuestCard, ResumesTogether, Other, SyncInv, BaseInv, CoordInv,
     PhaseInv, HostInv, LoadInv, Loads
<1> QED  BY <1>1, <1>2, <1>3, <1>4, <1>5, <1>6, <1>7, <1>8

LEMMA StepGuestHashSave ==
  ASSUME IInv, GuestHashSave
  PROVE  IInv' /\ ResumesTogether /\ EndsWithSameFile
<1>1. TypeOK' /\ DidGuestHashSave
  BY TypeGuestHashSave, DoGuestHashSave
<1>2. RunInv' /\ CardInv' /\ NetInv' /\ LoadInv'
  BY <1>1, TypeFacts DEF DidGuestHashSave, RunInv, CardInv, NetInv, LoadInv, Loads
<1>3. HostInv'
  BY <1>1, TypeFacts DEF DidGuestHashSave, HostInv, NetInv, RunInv, LoadInv, Loads
<1>4. PhaseInv'
  BY <1>1, TypeFacts DEF DidGuestHashSave, PhaseInv, CardInv, HostInv, NetInv, LoadInv, Loads
<1>5. ClockInv'
  BY <1>1, TypeFacts DEF DidGuestHashSave, ClockInv, PhaseInv, HostInv, LoadInv, Loads,
     Phases
<1>6. SyncInv'
  BY <1>1, TypeFacts DEF DidGuestHashSave, SyncInv, CoordInv, TrackInv, BaseInv, PhaseInv,
     HostInv, LoadInv, Loads
<1>7. SaveInv' /\ EndsWithSameFile
  BY <1>1, TypeFacts DEF DidGuestHashSave, SaveInv, EndsWithSameFile, PhaseInv, HostInv,
     SyncInv, CoordInv, RunInv
<1>8. ResumesTogether
  BY <1>1, TypeFacts DEF DidGuestHashSave, ResumesTogether, Other, SyncInv, BaseInv,
     CoordInv, PhaseInv, HostInv, LoadInv, Loads
<1> QED  BY <1>1, <1>2, <1>3, <1>4, <1>5, <1>6, <1>7, <1>8

LEMMA StepGuestHashMiss ==
  ASSUME IInv, GuestHashLoad, ~SlotMatches
  PROVE  IInv' /\ ResumesTogether /\ EndsWithSameFile
<1>1. TypeOK' /\ DidGuestHashMiss
  BY TypeGuestHashMiss, DoGuestHashMiss
<1>2. RunInv' /\ CardInv' /\ NetInv' /\ LoadInv'
  BY <1>1, TypeFacts DEF DidGuestHashMiss, RunInv, CardInv, NetInv, LoadInv, Loads
<1>3. HostInv'
  BY <1>1, TypeFacts DEF DidGuestHashMiss, HostInv, NetInv, RunInv, LoadInv, Loads
<1>4. PhaseInv'
  BY <1>1, TypeFacts DEF DidGuestHashMiss, PhaseInv, CardInv, HostInv, NetInv, LoadInv, Loads
<1>5. ClockInv'
  BY <1>1, TypeFacts DEF DidGuestHashMiss, ClockInv, PhaseInv, HostInv, LoadInv, Loads,
     Phases
<1>6. SyncInv'
  BY <1>1, TypeFacts DEF DidGuestHashMiss, SyncInv, CoordInv, TrackInv, BaseInv, PhaseInv,
     HostInv, LoadInv, Loads
<1>7. SaveInv' /\ EndsWithSameFile
  BY <1>1, TypeFacts DEF DidGuestHashMiss, SaveInv, EndsWithSameFile, PhaseInv, HostInv,
     SyncInv, CoordInv, RunInv
<1>8. ResumesTogether
  BY <1>1, TypeFacts DEF DidGuestHashMiss, ResumesTogether, Other, SyncInv, BaseInv,
     CoordInv, PhaseInv, HostInv, LoadInv, Loads
<1> QED  BY <1>1, <1>2, <1>3, <1>4, <1>5, <1>6, <1>7, <1>8

LEMMA StepGuestHashStage ==
  ASSUME IInv, GuestHashLoad, SlotMatches, np[g].xfer \notin {"load_applying", "load_ready"}
  PROVE  IInv' /\ ResumesTogether /\ EndsWithSameFile
<1>1. TypeOK' /\ DidGuestHashStage
  BY TypeGuestHashStage, DoGuestHashStage
<1>2. RunInv' /\ CardInv' /\ NetInv' /\ LoadInv'
  BY <1>1, TypeFacts DEF DidGuestHashStage, RunInv, CardInv, NetInv, LoadInv, Loads
<1>3. HostInv'
  BY <1>1, TypeFacts DEF DidGuestHashStage, HostInv, NetInv, RunInv, LoadInv, Loads
<1>4. PhaseInv'
  BY <1>1, TypeFacts DEF DidGuestHashStage, PhaseInv, CardInv, HostInv, NetInv, LoadInv,
     Loads
<1>5. ClockInv'
  BY <1>1, TypeFacts DEF DidGuestHashStage, ClockInv, PhaseInv, HostInv, LoadInv, Loads,
     Phases
<1>6. SyncInv'
  BY <1>1, TypeFacts DEF DidGuestHashStage, SyncInv, CoordInv, TrackInv, BaseInv, PhaseInv,
     HostInv, LoadInv, Loads
<1>7. SaveInv' /\ EndsWithSameFile
  BY <1>1, TypeFacts DEF DidGuestHashStage, SaveInv, EndsWithSameFile, PhaseInv, HostInv,
     SyncInv, CoordInv, RunInv
<1>8. ResumesTogether
  BY <1>1, TypeFacts DEF DidGuestHashStage, ResumesTogether, Other, SyncInv, BaseInv,
     CoordInv, PhaseInv, HostInv, LoadInv, Loads
<1> QED  BY <1>1, <1>2, <1>3, <1>4, <1>5, <1>6, <1>7, <1>8

LEMMA StepGuestHashKnown ==
  ASSUME IInv, GuestHashLoad, SlotMatches, np[g].xfer \in {"load_applying", "load_ready"}
  PROVE  IInv' /\ ResumesTogether /\ EndsWithSameFile
<1>1. TypeOK' /\ DidGuestHashKnown
  BY TypeGuestHashKnown, DoGuestHashKnown
<1>2. RunInv' /\ CardInv' /\ NetInv' /\ LoadInv'
  BY <1>1, TypeFacts DEF DidGuestHashKnown, RunInv, CardInv, NetInv, LoadInv, Loads
<1>3. HostInv'
  BY <1>1, TypeFacts DEF DidGuestHashKnown, HostInv, NetInv, RunInv, LoadInv, Loads
<1>4. PhaseInv'
  BY <1>1, TypeFacts DEF DidGuestHashKnown, PhaseInv, CardInv, HostInv, NetInv, LoadInv,
     Loads
<1>5. ClockInv'
  BY <1>1, TypeFacts DEF DidGuestHashKnown, ClockInv, PhaseInv, HostInv, LoadInv, Loads,
     Phases
<1>6. SyncInv'
  BY <1>1, TypeFacts DEF DidGuestHashKnown, SyncInv, CoordInv, TrackInv, BaseInv, PhaseInv,
     HostInv, LoadInv, Loads
<1>7. SaveInv' /\ EndsWithSameFile
  BY <1>1, TypeFacts DEF DidGuestHashKnown, SaveInv, EndsWithSameFile, PhaseInv, HostInv,
     SyncInv, CoordInv, RunInv
<1>8. ResumesTogether
  BY <1>1, TypeFacts DEF DidGuestHashKnown, ResumesTogether, Other, SyncInv, BaseInv,
     CoordInv, PhaseInv, HostInv, LoadInv, Loads
<1> QED  BY <1>1, <1>2, <1>3, <1>4, <1>5, <1>6, <1>7, <1>8

LEMMA StepStageSaveHost ==
  ASSUME IInv, StageSave(h)
  PROVE  IInv' /\ ResumesTogether /\ EndsWithSameFile
<1>1. TypeOK' /\ DidStageSave(h)
  BY TypeStageSave, DoStageSave
<1>2. RunInv' /\ CardInv' /\ NetInv' /\ LoadInv'
  BY <1>1, TypeFacts DEF DidStageSave, RunInv, CardInv, NetInv, LoadInv, Loads
<1>3. HostInv'
  BY <1>1, TypeFacts DEF DidStageSave, HostInv, NetInv, RunInv, LoadInv, Loads
<1>4. PhaseInv'
  BY <1>1, TypeFacts DEF DidStageSave, PhaseInv, CardInv, HostInv, NetInv, LoadInv, Loads
<1>5. ClockInv'
  BY <1>1, TypeFacts DEF DidStageSave, ClockInv, PhaseInv, HostInv, LoadInv, Loads, Phases
<1>6. SyncInv'
  BY <1>1, TypeFacts DEF DidStageSave, SyncInv, CoordInv, TrackInv, BaseInv, PhaseInv,
     HostInv, LoadInv, Loads
<1>7. SaveInv' /\ EndsWithSameFile
  BY <1>1, TypeFacts DEF DidStageSave, SaveInv, EndsWithSameFile, PhaseInv, HostInv, SyncInv,
     CoordInv, RunInv
<1>8. ResumesTogether
  BY <1>1, TypeFacts DEF DidStageSave, ResumesTogether, Other, SyncInv, BaseInv, CoordInv,
     PhaseInv, HostInv, LoadInv, Loads
<1> QED  BY <1>1, <1>2, <1>3, <1>4, <1>5, <1>6, <1>7, <1>8

LEMMA StepStageSaveGuest ==
  ASSUME IInv, StageSave(g)
  PROVE  IInv' /\ ResumesTogether /\ EndsWithSameFile
<1>1. TypeOK' /\ DidStageSave(g)
  BY TypeStageSave, DoStageSave
<1>2. RunInv' /\ CardInv' /\ NetInv' /\ LoadInv'
  BY <1>1, TypeFacts DEF DidStageSave, RunInv, CardInv, NetInv, LoadInv, Loads
<1>3. HostInv'
  BY <1>1, TypeFacts DEF DidStageSave, HostInv, NetInv, RunInv, LoadInv, Loads
<1>4. PhaseInv'
  BY <1>1, TypeFacts DEF DidStageSave, PhaseInv, CardInv, HostInv, NetInv, LoadInv, Loads
<1>5. ClockInv'
  BY <1>1, TypeFacts DEF DidStageSave, ClockInv, PhaseInv, HostInv, LoadInv, Loads, Phases
<1>6. SyncInv'
  BY <1>1, TypeFacts DEF DidStageSave, SyncInv, CoordInv, TrackInv, BaseInv, PhaseInv,
     HostInv, LoadInv, Loads
<1>7. SaveInv' /\ EndsWithSameFile
  BY <1>1, TypeFacts DEF DidStageSave, SaveInv, EndsWithSameFile, PhaseInv, HostInv, SyncInv,
     CoordInv, RunInv
<1>8. ResumesTogether
  BY <1>1, TypeFacts DEF DidStageSave, ResumesTogether, Other, SyncInv, BaseInv, CoordInv,
     PhaseInv, HostInv, LoadInv, Loads
<1> QED  BY <1>1, <1>2, <1>3, <1>4, <1>5, <1>6, <1>7, <1>8

LEMMA StepHostSentCard ==
  ASSUME IInv, HostTransferDone, net.tx.item.op = "mc"
  PROVE  IInv' /\ ResumesTogether /\ EndsWithSameFile
<1>1. TypeOK' /\ DidHostSentCard
  BY TypeHostSentCard, DoHostSentCard
<1>2. RunInv' /\ CardInv' /\ NetInv' /\ LoadInv'
  BY <1>1, TypeFacts DEF DidHostSentCard, RunInv, CardInv, NetInv, LoadInv, Loads
<1>3. HostInv'
  BY <1>1, TypeFacts DEF DidHostSentCard, HostInv, NetInv, RunInv, LoadInv, Loads
<1>4. PhaseInv'
  BY <1>1, TypeFacts DEF DidHostSentCard, PhaseInv, CardInv, HostInv, NetInv, LoadInv, Loads
<1>5. ClockInv'
  BY <1>1, TypeFacts DEF DidHostSentCard, ClockInv, PhaseInv, HostInv, LoadInv, Loads, Phases
<1>6. SyncInv'
  BY <1>1, TypeFacts DEF DidHostSentCard, SyncInv, CoordInv, TrackInv, BaseInv, PhaseInv,
     HostInv, LoadInv, Loads
<1>7. SaveInv' /\ EndsWithSameFile
  BY <1>1, TypeFacts DEF DidHostSentCard, SaveInv, EndsWithSameFile, PhaseInv, HostInv,
     SyncInv, CoordInv, RunInv
<1>8. ResumesTogether
  BY <1>1, TypeFacts DEF DidHostSentCard, ResumesTogether, Other, SyncInv, BaseInv, CoordInv,
     PhaseInv, HostInv, LoadInv, Loads
<1> QED  BY <1>1, <1>2, <1>3, <1>4, <1>5, <1>6, <1>7, <1>8

LEMMA StepHostSentSave ==
  ASSUME IInv, HostTransferDone, net.tx.item.op = "save"
  PROVE  IInv' /\ ResumesTogether /\ EndsWithSameFile
<1>1. TypeOK' /\ DidHostSentSave
  BY TypeHostSentSave, DoHostSentSave
<1>2. RunInv' /\ CardInv' /\ NetInv' /\ LoadInv'
  BY <1>1, TypeFacts DEF DidHostSentSave, RunInv, CardInv, NetInv, LoadInv, Loads
<1>3. HostInv'
  BY <1>1, TypeFacts DEF DidHostSentSave, HostInv, NetInv, RunInv, LoadInv, Loads
<1>4. PhaseInv'
  BY <1>1, TypeFacts DEF DidHostSentSave, PhaseInv, CardInv, HostInv, NetInv, LoadInv, Loads
<1>5. ClockInv'
  BY <1>1, TypeFacts DEF DidHostSentSave, ClockInv, PhaseInv, HostInv, LoadInv, Loads, Phases
<1>6. SyncInv'
  BY <1>1, TypeFacts DEF DidHostSentSave, SyncInv, CoordInv, TrackInv, BaseInv, PhaseInv,
     HostInv, LoadInv, Loads
<1>7. SaveInv' /\ EndsWithSameFile
  BY <1>1, TypeFacts DEF DidHostSentSave, SaveInv, EndsWithSameFile, PhaseInv, HostInv,
     SyncInv, CoordInv, RunInv
<1>8. ResumesTogether
  BY <1>1, TypeFacts DEF DidHostSentSave, ResumesTogether, Other, SyncInv, BaseInv, CoordInv,
     PhaseInv, HostInv, LoadInv, Loads
<1> QED  BY <1>1, <1>2, <1>3, <1>4, <1>5, <1>6, <1>7, <1>8

LEMMA StepHostSentLoad ==
  ASSUME IInv, HostTransferDone, net.tx.item.op = "load"
  PROVE  IInv' /\ ResumesTogether /\ EndsWithSameFile
<1>1. TypeOK' /\ DidHostSentLoad
  BY TypeHostSentLoad, DoHostSentLoad
<1>2. RunInv' /\ CardInv' /\ NetInv' /\ LoadInv'
  BY <1>1, TypeFacts DEF DidHostSentLoad, RunInv, CardInv, NetInv, LoadInv, Loads
<1>3. HostInv'
  BY <1>1, TypeFacts DEF DidHostSentLoad, HostInv, NetInv, RunInv, LoadInv, Loads
<1>4. PhaseInv'
  BY <1>1, TypeFacts DEF DidHostSentLoad, PhaseInv, CardInv, HostInv, NetInv, LoadInv, Loads
<1>5. ClockInv'
  BY <1>1, TypeFacts DEF DidHostSentLoad, ClockInv, PhaseInv, HostInv, LoadInv, Loads, Phases
<1>6. SyncInv'
  BY <1>1, TypeFacts DEF DidHostSentLoad, SyncInv, CoordInv, TrackInv, BaseInv, PhaseInv,
     HostInv, LoadInv, Loads
<1>7. SaveInv' /\ EndsWithSameFile
  BY <1>1, TypeFacts DEF DidHostSentLoad, SaveInv, EndsWithSameFile, PhaseInv, HostInv,
     SyncInv, CoordInv, RunInv
<1>8. ResumesTogether
  BY <1>1, TypeFacts DEF DidHostSentLoad, ResumesTogether, Other, SyncInv, BaseInv, CoordInv,
     PhaseInv, HostInv, LoadInv, Loads
<1> QED  BY <1>1, <1>2, <1>3, <1>4, <1>5, <1>6, <1>7, <1>8

LEMMA StepGuestRefusesCard ==
  ASSUME IInv, GuestTakesCard, net.rx.card # Off /\ card[g] = Off
  PROVE  IInv' /\ ResumesTogether /\ EndsWithSameFile
<1>1. TypeOK' /\ DidGuestRefusesCard
  BY TypeGuestRefusesCard, DoGuestRefusesCard
<1>2. RunInv' /\ CardInv' /\ NetInv' /\ LoadInv'
  BY <1>1, TypeFacts DEF DidGuestRefusesCard, RunInv, CardInv, NetInv, LoadInv, Loads
<1>3. HostInv'
  BY <1>1, TypeFacts DEF DidGuestRefusesCard, HostInv, NetInv, RunInv, LoadInv, Loads
<1>4. PhaseInv'
  BY <1>1, TypeFacts DEF DidGuestRefusesCard, PhaseInv, CardInv, HostInv, NetInv, LoadInv,
     Loads
<1>5. ClockInv'
  BY <1>1, TypeFacts DEF DidGuestRefusesCard, ClockInv, PhaseInv, HostInv, LoadInv, Loads,
     Phases
<1>6. SyncInv'
  BY <1>1, TypeFacts DEF DidGuestRefusesCard, SyncInv, CoordInv, TrackInv, BaseInv, PhaseInv,
     HostInv, LoadInv, Loads
<1>7. SaveInv' /\ EndsWithSameFile
  BY <1>1, TypeFacts DEF DidGuestRefusesCard, SaveInv, EndsWithSameFile, PhaseInv, HostInv,
     SyncInv, CoordInv, RunInv
<1>8. ResumesTogether
  BY <1>1, TypeFacts DEF DidGuestRefusesCard, ResumesTogether, Other, SyncInv, BaseInv,
     CoordInv, PhaseInv, HostInv, LoadInv, Loads
<1> QED  BY <1>1, <1>2, <1>3, <1>4, <1>5, <1>6, <1>7, <1>8

LEMMA StepGuestTakesCard ==
  ASSUME IInv, GuestTakesCard, net.rx.card = Off \/ card[g] # Off
  PROVE  IInv' /\ ResumesTogether /\ EndsWithSameFile
<1>1. TypeOK' /\ DidGuestTakesCard
  BY TypeGuestTakesCard, DoGuestTakesCard
<1>2. RunInv' /\ CardInv' /\ NetInv' /\ LoadInv'
  BY <1>1, TypeFacts DEF DidGuestTakesCard, RunInv, CardInv, NetInv, LoadInv, Loads
<1>3. HostInv'
  BY <1>1, TypeFacts DEF DidGuestTakesCard, HostInv, NetInv, RunInv, LoadInv, Loads
<1>4. PhaseInv'
  BY <1>1, TypeFacts DEF DidGuestTakesCard, PhaseInv, CardInv, HostInv, NetInv, LoadInv,
     Loads
<1>5. ClockInv'
  BY <1>1, TypeFacts DEF DidGuestTakesCard, ClockInv, PhaseInv, HostInv, LoadInv, Loads,
     Phases
<1>6. SyncInv'
  BY <1>1, TypeFacts DEF DidGuestTakesCard, SyncInv, CoordInv, TrackInv, BaseInv, PhaseInv,
     HostInv, LoadInv, Loads
<1>7. SaveInv' /\ EndsWithSameFile
  BY <1>1, TypeFacts DEF DidGuestTakesCard, SaveInv, EndsWithSameFile, PhaseInv, HostInv,
     SyncInv, CoordInv, RunInv
<1>8. ResumesTogether
  BY <1>1, TypeFacts DEF DidGuestTakesCard, ResumesTogether, Other, SyncInv, BaseInv,
     CoordInv, PhaseInv, HostInv, LoadInv, Loads
<1> QED  BY <1>1, <1>2, <1>3, <1>4, <1>5, <1>6, <1>7, <1>8

LEMMA StepGuestTakesSave ==
  ASSUME IInv, GuestTakesSave
  PROVE  IInv' /\ ResumesTogether /\ EndsWithSameFile
<1>1. TypeOK' /\ DidGuestTakesSave
  BY TypeGuestTakesSave, DoGuestTakesSave
<1>2. RunInv' /\ CardInv' /\ NetInv' /\ LoadInv'
  BY <1>1, TypeFacts DEF DidGuestTakesSave, RunInv, CardInv, NetInv, LoadInv, Loads
<1>3. HostInv'
  BY <1>1, TypeFacts DEF DidGuestTakesSave, HostInv, NetInv, RunInv, LoadInv, Loads
<1>4. PhaseInv'
  BY <1>1, TypeFacts DEF DidGuestTakesSave, PhaseInv, CardInv, HostInv, NetInv, LoadInv,
     Loads
<1>5. ClockInv'
  BY <1>1, TypeFacts DEF DidGuestTakesSave, ClockInv, PhaseInv, HostInv, LoadInv, Loads,
     Phases
<1>6. SyncInv'
  BY <1>1, TypeFacts DEF DidGuestTakesSave, SyncInv, CoordInv, TrackInv, BaseInv, PhaseInv,
     HostInv, LoadInv, Loads
<1>7. SaveInv' /\ EndsWithSameFile
  BY <1>1, TypeFacts DEF DidGuestTakesSave, SaveInv, EndsWithSameFile, PhaseInv, HostInv,
     SyncInv, CoordInv, RunInv
<1>8. ResumesTogether
  BY <1>1, TypeFacts DEF DidGuestTakesSave, ResumesTogether, Other, SyncInv, BaseInv,
     CoordInv, PhaseInv, HostInv, LoadInv, Loads
<1> QED  BY <1>1, <1>2, <1>3, <1>4, <1>5, <1>6, <1>7, <1>8

LEMMA StepGuestTakesLoad ==
  ASSUME IInv, GuestTakesLoad
  PROVE  IInv' /\ ResumesTogether /\ EndsWithSameFile
<1>1. TypeOK' /\ DidGuestTakesLoad
  BY TypeGuestTakesLoad, DoGuestTakesLoad
<1>2. RunInv' /\ CardInv' /\ NetInv' /\ LoadInv'
  BY <1>1, TypeFacts DEF DidGuestTakesLoad, RunInv, CardInv, NetInv, LoadInv, Loads
<1>3. HostInv'
  BY <1>1, TypeFacts DEF DidGuestTakesLoad, HostInv, NetInv, RunInv, LoadInv, Loads
<1>4. PhaseInv'
  BY <1>1, TypeFacts DEF DidGuestTakesLoad, PhaseInv, CardInv, HostInv, NetInv, LoadInv,
     Loads
<1>5. ClockInv'
  BY <1>1, TypeFacts DEF DidGuestTakesLoad, ClockInv, PhaseInv, HostInv, LoadInv, Loads,
     Phases
<1>6. SyncInv'
  BY <1>1, TypeFacts DEF DidGuestTakesLoad, SyncInv, CoordInv, TrackInv, BaseInv, PhaseInv,
     HostInv, LoadInv, Loads
<1>7. SaveInv' /\ EndsWithSameFile
  BY <1>1, TypeFacts DEF DidGuestTakesLoad, SaveInv, EndsWithSameFile, PhaseInv, HostInv,
     SyncInv, CoordInv, RunInv
<1>8. ResumesTogether
  BY <1>1, TypeFacts DEF DidGuestTakesLoad, ResumesTogether, Other, SyncInv, BaseInv,
     CoordInv, PhaseInv, HostInv, LoadInv, Loads
<1> QED  BY <1>1, <1>2, <1>3, <1>4, <1>5, <1>6, <1>7, <1>8

LEMMA StepHostLoaded ==
  ASSUME IInv, LoadBarrierDone(h)
  PROVE  IInv' /\ ResumesTogether /\ EndsWithSameFile
<1>1. TypeOK' /\ DidHostLoaded
  BY TypeHostLoaded, DoHostLoaded
<1>2. RunInv' /\ CardInv' /\ NetInv' /\ LoadInv'
  BY <1>1, TypeFacts DEF DidHostLoaded, RunInv, CardInv, NetInv, LoadInv, Loads
<1>3. HostInv'
  BY <1>1, TypeFacts DEF DidHostLoaded, HostInv, NetInv, RunInv, LoadInv, Loads
<1>4. PhaseInv'
  BY <1>1, TypeFacts DEF DidHostLoaded, PhaseInv, CardInv, HostInv, NetInv, LoadInv, Loads
<1>5. ClockInv'
  BY <1>1, TypeFacts DEF DidHostLoaded, ClockInv, PhaseInv, HostInv, LoadInv, Loads, Phases
<1>6. SyncInv'
  BY <1>1, TypeFacts DEF DidHostLoaded, SyncInv, CoordInv, TrackInv, BaseInv, PhaseInv,
     HostInv, LoadInv, Loads
<1>7. SaveInv' /\ EndsWithSameFile
  BY <1>1, TypeFacts DEF DidHostLoaded, SaveInv, EndsWithSameFile, PhaseInv, HostInv,
     SyncInv, CoordInv, RunInv
<1>8. ResumesTogether
  BY <1>1, TypeFacts DEF DidHostLoaded, ResumesTogether, Other, SyncInv, BaseInv, CoordInv,
     PhaseInv, HostInv, LoadInv, Loads
<1> QED  BY <1>1, <1>2, <1>3, <1>4, <1>5, <1>6, <1>7, <1>8

LEMMA StepGuestLoaded ==
  ASSUME IInv, LoadBarrierDone(g)
  PROVE  IInv' /\ ResumesTogether /\ EndsWithSameFile
<1>1. TypeOK' /\ DidGuestLoaded
  BY TypeGuestLoaded, DoGuestLoaded
<1>2. RunInv' /\ CardInv' /\ NetInv' /\ LoadInv'
  BY <1>1, TypeFacts DEF DidGuestLoaded, RunInv, CardInv, NetInv, LoadInv, Loads
<1>3. HostInv'
  BY <1>1, TypeFacts DEF DidGuestLoaded, HostInv, NetInv, RunInv, LoadInv, Loads
<1>4. PhaseInv'
  BY <1>1, TypeFacts DEF DidGuestLoaded, PhaseInv, CardInv, HostInv, NetInv, LoadInv, Loads
<1>5. ClockInv'
  BY <1>1, TypeFacts DEF DidGuestLoaded, ClockInv, PhaseInv, HostInv, LoadInv, Loads, Phases
<1>6. SyncInv'
  BY <1>1, TypeFacts DEF DidGuestLoaded, SyncInv, CoordInv, TrackInv, BaseInv, PhaseInv,
     HostInv, LoadInv, Loads
<1>7. SaveInv' /\ EndsWithSameFile
  BY <1>1, TypeFacts DEF DidGuestLoaded, SaveInv, EndsWithSameFile, PhaseInv, HostInv,
     SyncInv, CoordInv, RunInv
<1>8. ResumesTogether
  BY <1>1, TypeFacts DEF DidGuestLoaded, ResumesTogether, Other, SyncInv, BaseInv, CoordInv,
     PhaseInv, HostInv, LoadInv, Loads
<1> QED  BY <1>1, <1>2, <1>3, <1>4, <1>5, <1>6, <1>7, <1>8

LEMMA StepLoadBarrierFailedHost ==
  ASSUME IInv, LoadBarrierFailed(h)
  PROVE  IInv' /\ ResumesTogether /\ EndsWithSameFile
<1>1. TypeOK' /\ DidLoadBarrierFailed(h)
  BY TypeLoadBarrierFailed, DoLoadBarrierFailed
<1>2. RunInv' /\ CardInv' /\ NetInv' /\ LoadInv'
  BY <1>1, TypeFacts DEF DidLoadBarrierFailed, RunInv, CardInv, NetInv, LoadInv, Loads
<1>3. HostInv'
  BY <1>1, TypeFacts DEF DidLoadBarrierFailed, HostInv, NetInv, RunInv, LoadInv, Loads
<1>4. PhaseInv'
  BY <1>1, TypeFacts DEF DidLoadBarrierFailed, PhaseInv, CardInv, HostInv, NetInv, LoadInv,
     Loads
<1>5. ClockInv'
  BY <1>1, TypeFacts DEF DidLoadBarrierFailed, ClockInv, PhaseInv, HostInv, LoadInv, Loads,
     Phases
<1>6. SyncInv'
  BY <1>1, TypeFacts DEF DidLoadBarrierFailed, SyncInv, CoordInv, TrackInv, BaseInv,
     PhaseInv, HostInv, LoadInv, Loads
<1>7. SaveInv' /\ EndsWithSameFile
  BY <1>1, TypeFacts DEF DidLoadBarrierFailed, SaveInv, EndsWithSameFile, PhaseInv, HostInv,
     SyncInv, CoordInv, RunInv
<1>8. ResumesTogether
  BY <1>1, TypeFacts DEF DidLoadBarrierFailed, ResumesTogether, Other, SyncInv, BaseInv,
     CoordInv, PhaseInv, HostInv, LoadInv, Loads
<1> QED  BY <1>1, <1>2, <1>3, <1>4, <1>5, <1>6, <1>7, <1>8

LEMMA StepLoadBarrierFailedGuest ==
  ASSUME IInv, LoadBarrierFailed(g)
  PROVE  IInv' /\ ResumesTogether /\ EndsWithSameFile
<1>1. TypeOK' /\ DidLoadBarrierFailed(g)
  BY TypeLoadBarrierFailed, DoLoadBarrierFailed
<1>2. RunInv' /\ CardInv' /\ NetInv' /\ LoadInv'
  BY <1>1, TypeFacts DEF DidLoadBarrierFailed, RunInv, CardInv, NetInv, LoadInv, Loads
<1>3. HostInv'
  BY <1>1, TypeFacts DEF DidLoadBarrierFailed, HostInv, NetInv, RunInv, LoadInv, Loads
<1>4. PhaseInv'
  BY <1>1, TypeFacts DEF DidLoadBarrierFailed, PhaseInv, CardInv, HostInv, NetInv, LoadInv,
     Loads
<1>5. ClockInv'
  BY <1>1, TypeFacts DEF DidLoadBarrierFailed, ClockInv, PhaseInv, HostInv, LoadInv, Loads,
     Phases
<1>6. SyncInv'
  BY <1>1, TypeFacts DEF DidLoadBarrierFailed, SyncInv, CoordInv, TrackInv, BaseInv,
     PhaseInv, HostInv, LoadInv, Loads
<1>7. SaveInv' /\ EndsWithSameFile
  BY <1>1, TypeFacts DEF DidLoadBarrierFailed, SaveInv, EndsWithSameFile, PhaseInv, HostInv,
     SyncInv, CoordInv, RunInv
<1>8. ResumesTogether
  BY <1>1, TypeFacts DEF DidLoadBarrierFailed, ResumesTogether, Other, SyncInv, BaseInv,
     CoordInv, PhaseInv, HostInv, LoadInv, Loads
<1> QED  BY <1>1, <1>2, <1>3, <1>4, <1>5, <1>6, <1>7, <1>8

LEMMA StepHostCardMatch ==
  ASSUME IInv, HostCardProbed, Match
  PROVE  IInv' /\ ResumesTogether /\ EndsWithSameFile
<1>1. TypeOK' /\ DidHostCardMatch
  BY TypeHostCardMatch, DoHostCardMatch
<1>2. RunInv' /\ CardInv' /\ NetInv' /\ LoadInv'
  BY <1>1, TypeFacts DEF DidHostCardMatch, RunInv, CardInv, NetInv, LoadInv, Loads
<1>3. HostInv'
  BY <1>1, TypeFacts DEF DidHostCardMatch, HostInv, NetInv, RunInv, LoadInv, Loads
<1>4. PhaseInv'
  BY <1>1, TypeFacts DEF DidHostCardMatch, PhaseInv, CardInv, HostInv, NetInv, LoadInv, Loads
<1>5. ClockInv'
  BY <1>1, TypeFacts DEF DidHostCardMatch, ClockInv, PhaseInv, HostInv, LoadInv, Loads,
     Phases
<1>6. SyncInv'
  BY <1>1, TypeFacts DEF DidHostCardMatch, SyncInv, CoordInv, TrackInv, BaseInv, PhaseInv,
     HostInv, LoadInv, Loads
<1>7. SaveInv' /\ EndsWithSameFile
  BY <1>1, TypeFacts DEF DidHostCardMatch, SaveInv, EndsWithSameFile, PhaseInv, HostInv,
     SyncInv, CoordInv, RunInv
<1>8. ResumesTogether
  BY <1>1, TypeFacts DEF DidHostCardMatch, ResumesTogether, Other, SyncInv, BaseInv,
     CoordInv, PhaseInv, HostInv, LoadInv, Loads
<1> QED  BY <1>1, <1>2, <1>3, <1>4, <1>5, <1>6, <1>7, <1>8

LEMMA StepHostCardMiss ==
  ASSUME IInv, HostCardProbed, ~Match
  PROVE  IInv' /\ ResumesTogether /\ EndsWithSameFile
<1>1. TypeOK' /\ DidHostCardMiss
  BY TypeHostCardMiss, DoHostCardMiss
<1>2. RunInv' /\ CardInv' /\ NetInv' /\ LoadInv'
  BY <1>1, TypeFacts DEF DidHostCardMiss, RunInv, CardInv, NetInv, LoadInv, Loads
<1>3. HostInv'
  BY <1>1, TypeFacts DEF DidHostCardMiss, HostInv, NetInv, RunInv, LoadInv, Loads
<1>4. PhaseInv'
  BY <1>1, TypeFacts DEF DidHostCardMiss, PhaseInv, CardInv, HostInv, NetInv, LoadInv, Loads
<1>5. ClockInv'
  BY <1>1, TypeFacts DEF DidHostCardMiss, ClockInv, PhaseInv, HostInv, LoadInv, Loads, Phases
<1>6. SyncInv'
  BY <1>1, TypeFacts DEF DidHostCardMiss, SyncInv, CoordInv, TrackInv, BaseInv, PhaseInv,
     HostInv, LoadInv, Loads
<1>7. SaveInv' /\ EndsWithSameFile
  BY <1>1, TypeFacts DEF DidHostCardMiss, SaveInv, EndsWithSameFile, PhaseInv, HostInv,
     SyncInv, CoordInv, RunInv
<1>8. ResumesTogether
  BY <1>1, TypeFacts DEF DidHostCardMiss, ResumesTogether, Other, SyncInv, BaseInv, CoordInv,
     PhaseInv, HostInv, LoadInv, Loads
<1> QED  BY <1>1, <1>2, <1>3, <1>4, <1>5, <1>6, <1>7, <1>8

LEMMA StepHostCoordAbort ==
  ASSUME IInv, HostCoordAbort
  PROVE  IInv' /\ ResumesTogether /\ EndsWithSameFile
<1>1. TypeOK' /\ DidHostCoordAbort
  BY TypeHostCoordAbort, DoHostCoordAbort
<1>2. RunInv' /\ CardInv' /\ NetInv' /\ LoadInv'
  BY <1>1, TypeFacts DEF DidHostCoordAbort, RunInv, CardInv, NetInv, LoadInv, Loads
<1>3. HostInv'
  BY <1>1, TypeFacts DEF DidHostCoordAbort, HostInv, NetInv, RunInv, LoadInv, Loads
<1>4. PhaseInv'
  BY <1>1, TypeFacts DEF DidHostCoordAbort, PhaseInv, CardInv, HostInv, NetInv, LoadInv,
     Loads
<1>5. ClockInv'
  BY <1>1, TypeFacts DEF DidHostCoordAbort, ClockInv, PhaseInv, HostInv, LoadInv, Loads,
     Phases
<1>6. SyncInv'
  BY <1>1, TypeFacts DEF DidHostCoordAbort, SyncInv, CoordInv, TrackInv, BaseInv, PhaseInv,
     HostInv, LoadInv, Loads
<1>7. SaveInv' /\ EndsWithSameFile
  BY <1>1, TypeFacts DEF DidHostCoordAbort, SaveInv, EndsWithSameFile, PhaseInv, HostInv,
     SyncInv, CoordInv, RunInv
<1>8. ResumesTogether
  BY <1>1, TypeFacts DEF DidHostCoordAbort, ResumesTogether, Other, SyncInv, BaseInv,
     CoordInv, PhaseInv, HostInv, LoadInv, Loads
<1> QED  BY <1>1, <1>2, <1>3, <1>4, <1>5, <1>6, <1>7, <1>8

LEMMA StepHostCoordDone ==
  ASSUME IInv, HostCoordDone
  PROVE  IInv' /\ ResumesTogether /\ EndsWithSameFile
<1>1. TypeOK' /\ DidHostCoordDone
  BY TypeHostCoordDone, DoHostCoordDone
<1>2. RunInv' /\ CardInv' /\ NetInv' /\ LoadInv'
  BY <1>1, TypeFacts DEF DidHostCoordDone, RunInv, CardInv, NetInv, LoadInv, Loads
<1>3. HostInv'
  BY <1>1, TypeFacts DEF DidHostCoordDone, HostInv, NetInv, RunInv, LoadInv, Loads
<1>4. PhaseInv'
  BY <1>1, TypeFacts DEF DidHostCoordDone, PhaseInv, CardInv, HostInv, NetInv, LoadInv, Loads
<1>5. ClockInv'
  BY <1>1, TypeFacts DEF DidHostCoordDone, ClockInv, PhaseInv, HostInv, LoadInv, Loads,
     Phases
<1>6. SyncInv'
  BY <1>1, TypeFacts DEF DidHostCoordDone, SyncInv, CoordInv, TrackInv, BaseInv, PhaseInv,
     HostInv, LoadInv, Loads
<1>7. SaveInv' /\ EndsWithSameFile
  BY <1>1, TypeFacts DEF DidHostCoordDone, SaveInv, EndsWithSameFile, PhaseInv, HostInv,
     SyncInv, CoordInv, RunInv
<1>8. ResumesTogether
  BY <1>1, TypeFacts DEF DidHostCoordDone, ResumesTogether, Other, SyncInv, BaseInv,
     CoordInv, PhaseInv, HostInv, LoadInv, Loads
<1> QED  BY <1>1, <1>2, <1>3, <1>4, <1>5, <1>6, <1>7, <1>8

LEMMA StepHostSaveMatch ==
  ASSUME IInv, HostSaveProbed, Match
  PROVE  IInv' /\ ResumesTogether /\ EndsWithSameFile
<1>1. TypeOK' /\ DidHostSaveMatch
  BY TypeHostSaveMatch, DoHostSaveMatch
<1>2. RunInv' /\ CardInv' /\ NetInv' /\ LoadInv'
  BY <1>1, TypeFacts DEF DidHostSaveMatch, RunInv, CardInv, NetInv, LoadInv, Loads
<1>3. HostInv'
  BY <1>1, TypeFacts DEF DidHostSaveMatch, HostInv, NetInv, RunInv, LoadInv, Loads
<1>4. PhaseInv'
  BY <1>1, TypeFacts DEF DidHostSaveMatch, PhaseInv, CardInv, HostInv, NetInv, LoadInv, Loads
<1>5. ClockInv'
  BY <1>1, TypeFacts DEF DidHostSaveMatch, ClockInv, PhaseInv, HostInv, LoadInv, Loads,
     Phases
<1>6. SyncInv'
  BY <1>1, TypeFacts DEF DidHostSaveMatch, SyncInv, CoordInv, TrackInv, BaseInv, PhaseInv,
     HostInv, LoadInv, Loads
<1>7. SaveInv' /\ EndsWithSameFile
  BY <1>1, TypeFacts DEF DidHostSaveMatch, SaveInv, EndsWithSameFile, PhaseInv, HostInv,
     SyncInv, CoordInv, RunInv
<1>8. ResumesTogether
  BY <1>1, TypeFacts DEF DidHostSaveMatch, ResumesTogether, Other, SyncInv, BaseInv,
     CoordInv, PhaseInv, HostInv, LoadInv, Loads
<1> QED  BY <1>1, <1>2, <1>3, <1>4, <1>5, <1>6, <1>7, <1>8

LEMMA StepHostSaveMiss ==
  ASSUME IInv, HostSaveProbed, ~Match
  PROVE  IInv' /\ ResumesTogether /\ EndsWithSameFile
<1>1. TypeOK' /\ DidHostSaveMiss
  BY TypeHostSaveMiss, DoHostSaveMiss
<1>2. RunInv' /\ CardInv' /\ NetInv' /\ LoadInv'
  BY <1>1, TypeFacts DEF DidHostSaveMiss, RunInv, CardInv, NetInv, LoadInv, Loads
<1>3. HostInv'
  BY <1>1, TypeFacts DEF DidHostSaveMiss, HostInv, NetInv, RunInv, LoadInv, Loads
<1>4. PhaseInv'
  BY <1>1, TypeFacts DEF DidHostSaveMiss, PhaseInv, CardInv, HostInv, NetInv, LoadInv, Loads
<1>5. ClockInv'
  BY <1>1, TypeFacts DEF DidHostSaveMiss, ClockInv, PhaseInv, HostInv, LoadInv, Loads, Phases
<1>6. SyncInv'
  BY <1>1, TypeFacts DEF DidHostSaveMiss, SyncInv, CoordInv, TrackInv, BaseInv, PhaseInv,
     HostInv, LoadInv, Loads
<1>7. SaveInv' /\ EndsWithSameFile
  BY <1>1, TypeFacts DEF DidHostSaveMiss, SaveInv, EndsWithSameFile, PhaseInv, HostInv,
     SyncInv, CoordInv, RunInv
<1>8. ResumesTogether
  BY <1>1, TypeFacts DEF DidHostSaveMiss, ResumesTogether, Other, SyncInv, BaseInv, CoordInv,
     PhaseInv, HostInv, LoadInv, Loads
<1> QED  BY <1>1, <1>2, <1>3, <1>4, <1>5, <1>6, <1>7, <1>8

LEMMA StepHostLoadMatch ==
  ASSUME IInv, HostLoadProbed, Match
  PROVE  IInv' /\ ResumesTogether /\ EndsWithSameFile
<1>1. TypeOK' /\ DidHostLoadMatch
  BY TypeHostLoadMatch, DoHostLoadMatch
<1>2. RunInv' /\ CardInv' /\ NetInv' /\ LoadInv'
  BY <1>1, TypeFacts DEF DidHostLoadMatch, RunInv, CardInv, NetInv, LoadInv, Loads
<1>3. HostInv'
  BY <1>1, TypeFacts DEF DidHostLoadMatch, HostInv, NetInv, RunInv, LoadInv, Loads
<1>4. PhaseInv'
  BY <1>1, TypeFacts DEF DidHostLoadMatch, PhaseInv, CardInv, HostInv, NetInv, LoadInv, Loads
<1>5. ClockInv'
  BY <1>1, TypeFacts DEF DidHostLoadMatch, ClockInv, PhaseInv, HostInv, LoadInv, Loads,
     Phases
<1>6. SyncInv'
  BY <1>1, TypeFacts DEF DidHostLoadMatch, SyncInv, CoordInv, TrackInv, BaseInv, PhaseInv,
     HostInv, LoadInv, Loads
<1>7. SaveInv' /\ EndsWithSameFile
  BY <1>1, TypeFacts DEF DidHostLoadMatch, SaveInv, EndsWithSameFile, PhaseInv, HostInv,
     SyncInv, CoordInv, RunInv
<1>8. ResumesTogether
  BY <1>1, TypeFacts DEF DidHostLoadMatch, ResumesTogether, Other, SyncInv, BaseInv,
     CoordInv, PhaseInv, HostInv, LoadInv, Loads
<1> QED  BY <1>1, <1>2, <1>3, <1>4, <1>5, <1>6, <1>7, <1>8

LEMMA StepHostLoadMiss ==
  ASSUME IInv, HostLoadProbed, ~Match
  PROVE  IInv' /\ ResumesTogether /\ EndsWithSameFile
<1>1. TypeOK' /\ DidHostLoadMiss
  BY TypeHostLoadMiss, DoHostLoadMiss
<1>2. RunInv' /\ CardInv' /\ NetInv' /\ LoadInv'
  BY <1>1, TypeFacts DEF DidHostLoadMiss, RunInv, CardInv, NetInv, LoadInv, Loads
<1>3. HostInv'
  BY <1>1, TypeFacts DEF DidHostLoadMiss, HostInv, NetInv, RunInv, LoadInv, Loads
<1>4. PhaseInv'
  BY <1>1, TypeFacts DEF DidHostLoadMiss, PhaseInv, CardInv, HostInv, NetInv, LoadInv, Loads
<1>5. ClockInv'
  BY <1>1, TypeFacts DEF DidHostLoadMiss, ClockInv, PhaseInv, HostInv, LoadInv, Loads, Phases
<1>6. SyncInv'
  BY <1>1, TypeFacts DEF DidHostLoadMiss, SyncInv, CoordInv, TrackInv, BaseInv, PhaseInv,
     HostInv, LoadInv, Loads
<1>7. SaveInv' /\ EndsWithSameFile
  BY <1>1, TypeFacts DEF DidHostLoadMiss, SaveInv, EndsWithSameFile, PhaseInv, HostInv,
     SyncInv, CoordInv, RunInv
<1>8. ResumesTogether
  BY <1>1, TypeFacts DEF DidHostLoadMiss, ResumesTogether, Other, SyncInv, BaseInv, CoordInv,
     PhaseInv, HostInv, LoadInv, Loads
<1> QED  BY <1>1, <1>2, <1>3, <1>4, <1>5, <1>6, <1>7, <1>8

LEMMA StepHostReady ==
  ASSUME IInv, HostReady
  PROVE  IInv' /\ ResumesTogether /\ EndsWithSameFile
<1>1. TypeOK' /\ DidHostReady
  BY TypeHostReady, DoHostReady
<1>2. RunInv' /\ CardInv' /\ NetInv' /\ LoadInv'
  BY <1>1, TypeFacts DEF DidHostReady, RunInv, CardInv, NetInv, LoadInv, Loads
<1>3. HostInv'
  BY <1>1, TypeFacts DEF DidHostReady, HostInv, NetInv, RunInv, LoadInv, Loads
<1>4. PhaseInv'
  BY <1>1, TypeFacts DEF DidHostReady, PhaseInv, CardInv, HostInv, NetInv, LoadInv, Loads
<1>5. ClockInv'
  BY <1>1, TypeFacts DEF DidHostReady, ClockInv, PhaseInv, HostInv, LoadInv, Loads, Phases
<1>6. SyncInv'
  BY <1>1, TypeFacts DEF DidHostReady, SyncInv, CoordInv, TrackInv, BaseInv, PhaseInv,
     HostInv, LoadInv, Loads
<1>7. SaveInv' /\ EndsWithSameFile
  BY <1>1, TypeFacts DEF DidHostReady, SaveInv, EndsWithSameFile, PhaseInv, HostInv, SyncInv,
     CoordInv, RunInv
<1>8. ResumesTogether
  BY <1>1, TypeFacts DEF DidHostReady, ResumesTogether, Other, SyncInv, BaseInv, CoordInv,
     PhaseInv, HostInv, LoadInv, Loads
<1> QED  BY <1>1, <1>2, <1>3, <1>4, <1>5, <1>6, <1>7, <1>8

LEMMA StepStartMcSync ==
  ASSUME IInv, StartMcSync
  PROVE  IInv' /\ ResumesTogether /\ EndsWithSameFile
<1>1. TypeOK' /\ DidStartMcSync
  BY TypeStartMcSync, DoStartMcSync
<1>2. RunInv' /\ CardInv' /\ NetInv' /\ LoadInv'
  BY <1>1, TypeFacts DEF DidStartMcSync, RunInv, CardInv, NetInv, LoadInv, Loads
<1>3. HostInv'
  BY <1>1, TypeFacts DEF DidStartMcSync, HostInv, NetInv, RunInv, LoadInv, Loads
<1>4. PhaseInv'
  BY <1>1, TypeFacts DEF DidStartMcSync, PhaseInv, CardInv, HostInv, NetInv, LoadInv, Loads
<1>5. ClockInv'
  BY <1>1, TypeFacts DEF DidStartMcSync, ClockInv, PhaseInv, HostInv, LoadInv, Loads, Phases
<1>6. SyncInv'
  BY <1>1, TypeFacts DEF DidStartMcSync, SyncInv, CoordInv, TrackInv, BaseInv, PhaseInv,
     HostInv, LoadInv, Loads
<1>7. SaveInv' /\ EndsWithSameFile
  BY <1>1, TypeFacts DEF DidStartMcSync, SaveInv, EndsWithSameFile, PhaseInv, HostInv,
     SyncInv, CoordInv, RunInv
<1>8. ResumesTogether
  BY <1>1, TypeFacts DEF DidStartMcSync, ResumesTogether, Other, SyncInv, BaseInv, CoordInv,
     PhaseInv, HostInv, LoadInv, Loads
<1> QED  BY <1>1, <1>2, <1>3, <1>4, <1>5, <1>6, <1>7, <1>8

LEMMA StepRequestSave ==
  ASSUME IInv, RequestSave
  PROVE  IInv' /\ ResumesTogether /\ EndsWithSameFile
<1>1. TypeOK' /\ DidRequestSave
  BY TypeRequestSave, DoRequestSave
<1>2. RunInv' /\ CardInv' /\ NetInv' /\ LoadInv'
  BY <1>1, TypeFacts DEF DidRequestSave, RunInv, CardInv, NetInv, LoadInv, Loads
<1>3. HostInv'
  BY <1>1, TypeFacts DEF DidRequestSave, HostInv, NetInv, RunInv, LoadInv, Loads
<1>4. PhaseInv'
  BY <1>1, TypeFacts DEF DidRequestSave, PhaseInv, CardInv, HostInv, NetInv, LoadInv, Loads
<1>5. ClockInv'
  BY <1>1, TypeFacts DEF DidRequestSave, ClockInv, PhaseInv, HostInv, LoadInv, Loads, Phases
<1>6. SyncInv'
  BY <1>1, TypeFacts DEF DidRequestSave, SyncInv, CoordInv, TrackInv, BaseInv, PhaseInv,
     HostInv, LoadInv, Loads
<1>7. SaveInv' /\ EndsWithSameFile
  BY <1>1, TypeFacts DEF DidRequestSave, SaveInv, EndsWithSameFile, PhaseInv, HostInv,
     SyncInv, CoordInv, RunInv
<1>8. ResumesTogether
  BY <1>1, TypeFacts DEF DidRequestSave, ResumesTogether, Other, SyncInv, BaseInv, CoordInv,
     PhaseInv, HostInv, LoadInv, Loads
<1> QED  BY <1>1, <1>2, <1>3, <1>4, <1>5, <1>6, <1>7, <1>8

LEMMA StepRequestLoad ==
  ASSUME IInv, RequestLoad
  PROVE  IInv' /\ ResumesTogether /\ EndsWithSameFile
<1>1. TypeOK' /\ DidRequestLoad
  BY TypeRequestLoad, DoRequestLoad
<1>2. RunInv' /\ CardInv' /\ NetInv' /\ LoadInv'
  BY <1>1, TypeFacts DEF DidRequestLoad, RunInv, CardInv, NetInv, LoadInv, Loads
<1>3. HostInv'
  BY <1>1, TypeFacts DEF DidRequestLoad, HostInv, NetInv, RunInv, LoadInv, Loads
<1>4. PhaseInv'
  BY <1>1, TypeFacts DEF DidRequestLoad, PhaseInv, CardInv, HostInv, NetInv, LoadInv, Loads
<1>5. ClockInv'
  BY <1>1, TypeFacts DEF DidRequestLoad, ClockInv, PhaseInv, HostInv, LoadInv, Loads, Phases
<1>6. SyncInv'
  BY <1>1, TypeFacts DEF DidRequestLoad, SyncInv, CoordInv, TrackInv, BaseInv, PhaseInv,
     HostInv, LoadInv, Loads
<1>7. SaveInv' /\ EndsWithSameFile
  BY <1>1, TypeFacts DEF DidRequestLoad, SaveInv, EndsWithSameFile, PhaseInv, HostInv,
     SyncInv, CoordInv, RunInv
<1>8. ResumesTogether
  BY <1>1, TypeFacts DEF DidRequestLoad, ResumesTogether, Other, SyncInv, BaseInv, CoordInv,
     PhaseInv, HostInv, LoadInv, Loads
<1> QED  BY <1>1, <1>2, <1>3, <1>4, <1>5, <1>6, <1>7, <1>8

LEMMA StepAdmitApplyingHost ==
  ASSUME IInv, AdmitApplying(h)
  PROVE  IInv' /\ ResumesTogether /\ EndsWithSameFile
<1>1. TypeOK' /\ DidAdmitApplying(h)
  BY TypeAdmitApplying, DoAdmitApplying
<1>2. RunInv' /\ CardInv' /\ NetInv' /\ LoadInv'
  BY <1>1, TypeFacts DEF DidAdmitApplying, RunInv, CardInv, NetInv, LoadInv, Loads
<1>3. HostInv'
  BY <1>1, TypeFacts DEF DidAdmitApplying, HostInv, NetInv, RunInv, LoadInv, Loads
<1>4. PhaseInv'
  BY <1>1, TypeFacts DEF DidAdmitApplying, PhaseInv, CardInv, HostInv, NetInv, LoadInv, Loads
<1>5. ClockInv'
  BY <1>1, TypeFacts DEF DidAdmitApplying, ClockInv, PhaseInv, HostInv, LoadInv, Loads,
     Phases
<1>6. SyncInv'
  BY <1>1, TypeFacts DEF DidAdmitApplying, SyncInv, CoordInv, TrackInv, BaseInv, PhaseInv,
     HostInv, LoadInv, Loads
<1>7. SaveInv' /\ EndsWithSameFile
  BY <1>1, TypeFacts DEF DidAdmitApplying, SaveInv, EndsWithSameFile, PhaseInv, HostInv,
     SyncInv, CoordInv, RunInv
<1>8. ResumesTogether
  BY <1>1, TypeFacts DEF DidAdmitApplying, ResumesTogether, Other, SyncInv, BaseInv,
     CoordInv, PhaseInv, HostInv, LoadInv, Loads
<1> QED  BY <1>1, <1>2, <1>3, <1>4, <1>5, <1>6, <1>7, <1>8

LEMMA StepAdmitApplyingGuest ==
  ASSUME IInv, AdmitApplying(g)
  PROVE  IInv' /\ ResumesTogether /\ EndsWithSameFile
<1>1. TypeOK' /\ DidAdmitApplying(g)
  BY TypeAdmitApplying, DoAdmitApplying
<1>2. RunInv' /\ CardInv' /\ NetInv' /\ LoadInv'
  BY <1>1, TypeFacts DEF DidAdmitApplying, RunInv, CardInv, NetInv, LoadInv, Loads
<1>3. HostInv'
  BY <1>1, TypeFacts DEF DidAdmitApplying, HostInv, NetInv, RunInv, LoadInv, Loads
<1>4. PhaseInv'
  BY <1>1, TypeFacts DEF DidAdmitApplying, PhaseInv, CardInv, HostInv, NetInv, LoadInv, Loads
<1>5. ClockInv'
  BY <1>1, TypeFacts DEF DidAdmitApplying, ClockInv, PhaseInv, HostInv, LoadInv, Loads,
     Phases
<1>6. SyncInv'
  BY <1>1, TypeFacts DEF DidAdmitApplying, SyncInv, CoordInv, TrackInv, BaseInv, PhaseInv,
     HostInv, LoadInv, Loads
<1>7. SaveInv' /\ EndsWithSameFile
  BY <1>1, TypeFacts DEF DidAdmitApplying, SaveInv, EndsWithSameFile, PhaseInv, HostInv,
     SyncInv, CoordInv, RunInv
<1>8. ResumesTogether
  BY <1>1, TypeFacts DEF DidAdmitApplying, ResumesTogether, Other, SyncInv, BaseInv,
     CoordInv, PhaseInv, HostInv, LoadInv, Loads
<1> QED  BY <1>1, <1>2, <1>3, <1>4, <1>5, <1>6, <1>7, <1>8

LEMMA StepAdmitReadyHost ==
  ASSUME IInv, AdmitReady(h)
  PROVE  IInv' /\ ResumesTogether /\ EndsWithSameFile
<1>1. TypeOK' /\ DidAdmitReady(h)
  BY TypeAdmitReady, DoAdmitReady
<1>2. RunInv' /\ CardInv' /\ NetInv' /\ LoadInv'
  BY <1>1, TypeFacts DEF DidAdmitReady, RunInv, CardInv, NetInv, LoadInv, Loads
<1>3. HostInv'
  BY <1>1, TypeFacts DEF DidAdmitReady, HostInv, NetInv, RunInv, LoadInv, Loads
<1>4. PhaseInv'
  BY <1>1, TypeFacts DEF DidAdmitReady, PhaseInv, CardInv, HostInv, NetInv, LoadInv, Loads
<1>5. ClockInv'
  BY <1>1, TypeFacts DEF DidAdmitReady, ClockInv, PhaseInv, HostInv, LoadInv, Loads, Phases
<1>6. SyncInv'
  BY <1>1, TypeFacts DEF DidAdmitReady, SyncInv, CoordInv, TrackInv, BaseInv, PhaseInv,
     HostInv, LoadInv, Loads
<1>7. SaveInv' /\ EndsWithSameFile
  BY <1>1, TypeFacts DEF DidAdmitReady, SaveInv, EndsWithSameFile, PhaseInv, HostInv,
     SyncInv, CoordInv, RunInv
<1>8. ResumesTogether
  BY <1>1, TypeFacts DEF DidAdmitReady, ResumesTogether, Other, SyncInv, BaseInv, CoordInv,
     PhaseInv, HostInv, LoadInv, Loads
<1> QED  BY <1>1, <1>2, <1>3, <1>4, <1>5, <1>6, <1>7, <1>8

LEMMA StepAdmitReadyGuest ==
  ASSUME IInv, AdmitReady(g)
  PROVE  IInv' /\ ResumesTogether /\ EndsWithSameFile
<1>1. TypeOK' /\ DidAdmitReady(g)
  BY TypeAdmitReady, DoAdmitReady
<1>2. RunInv' /\ CardInv' /\ NetInv' /\ LoadInv'
  BY <1>1, TypeFacts DEF DidAdmitReady, RunInv, CardInv, NetInv, LoadInv, Loads
<1>3. HostInv'
  BY <1>1, TypeFacts DEF DidAdmitReady, HostInv, NetInv, RunInv, LoadInv, Loads
<1>4. PhaseInv'
  BY <1>1, TypeFacts DEF DidAdmitReady, PhaseInv, CardInv, HostInv, NetInv, LoadInv, Loads
<1>5. ClockInv'
  BY <1>1, TypeFacts DEF DidAdmitReady, ClockInv, PhaseInv, HostInv, LoadInv, Loads, Phases
<1>6. SyncInv'
  BY <1>1, TypeFacts DEF DidAdmitReady, SyncInv, CoordInv, TrackInv, BaseInv, PhaseInv,
     HostInv, LoadInv, Loads
<1>7. SaveInv' /\ EndsWithSameFile
  BY <1>1, TypeFacts DEF DidAdmitReady, SaveInv, EndsWithSameFile, PhaseInv, HostInv,
     SyncInv, CoordInv, RunInv
<1>8. ResumesTogether
  BY <1>1, TypeFacts DEF DidAdmitReady, ResumesTogether, Other, SyncInv, BaseInv, CoordInv,
     PhaseInv, HostInv, LoadInv, Loads
<1> QED  BY <1>1, <1>2, <1>3, <1>4, <1>5, <1>6, <1>7, <1>8

LEMMA StepAdmitCoordHost ==
  ASSUME IInv, AdmitCoord(h)
  PROVE  IInv' /\ ResumesTogether /\ EndsWithSameFile
<1>1. TypeOK' /\ DidAdmitCoord(h)
  BY TypeAdmitCoord, DoAdmitCoord
<1>2. RunInv' /\ CardInv' /\ NetInv' /\ LoadInv'
  BY <1>1, TypeFacts DEF DidAdmitCoord, RunInv, CardInv, NetInv, LoadInv, Loads
<1>3. HostInv'
  BY <1>1, TypeFacts DEF DidAdmitCoord, HostInv, NetInv, RunInv, LoadInv, Loads
<1>4. PhaseInv'
  BY <1>1, TypeFacts DEF DidAdmitCoord, PhaseInv, CardInv, HostInv, NetInv, LoadInv, Loads
<1>5. ClockInv'
  BY <1>1, TypeFacts DEF DidAdmitCoord, ClockInv, PhaseInv, HostInv, LoadInv, Loads, Phases
<1>6. SyncInv'
  BY <1>1, TypeFacts DEF DidAdmitCoord, SyncInv, CoordInv, TrackInv, BaseInv, PhaseInv,
     HostInv, LoadInv, Loads
<1>7. SaveInv' /\ EndsWithSameFile
  BY <1>1, TypeFacts DEF DidAdmitCoord, SaveInv, EndsWithSameFile, PhaseInv, HostInv,
     SyncInv, CoordInv, RunInv
<1>8. ResumesTogether
  BY <1>1, TypeFacts DEF DidAdmitCoord, ResumesTogether, Other, SyncInv, BaseInv, CoordInv,
     PhaseInv, HostInv, LoadInv, Loads
<1> QED  BY <1>1, <1>2, <1>3, <1>4, <1>5, <1>6, <1>7, <1>8

LEMMA StepAdmitCoordGuest ==
  ASSUME IInv, AdmitCoord(g)
  PROVE  IInv' /\ ResumesTogether /\ EndsWithSameFile
<1>1. TypeOK' /\ DidAdmitCoord(g)
  BY TypeAdmitCoord, DoAdmitCoord
<1>2. RunInv' /\ CardInv' /\ NetInv' /\ LoadInv'
  BY <1>1, TypeFacts DEF DidAdmitCoord, RunInv, CardInv, NetInv, LoadInv, Loads
<1>3. HostInv'
  BY <1>1, TypeFacts DEF DidAdmitCoord, HostInv, NetInv, RunInv, LoadInv, Loads
<1>4. PhaseInv'
  BY <1>1, TypeFacts DEF DidAdmitCoord, PhaseInv, CardInv, HostInv, NetInv, LoadInv, Loads
<1>5. ClockInv'
  BY <1>1, TypeFacts DEF DidAdmitCoord, ClockInv, PhaseInv, HostInv, LoadInv, Loads, Phases
<1>6. SyncInv'
  BY <1>1, TypeFacts DEF DidAdmitCoord, SyncInv, CoordInv, TrackInv, BaseInv, PhaseInv,
     HostInv, LoadInv, Loads
<1>7. SaveInv' /\ EndsWithSameFile
  BY <1>1, TypeFacts DEF DidAdmitCoord, SaveInv, EndsWithSameFile, PhaseInv, HostInv,
     SyncInv, CoordInv, RunInv
<1>8. ResumesTogether
  BY <1>1, TypeFacts DEF DidAdmitCoord, ResumesTogether, Other, SyncInv, BaseInv, CoordInv,
     PhaseInv, HostInv, LoadInv, Loads
<1> QED  BY <1>1, <1>2, <1>3, <1>4, <1>5, <1>6, <1>7, <1>8

LEMMA StepAdmitPlayHost ==
  ASSUME IInv, AdmitPlay(h)
  PROVE  IInv' /\ ResumesTogether /\ EndsWithSameFile
<1>1. TypeOK' /\ DidAdmitPlay(h)
  BY TypeAdmitPlay, DoAdmitPlay
<1>2. RunInv' /\ CardInv' /\ NetInv' /\ LoadInv'
  BY <1>1, TypeFacts DEF DidAdmitPlay, RunInv, CardInv, NetInv, LoadInv, Loads
<1>3. HostInv'
  BY <1>1, TypeFacts DEF DidAdmitPlay, HostInv, NetInv, RunInv, LoadInv, Loads
<1>4. PhaseInv'
  BY <1>1, TypeFacts DEF DidAdmitPlay, PhaseInv, CardInv, HostInv, NetInv, LoadInv, Loads
<1>5. ClockInv'
  BY <1>1, TypeFacts DEF DidAdmitPlay, ClockInv, PhaseInv, HostInv, LoadInv, Loads, Phases
<1>6. SyncInv'
  BY <1>1, TypeFacts DEF DidAdmitPlay, SyncInv, CoordInv, TrackInv, BaseInv, PhaseInv,
     HostInv, LoadInv, Loads
<1>7. SaveInv' /\ EndsWithSameFile
  BY <1>1, TypeFacts DEF DidAdmitPlay, SaveInv, EndsWithSameFile, PhaseInv, HostInv, SyncInv,
     CoordInv, RunInv
<1>8. ResumesTogether
  BY <1>1, TypeFacts DEF DidAdmitPlay, ResumesTogether, Other, SyncInv, BaseInv, CoordInv,
     PhaseInv, HostInv, LoadInv, Loads
<1> QED  BY <1>1, <1>2, <1>3, <1>4, <1>5, <1>6, <1>7, <1>8

LEMMA StepAdmitPlayGuest ==
  ASSUME IInv, AdmitPlay(g)
  PROVE  IInv' /\ ResumesTogether /\ EndsWithSameFile
<1>1. TypeOK' /\ DidAdmitPlay(g)
  BY TypeAdmitPlay, DoAdmitPlay
<1>2. RunInv' /\ CardInv' /\ NetInv' /\ LoadInv'
  BY <1>1, TypeFacts DEF DidAdmitPlay, RunInv, CardInv, NetInv, LoadInv, Loads
<1>3. HostInv'
  BY <1>1, TypeFacts DEF DidAdmitPlay, HostInv, NetInv, RunInv, LoadInv, Loads
<1>4. PhaseInv'
  BY <1>1, TypeFacts DEF DidAdmitPlay, PhaseInv, CardInv, HostInv, NetInv, LoadInv, Loads
<1>5. ClockInv'
  BY <1>1, TypeFacts DEF DidAdmitPlay, ClockInv, PhaseInv, HostInv, LoadInv, Loads, Phases
<1>6. SyncInv'
  BY <1>1, TypeFacts DEF DidAdmitPlay, SyncInv, CoordInv, TrackInv, BaseInv, PhaseInv,
     HostInv, LoadInv, Loads
<1>7. SaveInv' /\ EndsWithSameFile
  BY <1>1, TypeFacts DEF DidAdmitPlay, SaveInv, EndsWithSameFile, PhaseInv, HostInv, SyncInv,
     CoordInv, RunInv
<1>8. ResumesTogether
  BY <1>1, TypeFacts DEF DidAdmitPlay, ResumesTogether, Other, SyncInv, BaseInv, CoordInv,
     PhaseInv, HostInv, LoadInv, Loads
<1> QED  BY <1>1, <1>2, <1>3, <1>4, <1>5, <1>6, <1>7, <1>8

LEMMA StepSavePollHost ==
  ASSUME IInv, SavePoll(h)
  PROVE  IInv' /\ ResumesTogether /\ EndsWithSameFile
<1>1. TypeOK' /\ DidSavePoll(h)
  BY TypeSavePoll, DoSavePoll
<1>2. RunInv' /\ CardInv' /\ NetInv' /\ LoadInv'
  BY <1>1, TypeFacts DEF DidSavePoll, RunInv, CardInv, NetInv, LoadInv, Loads
<1>3. HostInv'
  BY <1>1, TypeFacts DEF DidSavePoll, HostInv, NetInv, RunInv, LoadInv, Loads
<1>4. PhaseInv'
  BY <1>1, TypeFacts DEF DidSavePoll, PhaseInv, CardInv, HostInv, NetInv, LoadInv, Loads
<1>5. ClockInv'
  BY <1>1, TypeFacts DEF DidSavePoll, ClockInv, PhaseInv, HostInv, LoadInv, Loads, Phases
<1>6. SyncInv'
  BY <1>1, TypeFacts DEF DidSavePoll, SyncInv, CoordInv, TrackInv, BaseInv, PhaseInv,
     HostInv, LoadInv, Loads
<1>7. SaveInv' /\ EndsWithSameFile
  BY <1>1, TypeFacts DEF DidSavePoll, SaveInv, EndsWithSameFile, PhaseInv, HostInv, SyncInv,
     CoordInv, RunInv
<1>8. ResumesTogether
  BY <1>1, TypeFacts DEF DidSavePoll, ResumesTogether, Other, SyncInv, BaseInv, CoordInv,
     PhaseInv, HostInv, LoadInv, Loads
<1> QED  BY <1>1, <1>2, <1>3, <1>4, <1>5, <1>6, <1>7, <1>8

LEMMA StepSavePollGuest ==
  ASSUME IInv, SavePoll(g)
  PROVE  IInv' /\ ResumesTogether /\ EndsWithSameFile
<1>1. TypeOK' /\ DidSavePoll(g)
  BY TypeSavePoll, DoSavePoll
<1>2. RunInv' /\ CardInv' /\ NetInv' /\ LoadInv'
  BY <1>1, TypeFacts DEF DidSavePoll, RunInv, CardInv, NetInv, LoadInv, Loads
<1>3. HostInv'
  BY <1>1, TypeFacts DEF DidSavePoll, HostInv, NetInv, RunInv, LoadInv, Loads
<1>4. PhaseInv'
  BY <1>1, TypeFacts DEF DidSavePoll, PhaseInv, CardInv, HostInv, NetInv, LoadInv, Loads
<1>5. ClockInv'
  BY <1>1, TypeFacts DEF DidSavePoll, ClockInv, PhaseInv, HostInv, LoadInv, Loads, Phases
<1>6. SyncInv'
  BY <1>1, TypeFacts DEF DidSavePoll, SyncInv, CoordInv, TrackInv, BaseInv, PhaseInv,
     HostInv, LoadInv, Loads
<1>7. SaveInv' /\ EndsWithSameFile
  BY <1>1, TypeFacts DEF DidSavePoll, SaveInv, EndsWithSameFile, PhaseInv, HostInv, SyncInv,
     CoordInv, RunInv
<1>8. ResumesTogether
  BY <1>1, TypeFacts DEF DidSavePoll, ResumesTogether, Other, SyncInv, BaseInv, CoordInv,
     PhaseInv, HostInv, LoadInv, Loads
<1> QED  BY <1>1, <1>2, <1>3, <1>4, <1>5, <1>6, <1>7, <1>8

LEMMA StepLoadPollHost ==
  ASSUME IInv, LoadPoll(h)
  PROVE  IInv' /\ ResumesTogether /\ EndsWithSameFile
<1>1. TypeOK' /\ DidLoadPoll(h)
  BY TypeLoadPoll, DoLoadPoll
<1>2. RunInv' /\ CardInv' /\ NetInv' /\ LoadInv'
  BY <1>1, TypeFacts DEF DidLoadPoll, RunInv, CardInv, NetInv, LoadInv, Loads
<1>3. HostInv'
  BY <1>1, TypeFacts DEF DidLoadPoll, HostInv, NetInv, RunInv, LoadInv, Loads
<1>4. PhaseInv'
  BY <1>1, TypeFacts DEF DidLoadPoll, PhaseInv, CardInv, HostInv, NetInv, LoadInv, Loads
<1>5. ClockInv'
  BY <1>1, TypeFacts DEF DidLoadPoll, ClockInv, PhaseInv, HostInv, LoadInv, Loads, Phases
<1>6. SyncInv'
  BY <1>1, TypeFacts DEF DidLoadPoll, SyncInv, CoordInv, TrackInv, BaseInv, PhaseInv,
     HostInv, LoadInv, Loads
<1>7. SaveInv' /\ EndsWithSameFile
  BY <1>1, TypeFacts DEF DidLoadPoll, SaveInv, EndsWithSameFile, PhaseInv, HostInv, SyncInv,
     CoordInv, RunInv
<1>8. ResumesTogether
  BY <1>1, TypeFacts DEF DidLoadPoll, ResumesTogether, Other, SyncInv, BaseInv, CoordInv,
     PhaseInv, HostInv, LoadInv, Loads
<1> QED  BY <1>1, <1>2, <1>3, <1>4, <1>5, <1>6, <1>7, <1>8

LEMMA StepLoadPollGuest ==
  ASSUME IInv, LoadPoll(g)
  PROVE  IInv' /\ ResumesTogether /\ EndsWithSameFile
<1>1. TypeOK' /\ DidLoadPoll(g)
  BY TypeLoadPoll, DoLoadPoll
<1>2. RunInv' /\ CardInv' /\ NetInv' /\ LoadInv'
  BY <1>1, TypeFacts DEF DidLoadPoll, RunInv, CardInv, NetInv, LoadInv, Loads
<1>3. HostInv'
  BY <1>1, TypeFacts DEF DidLoadPoll, HostInv, NetInv, RunInv, LoadInv, Loads
<1>4. PhaseInv'
  BY <1>1, TypeFacts DEF DidLoadPoll, PhaseInv, CardInv, HostInv, NetInv, LoadInv, Loads
<1>5. ClockInv'
  BY <1>1, TypeFacts DEF DidLoadPoll, ClockInv, PhaseInv, HostInv, LoadInv, Loads, Phases
<1>6. SyncInv'
  BY <1>1, TypeFacts DEF DidLoadPoll, SyncInv, CoordInv, TrackInv, BaseInv, PhaseInv,
     HostInv, LoadInv, Loads
<1>7. SaveInv' /\ EndsWithSameFile
  BY <1>1, TypeFacts DEF DidLoadPoll, SaveInv, EndsWithSameFile, PhaseInv, HostInv, SyncInv,
     CoordInv, RunInv
<1>8. ResumesTogether
  BY <1>1, TypeFacts DEF DidLoadPoll, ResumesTogether, Other, SyncInv, BaseInv, CoordInv,
     PhaseInv, HostInv, LoadInv, Loads
<1> QED  BY <1>1, <1>2, <1>3, <1>4, <1>5, <1>6, <1>7, <1>8

LEMMA StepLoadPollFailsHost ==
  ASSUME IInv, LoadPollFails(h)
  PROVE  IInv' /\ ResumesTogether /\ EndsWithSameFile
<1>1. TypeOK' /\ DidLoadPollFails(h)
  BY TypeLoadPollFails, DoLoadPollFails
<1>2. RunInv' /\ CardInv' /\ NetInv' /\ LoadInv'
  BY <1>1, TypeFacts DEF DidLoadPollFails, RunInv, CardInv, NetInv, LoadInv, Loads
<1>3. HostInv'
  BY <1>1, TypeFacts DEF DidLoadPollFails, HostInv, NetInv, RunInv, LoadInv, Loads
<1>4. PhaseInv'
  BY <1>1, TypeFacts DEF DidLoadPollFails, PhaseInv, CardInv, HostInv, NetInv, LoadInv, Loads
<1>5. ClockInv'
  BY <1>1, TypeFacts DEF DidLoadPollFails, ClockInv, PhaseInv, HostInv, LoadInv, Loads,
     Phases
<1>6. SyncInv'
  BY <1>1, TypeFacts DEF DidLoadPollFails, SyncInv, CoordInv, TrackInv, BaseInv, PhaseInv,
     HostInv, LoadInv, Loads
<1>7. SaveInv' /\ EndsWithSameFile
  BY <1>1, TypeFacts DEF DidLoadPollFails, SaveInv, EndsWithSameFile, PhaseInv, HostInv,
     SyncInv, CoordInv, RunInv
<1>8. ResumesTogether
  BY <1>1, TypeFacts DEF DidLoadPollFails, ResumesTogether, Other, SyncInv, BaseInv,
     CoordInv, PhaseInv, HostInv, LoadInv, Loads
<1> QED  BY <1>1, <1>2, <1>3, <1>4, <1>5, <1>6, <1>7, <1>8

LEMMA StepLoadPollFailsGuest ==
  ASSUME IInv, LoadPollFails(g)
  PROVE  IInv' /\ ResumesTogether /\ EndsWithSameFile
<1>1. TypeOK' /\ DidLoadPollFails(g)
  BY TypeLoadPollFails, DoLoadPollFails
<1>2. RunInv' /\ CardInv' /\ NetInv' /\ LoadInv'
  BY <1>1, TypeFacts DEF DidLoadPollFails, RunInv, CardInv, NetInv, LoadInv, Loads
<1>3. HostInv'
  BY <1>1, TypeFacts DEF DidLoadPollFails, HostInv, NetInv, RunInv, LoadInv, Loads
<1>4. PhaseInv'
  BY <1>1, TypeFacts DEF DidLoadPollFails, PhaseInv, CardInv, HostInv, NetInv, LoadInv, Loads
<1>5. ClockInv'
  BY <1>1, TypeFacts DEF DidLoadPollFails, ClockInv, PhaseInv, HostInv, LoadInv, Loads,
     Phases
<1>6. SyncInv'
  BY <1>1, TypeFacts DEF DidLoadPollFails, SyncInv, CoordInv, TrackInv, BaseInv, PhaseInv,
     HostInv, LoadInv, Loads
<1>7. SaveInv' /\ EndsWithSameFile
  BY <1>1, TypeFacts DEF DidLoadPollFails, SaveInv, EndsWithSameFile, PhaseInv, HostInv,
     SyncInv, CoordInv, RunInv
<1>8. ResumesTogether
  BY <1>1, TypeFacts DEF DidLoadPollFails, ResumesTogether, Other, SyncInv, BaseInv,
     CoordInv, PhaseInv, HostInv, LoadInv, Loads
<1> QED  BY <1>1, <1>2, <1>3, <1>4, <1>5, <1>6, <1>7, <1>8

LEMMA StepFinishFrameHost ==
  ASSUME IInv, FinishFrame(h)
  PROVE  IInv' /\ ResumesTogether /\ EndsWithSameFile
<1>1. TypeOK' /\ DidFinishFrame(h)
  BY TypeFinishFrame, DoFinishFrame
<1>2. RunInv' /\ CardInv' /\ NetInv' /\ LoadInv'
  BY <1>1, TypeFacts DEF DidFinishFrame, RunInv, CardInv, NetInv, LoadInv, Loads
<1>3. HostInv'
  BY <1>1, TypeFacts DEF DidFinishFrame, HostInv, NetInv, RunInv, LoadInv, Loads
<1>4. PhaseInv'
  BY <1>1, TypeFacts DEF DidFinishFrame, PhaseInv, CardInv, HostInv, NetInv, LoadInv, Loads
<1>5. ClockInv'
  BY <1>1, TypeFacts DEF DidFinishFrame, ClockInv, PhaseInv, HostInv, LoadInv, Loads, Phases
<1>6. SyncInv'
  BY <1>1, TypeFacts DEF DidFinishFrame, SyncInv, CoordInv, TrackInv, BaseInv, PhaseInv,
     HostInv, LoadInv, Loads
<1>7. SaveInv' /\ EndsWithSameFile
  BY <1>1, TypeFacts DEF DidFinishFrame, SaveInv, EndsWithSameFile, PhaseInv, HostInv,
     SyncInv, CoordInv, RunInv
<1>8. ResumesTogether
  BY <1>1, TypeFacts DEF DidFinishFrame, ResumesTogether, Other, SyncInv, BaseInv, CoordInv,
     PhaseInv, HostInv, LoadInv, Loads
<1> QED  BY <1>1, <1>2, <1>3, <1>4, <1>5, <1>6, <1>7, <1>8

LEMMA StepFinishFrameGuest ==
  ASSUME IInv, FinishFrame(g)
  PROVE  IInv' /\ ResumesTogether /\ EndsWithSameFile
<1>1. TypeOK' /\ DidFinishFrame(g)
  BY TypeFinishFrame, DoFinishFrame
<1>2. RunInv' /\ CardInv' /\ NetInv' /\ LoadInv'
  BY <1>1, TypeFacts DEF DidFinishFrame, RunInv, CardInv, NetInv, LoadInv, Loads
<1>3. HostInv'
  BY <1>1, TypeFacts DEF DidFinishFrame, HostInv, NetInv, RunInv, LoadInv, Loads
<1>4. PhaseInv'
  BY <1>1, TypeFacts DEF DidFinishFrame, PhaseInv, CardInv, HostInv, NetInv, LoadInv, Loads
<1>5. ClockInv'
  BY <1>1, TypeFacts DEF DidFinishFrame, ClockInv, PhaseInv, HostInv, LoadInv, Loads, Phases
<1>6. SyncInv'
  BY <1>1, TypeFacts DEF DidFinishFrame, SyncInv, CoordInv, TrackInv, BaseInv, PhaseInv,
     HostInv, LoadInv, Loads
<1>7. SaveInv' /\ EndsWithSameFile
  BY <1>1, TypeFacts DEF DidFinishFrame, SaveInv, EndsWithSameFile, PhaseInv, HostInv,
     SyncInv, CoordInv, RunInv
<1>8. ResumesTogether
  BY <1>1, TypeFacts DEF DidFinishFrame, ResumesTogether, Other, SyncInv, BaseInv, CoordInv,
     PhaseInv, HostInv, LoadInv, Loads
<1> QED  BY <1>1, <1>2, <1>3, <1>4, <1>5, <1>6, <1>7, <1>8

LEMMA StepShutdownHost ==
  ASSUME IInv, Waiting(h), Shutdown(h)
  PROVE  IInv' /\ ResumesTogether /\ EndsWithSameFile
<1>1. TypeOK' /\ DidShutdown(h)
  BY TypeShutdown, DoShutdown
<1>2. RunInv' /\ CardInv' /\ NetInv' /\ LoadInv'
  BY <1>1, TypeFacts DEF DidShutdown, RunInv, CardInv, NetInv, LoadInv, Loads
<1>3. HostInv'
  BY <1>1, TypeFacts DEF DidShutdown, HostInv, NetInv, RunInv, LoadInv, Loads
<1>4. PhaseInv'
  BY <1>1, TypeFacts DEF DidShutdown, PhaseInv, CardInv, HostInv, NetInv, LoadInv, Loads
<1>5. ClockInv'
  BY <1>1, TypeFacts DEF DidShutdown, ClockInv, PhaseInv, HostInv, LoadInv, Loads, Phases
<1>6. SyncInv'
  BY <1>1, TypeFacts DEF DidShutdown, SyncInv, CoordInv, TrackInv, BaseInv, PhaseInv,
     HostInv, LoadInv, Loads
<1>7. SaveInv' /\ EndsWithSameFile
  BY <1>1, TypeFacts DEF DidShutdown, SaveInv, EndsWithSameFile, PhaseInv, HostInv, SyncInv,
     CoordInv, RunInv
<1>8. ResumesTogether
  BY <1>1, TypeFacts DEF DidShutdown, ResumesTogether, Other, SyncInv, BaseInv, CoordInv,
     PhaseInv, HostInv, LoadInv, Loads
<1> QED  BY <1>1, <1>2, <1>3, <1>4, <1>5, <1>6, <1>7, <1>8

LEMMA StepShutdownGuest ==
  ASSUME IInv, Waiting(g), Shutdown(g)
  PROVE  IInv' /\ ResumesTogether /\ EndsWithSameFile
<1>1. TypeOK' /\ DidShutdown(g)
  BY TypeShutdown, DoShutdown
<1>2. RunInv' /\ CardInv' /\ NetInv' /\ LoadInv'
  BY <1>1, TypeFacts DEF DidShutdown, RunInv, CardInv, NetInv, LoadInv, Loads
<1>3. HostInv'
  BY <1>1, TypeFacts DEF DidShutdown, HostInv, NetInv, RunInv, LoadInv, Loads
<1>4. PhaseInv'
  BY <1>1, TypeFacts DEF DidShutdown, PhaseInv, CardInv, HostInv, NetInv, LoadInv, Loads
<1>5. ClockInv'
  BY <1>1, TypeFacts DEF DidShutdown, ClockInv, PhaseInv, HostInv, LoadInv, Loads, Phases
<1>6. SyncInv'
  BY <1>1, TypeFacts DEF DidShutdown, SyncInv, CoordInv, TrackInv, BaseInv, PhaseInv,
     HostInv, LoadInv, Loads
<1>7. SaveInv' /\ EndsWithSameFile
  BY <1>1, TypeFacts DEF DidShutdown, SaveInv, EndsWithSameFile, PhaseInv, HostInv, SyncInv,
     CoordInv, RunInv
<1>8. ResumesTogether
  BY <1>1, TypeFacts DEF DidShutdown, ResumesTogether, Other, SyncInv, BaseInv, CoordInv,
     PhaseInv, HostInv, LoadInv, Loads
<1> QED  BY <1>1, <1>2, <1>3, <1>4, <1>5, <1>6, <1>7, <1>8

-----------------------------------------------------------------------------
(* The initial states *)

LEMMA InitTypes ==
  ASSUME Init
  PROVE  TypeOK
<1>1. NoExchange \in Exchanges
  BY DEF NoExchange, Exchanges, Phases
<1>2. ColdMachine \in Machines
  BY DEF ColdMachine, Machines
<1>3. FreshSession \in Sessions
  <2>1. NoTx \in [item : Items, st : {"none", "sending", "arrived", "ready"}]
    BY NoneTypes DEF NoTx
  <2> QED  BY <2>1, NoneTypes DEF FreshSession, Sessions
<1>4. PICK s \in OldStates : ss = [p \in Peers |-> NothingStaged(s[p])]
  BY DEF Init
<1>5. \A p \in Peers : s[p] \in Seq(Nat)
  BY SyncAssumption
<1>6. \A p \in Peers : NothingStaged(s[p]) \in Stagings
  BY <1>5, NoneTypes DEF NothingStaged, Stagings
<1>7. ss \in [Peers -> Stagings]
  BY <1>4, <1>6
<1>8. np \in [Peers -> Exchanges] /\ vm \in [Peers -> Machines] /\ net \in Sessions
  BY <1>1, <1>2, <1>3 DEF Init
<1>9. /\ active \in [Peers -> BOOLEAN] /\ card \in [Peers -> Cards] /\ broken \subseteq Faults
      /\ mode \in Modes /\ haste \in BOOLEAN /\ ops \in 0..MaxOps
  BY SyncAssumption DEF Init
<1>10. /\ np[g].xfer \notin {"mc_probe", "mc_send", "save_probe", "load_probe"}
       /\ \A p \in Peers : vm[p].adv => vm[p].run
  BY DEF Init, NoExchange, ColdMachine
<1> QED  BY <1>7, <1>8, <1>9, <1>10 DEF TypeOK

LEMMA InitInvariant ==
  ASSUME Init
  PROVE  IInv
<1>1. \A p \in Peers :
        /\ active[p] = TRUE /\ np[p].xfer = "none" /\ ~np[p].mc /\ ~np[p].failed
        /\ ~np[p].synced /\ ~vm[p].run /\ ~vm[p].adv /\ vm[p].sim = 0 /\ vm[p].age = 0
        /\ vm[p].base = <<>>
  BY DEF Init, NoExchange, ColdMachine
<1>2. \A p \in Peers :
        ss[p].save = "no" /\ ~ss[p].load /\ ss[p].blob = NoBlob /\ ~ss[p].done /\ ~ss[p].sfail
  BY DEF Init, NothingStaged
<1>3. /\ net.probe = NoProbe /\ net.seen = NoProbe /\ net.reply = "none" /\ net.tx = NoTx
      /\ net.rx = NoRx
  BY DEF Init, FreshSession
<1>4. RunInv /\ CardInv /\ NetInv /\ LoadInv
  BY <1>1, <1>2, <1>3 DEF RunInv, CardInv, NetInv, LoadInv, Loads
<1>5. HostInv /\ PhaseInv /\ ClockInv /\ SaveInv
  BY <1>1, <1>2, <1>3 DEF HostInv, PhaseInv, ClockInv, SaveInv
<1>6. SyncInv
  BY <1>1, <1>2, <1>3 DEF SyncInv, CoordInv, TrackInv, BaseInv
<1> QED  BY <1>4, <1>5, <1>6, InitTypes

-----------------------------------------------------------------------------
(* What could not start.  The phases, clocks and machines are then left open. *)

LEMMA AfterRefusal ==
  ASSUME "start" \in broken' \/ "ready" \in broken'
  PROVE  PhaseInv' /\ ClockInv' /\ SyncInv' /\ SaveInv' /\ ResumesTogether /\ EndsWithSameFile
<1>1. ~AllStarted' /\ broken' # {}
  OBVIOUS
<1>2. ~Both'
  BY <1>1
<1>3. PhaseInv' /\ ClockInv' /\ SyncInv' /\ SaveInv'
  BY <1>1, <1>2 DEF PhaseInv, ClockInv, SyncInv, SaveInv
<1>4. ResumesTogether /\ EndsWithSameFile
  BY <1>1 DEF ResumesTogether, EndsWithSameFile
<1> QED  BY <1>3, <1>4

LEMMA StepGuestDropsLoad ==
  ASSUME IInv, GuestDropsLoad
  PROVE  IInv' /\ ResumesTogether /\ EndsWithSameFile
<1>1. TypeOK' /\ DidGuestDropsLoad
  BY TypeGuestDropsLoad, DoGuestDropsLoad
<1>2. RunInv' /\ CardInv' /\ NetInv' /\ LoadInv'
  BY <1>1, TypeFacts DEF DidGuestDropsLoad, RunInv, CardInv, NetInv, LoadInv, Loads
<1>3. HostInv'
  BY <1>1, TypeFacts DEF DidGuestDropsLoad, HostInv, NetInv, RunInv, LoadInv, Loads
<1>4. "start" \in broken' \/ "ready" \in broken'
  BY <1>1 DEF DidGuestDropsLoad
<1> QED  BY <1>1, <1>2, <1>3, <1>4, AfterRefusal

LEMMA StepHostRefused ==
  ASSUME IInv, HostSendsNothing \/ HostSaveUnprobed
  PROVE  IInv' /\ ResumesTogether /\ EndsWithSameFile
<1>1. TypeOK' /\ DidHostRefused
  BY TypeHostRefused, DoHostRefused
<1>2. RunInv' /\ CardInv' /\ NetInv' /\ LoadInv'
  BY <1>1, TypeFacts DEF DidHostRefused, RunInv, CardInv, NetInv, LoadInv, Loads
<1>3. HostInv'
  BY <1>1, TypeFacts DEF DidHostRefused, HostInv, NetInv, RunInv, LoadInv, Loads
<1>4. "start" \in broken' \/ "ready" \in broken'
  BY <1>1 DEF DidHostRefused
<1> QED  BY <1>1, <1>2, <1>3, <1>4, AfterRefusal

LEMMA StepNoReadyProbe ==
  ASSUME IInv, NoReadyProbe
  PROVE  IInv' /\ ResumesTogether /\ EndsWithSameFile
<1>1. TypeOK' /\ DidNoReadyProbe
  BY TypeNoReadyProbe, DoNoReadyProbe
<1>2. RunInv' /\ CardInv' /\ NetInv' /\ LoadInv'
  BY <1>1, TypeFacts DEF DidNoReadyProbe, RunInv, CardInv, NetInv, LoadInv, Loads
<1>3. HostInv'
  BY <1>1, TypeFacts DEF DidNoReadyProbe, HostInv, NetInv, RunInv, LoadInv, Loads
<1>4. "start" \in broken' \/ "ready" \in broken'
  BY <1>1 DEF DidNoReadyProbe
<1> QED  BY <1>1, <1>2, <1>3, <1>4, AfterRefusal

LEMMA StepMcSyncSkipped ==
  ASSUME IInv, McSyncSkipped
  PROVE  IInv' /\ ResumesTogether /\ EndsWithSameFile
<1>1. TypeOK' /\ DidMcSyncSkipped
  BY TypeMcSyncSkipped, DoMcSyncSkipped
<1>2. RunInv' /\ CardInv' /\ NetInv' /\ LoadInv'
  BY <1>1, TypeFacts DEF DidMcSyncSkipped, RunInv, CardInv, NetInv, LoadInv, Loads
<1>3. HostInv'
  BY <1>1, TypeFacts DEF DidMcSyncSkipped, HostInv, NetInv, RunInv, LoadInv, Loads
<1>4. "start" \in broken' \/ "ready" \in broken'
  BY <1>1 DEF DidMcSyncSkipped
<1> QED  BY <1>1, <1>2, <1>3, <1>4, AfterRefusal

-----------------------------------------------------------------------------
(* Every step *)

Kept == IInv' /\ ResumesTogether /\ EndsWithSameFile

LEMMA StepStutter ==
  ASSUME IInv, UNCHANGED vars
  PROVE  Kept
<1>1. /\ active' = active /\ np' = np /\ ss' = ss /\ vm' = vm /\ card' = card /\ net' = net
      /\ mode' = mode /\ haste' = haste /\ ops' = ops /\ broken' = broken
  BY DEF vars, env
<1>2. TypeOK'
  BY <1>1 DEF TypeOK
<1>3. RunInv' /\ CardInv' /\ NetInv' /\ LoadInv' /\ HostInv' /\ ClockInv'
  BY <1>1 DEF RunInv, CardInv, NetInv, LoadInv, Loads, HostInv, ClockInv
<1>4. PhaseInv' /\ SaveInv'
  BY <1>1 DEF PhaseInv, SaveInv
<1>5. SyncInv'
  BY <1>1 DEF SyncInv, CoordInv, TrackInv, BaseInv, LoadSource
<1>6. ResumesTogether /\ EndsWithSameFile
  BY <1>1 DEF ResumesTogether, EndsWithSameFile
<1> QED  BY <1>2, <1>3, <1>4, <1>5, <1>6 DEF Kept

LEMMA GuestStep ==
  ASSUME IInv, GuestProbe \/ GuestTakes
  PROVE  Kept
<1>1. CASE GuestReady
  BY <1>1, StepGuestReadyNow, StepGuestReadyAgain DEF Kept
<1>2. CASE GuestCoordArm
  BY <1>2, StepGuestCoordArm DEF Kept
<1>3. CASE GuestCoordFailed
  BY <1>3, StepGuestCoordFailed DEF Kept
<1>4. CASE GuestCoordAck
  BY <1>4, StepGuestCoordAck DEF Kept
<1>5. CASE GuestCard
  BY <1>5, StepGuestCard DEF Kept
<1>6. CASE GuestHashSave
  BY <1>6, StepGuestHashSave DEF Kept
<1>7. CASE GuestHashLoad
  BY <1>7, StepGuestHashMiss, StepGuestHashStage, StepGuestHashKnown DEF Kept
<1>8. CASE GuestTakesCard
  BY <1>8, StepGuestRefusesCard, StepGuestTakesCard DEF Kept
<1>9. CASE GuestTakesSave
  BY <1>9, StepGuestTakesSave DEF Kept
<1>10. CASE GuestTakesLoad
  BY <1>10, StepGuestTakesLoad DEF Kept
<1>11. CASE GuestDropsLoad
  BY <1>11, StepGuestDropsLoad DEF Kept
<1> QED
  BY <1>1, <1>2, <1>3, <1>4, <1>5, <1>6, <1>7, <1>8, <1>9, <1>10, <1>11
     DEF GuestProbe, GuestTakes

LEMMA HostStep ==
  ASSUME IInv, HostDrive
  PROVE  Kept
<1>1. CASE HostTransferDone
  <2>1. net.tx.item.op \in {"mc", "save", "load"}
    BY <1>1 DEF HostTransferDone
  <2> QED  BY <1>1, <2>1, StepHostSentCard, StepHostSentSave, StepHostSentLoad DEF Kept
<1>2. CASE HostCardProbed
  BY <1>2, StepHostCardMatch, StepHostCardMiss DEF Kept
<1>3. CASE HostCoordAbort
  BY <1>3, StepHostCoordAbort DEF Kept
<1>4. CASE HostCoordDone
  BY <1>4, StepHostCoordDone DEF Kept
<1>5. CASE HostSaveProbed
  BY <1>5, StepHostSaveMatch, StepHostSaveMiss DEF Kept
<1>6. CASE HostLoadProbed
  BY <1>6, StepHostLoadMatch, StepHostLoadMiss DEF Kept
<1>7. CASE HostReady
  BY <1>7, StepHostReady DEF Kept
<1>8. CASE StartMcSync
  BY <1>8, StepStartMcSync DEF Kept
<1>9. CASE HostSendsNothing \/ HostSaveUnprobed
  BY <1>9, StepHostRefused DEF Kept
<1>10. CASE NoReadyProbe
  BY <1>10, StepNoReadyProbe DEF Kept
<1>11. CASE McSyncSkipped
  BY <1>11, StepMcSyncSkipped DEF Kept
<1> QED
  BY <1>1, <1>2, <1>3, <1>4, <1>5, <1>6, <1>7, <1>8, <1>9, <1>10, <1>11 DEF HostDrive

LEMMA PumpStep ==
  ASSUME IInv, NEW p \in Peers, Pump(p)
  PROVE  Kept
<1>1. CASE StageSave(p)
  BY <1>1, StepStageSaveHost, StepStageSaveGuest DEF Kept
<1>2. CASE LoadBarrierDone(p)
  BY <1>2, StepHostLoaded, StepGuestLoaded DEF Kept
<1>3. CASE LoadBarrierFailed(p)
  BY <1>3, StepLoadBarrierFailedHost, StepLoadBarrierFailedGuest DEF Kept
<1>4. CASE p = g /\ (GuestProbe \/ GuestTakes)
  BY <1>4, GuestStep
<1>5. CASE p = h /\ HostDrive
  BY <1>5, HostStep
<1> QED  BY <1>1, <1>2, <1>3, <1>4, <1>5 DEF Pump

LEMMA FrameStep ==
  ASSUME IInv, NEW p \in Peers,
         Admit(p) \/ Poll(p) \/ FinishFrame(p) \/ SoftExit(p) \/ Leave(p)
  PROVE  Kept
<1>1. CASE AdmitApplying(p)
  BY <1>1, StepAdmitApplyingHost, StepAdmitApplyingGuest DEF Kept
<1>2. CASE AdmitReady(p)
  BY <1>2, StepAdmitReadyHost, StepAdmitReadyGuest DEF Kept
<1>3. CASE AdmitCoord(p)
  BY <1>3, StepAdmitCoordHost, StepAdmitCoordGuest DEF Kept
<1>4. CASE AdmitPlay(p)
  BY <1>4, StepAdmitPlayHost, StepAdmitPlayGuest DEF Kept
<1>5. CASE SavePoll(p)
  BY <1>5, StepSavePollHost, StepSavePollGuest DEF Kept
<1>6. CASE LoadPoll(p)
  BY <1>6, StepLoadPollHost, StepLoadPollGuest DEF Kept
<1>7. CASE LoadPollFails(p)
  BY <1>7, StepLoadPollFailsHost, StepLoadPollFailsGuest DEF Kept
<1>8. CASE FinishFrame(p)
  BY <1>8, StepFinishFrameHost, StepFinishFrameGuest DEF Kept
<1>9. CASE SoftExit(p) \/ Leave(p)
  <2>1. Waiting(p) /\ Shutdown(p)
    BY <1>9 DEF SoftExit, Leave
  <2> QED  BY <2>1, StepShutdownHost, StepShutdownGuest DEF Kept
<1> QED
  BY <1>1, <1>2, <1>3, <1>4, <1>5, <1>6, <1>7, <1>8, <1>9 DEF Admit, Poll

LEMMA NextStep ==
  ASSUME IInv, [Next]_vars
  PROVE  Kept
<1>1. CASE UNCHANGED vars
  BY <1>1, StepStutter
<1>2. CASE Deliver
  BY <1>2, StepDeliverProbe, StepDeliverChunks, StepDeliverAck DEF Kept, Deliver
<1>3. CASE RequestSave
  BY <1>3, StepRequestSave DEF Kept
<1>4. CASE RequestLoad
  BY <1>4, StepRequestLoad DEF Kept
<1>5. ASSUME NEW p \in Peers,
             Pump(p) \/ Admit(p) \/ Poll(p) \/ FinishFrame(p) \/ SoftExit(p) \/ Leave(p)
      PROVE  Kept
  BY <1>5, PumpStep, FrameStep
<1> QED  BY <1>1, <1>2, <1>3, <1>4, <1>5 DEF Next

-----------------------------------------------------------------------------
(* A save the host gives up *)

\* The host is out of the exchange and the probe that started it is still out.
Orphaned == np[h].xfer = "none" /\ net.probe.op = "coord"

\* What a step may do to it while the host stays in the match.
StaysOrphaned ==
    (HostCoordAbort \/ Orphaned) /\ active[h] /\ active'[h] => Orphaned' /\ ops' = ops

LEMMA GuestLeavesProbe ==
  ASSUME TypeOK, GuestProbe \/ GuestTakes
  PROVE  np'[h] = np[h] /\ net'.probe = net.probe /\ ops' = ops
<1>1. net \in Sessions /\ np \in [Peers -> Exchanges]
  BY TypeParts
<1>2. /\ \A m \in BOOLEAN : Answer(m).probe = net.probe
      /\ GuestFinish.probe = net.probe
  BY <1>1 DEF Answer, GuestFinish, Sessions
<1>3. /\ net' = net \/ net' = GuestFinish \/ \E m \in BOOLEAN : net' = Answer(m)
      /\ ops' = ops
  BY DEF GuestProbe, GuestTakes, GuestReady, GuestCoordArm, GuestCoordFailed, GuestCoordAck,
         GuestCard, GuestHashSave, GuestHashLoad, GuestTakesCard, GuestTakesSave,
         GuestTakesLoad, GuestDropsLoad, SlotMatches
<1>4. np'[h] = np[h]
  BY <1>1 DEF GuestProbe, GuestTakes, GuestReady, GuestCoordArm, GuestCoordFailed,
         GuestCoordAck, GuestCard, GuestHashSave, GuestHashLoad, GuestTakesCard,
         GuestTakesSave, GuestTakesLoad, GuestDropsLoad
<1> QED  BY <1>2, <1>3, <1>4

\* Nothing the host's pump or its keys do touches an orphaned probe.
LEMMA OrphanIsIdle ==
  ASSUME IInv, active[h], Orphaned
  PROVE  ~HostDrive /\ ~RequestSave /\ ~RequestLoad
<1>1. np[h].xfer = "none" /\ net.probe.op = "coord" /\ net.probe # NoProbe
  BY DEF Orphaned, NoProbe
<1>2. net.tx.item.op \notin {"mc", "save", "load"}
  BY <1>1 DEF HostInv
<1>3. net.tx.st # "ready"
  <2>1. net.tx.item.op \in {"none", "mc", "save", "load"}
    BY TypeParts DEF Sessions, Items
  <2> QED  BY <1>2, <2>1 DEF NetInv
<1>4. Busy
  BY <1>1 DEF Busy
<1>5. ~HostTransferDone /\ ~StartMcSync /\ ~McSyncSkipped
  BY <1>3, <1>4 DEF HostTransferDone, StartMcSync, McSyncSkipped
<1>6. ~HostCardProbed /\ ~HostCoordAbort /\ ~HostCoordDone /\ ~HostSaveProbed
      /\ ~HostLoadProbed /\ ~HostReady
      /\ ~HostSendsNothing /\ ~HostSaveUnprobed /\ ~NoReadyProbe
  BY <1>1 DEF HostCardProbed, HostCoordAbort, HostCoordDone, HostSaveProbed, HostLoadProbed,
              HostReady, HostSendsNothing, HostSaveUnprobed, NoReadyProbe, JustApplied
<1>7. ~RequestSave /\ ~RequestLoad
  BY <1>4 DEF RequestSave, RequestLoad, MayAsk
<1> QED  BY <1>5, <1>6, <1>7 DEF HostDrive

LEMMA OrphanStep ==
  ASSUME IInv, [Next]_vars
  PROVE  StaysOrphaned
<1> SUFFICES ASSUME HostCoordAbort \/ Orphaned, active[h], active'[h]
             PROVE  Orphaned' /\ ops' = ops
  BY DEF StaysOrphaned
<1>1. CASE HostCoordAbort
  <2>1. np[h].xfer = "save_coord" /\ np'[h].xfer = "none" /\ net' = net
    BY <1>1, DoHostCoordAbort DEF DidHostCoordAbort
  <2>2. net.probe.op = "coord"
    BY <2>1 DEF HostInv
  <2> QED  BY <1>1, <2>1, <2>2 DEF Orphaned, HostCoordAbort
<1>2. ASSUME Orphaned PROVE Orphaned' /\ ops' = ops
  <2>1. ~HostDrive /\ ~RequestSave /\ ~RequestLoad
    BY <1>2, OrphanIsIdle
  <2>2. CASE np'[h] = np[h] /\ net'.probe = net.probe /\ ops' = ops
    BY <1>2, <2>2 DEF Orphaned
  <2>3. CASE Deliver
    <3>1. np' = np /\ net'.probe = net.probe
      BY <2>3, DoDeliverProbe, DoDeliverChunks, DoDeliverAck
         DEF Deliver, DidDeliverProbe, DidDeliverChunks, DidDeliverAck
    <3>2. ops' = ops
      BY <2>3 DEF Deliver, DeliverProbe, DeliverChunks, DeliverAck
    <3> QED  BY <2>2, <3>1, <3>2
  <2>4. ASSUME NEW p \in Peers, Pump(p) PROVE Orphaned' /\ ops' = ops
    <3>1. CASE p = h
      <4>1. StageSave(h) \/ LoadBarrierDone(h) \/ LoadBarrierFailed(h)
        BY <2>1, <2>4, <3>1 DEF Pump
      <4> QED  BY <1>2, <4>1 DEF Orphaned, StageSave, StageDue, LoadBarrierDone, JustApplied,
                                LoadBarrierFailed
    <3>2. CASE p = g
      <4>1. CASE GuestProbe \/ GuestTakes
        BY <2>2, <4>1, GuestLeavesProbe
      <4>2. CASE StageSave(g) \/ LoadBarrierDone(g) \/ LoadBarrierFailed(g)
        <5>1. np'[h] = np[h]
          BY <4>2, TypeParts DEF StageSave, LoadBarrierDone, LoadBarrierFailed
        <5>2. net' = net /\ ops' = ops
          BY <4>2 DEF StageSave, LoadBarrierDone, LoadBarrierFailed
        <5> QED  BY <2>2, <5>1, <5>2
      <4> QED  BY <2>4, <3>2, <4>1, <4>2 DEF Pump
    <3> QED  BY <3>1, <3>2
  <2>5. ASSUME NEW p \in Peers, Admit(p) \/ Poll(p) \/ FinishFrame(p)
        PROVE  Orphaned' /\ ops' = ops
    <3>1. net' = net /\ ops' = ops
      BY <2>5 DEF Admit, AdmitApplying, AdmitReady, AdmitCoord, AdmitPlay, Poll, SavePoll,
                  LoadPoll, LoadPollFails, FinishFrame
    <3>2. CASE AdmitReady(p)
      <4>1. p = g
        BY <1>2, <3>2 DEF Orphaned, AdmitReady
      <4>2. np'[h] = np[h]
        BY <3>2, <4>1, TypeParts DEF AdmitReady
      <4> QED  BY <2>2, <3>1, <4>2
    <3>3. CASE ~AdmitReady(p)
      <4>1. np' = np
        BY <2>5, <3>3 DEF Admit, AdmitApplying, AdmitCoord, AdmitPlay, Poll, SavePoll,
                          LoadPoll, LoadPollFails, FinishFrame
      <4> QED  BY <2>2, <3>1, <4>1
    <3> QED  BY <3>2, <3>3
  <2>6. ASSUME NEW p \in Peers, SoftExit(p) \/ Leave(p) PROVE Orphaned' /\ ops' = ops
    <3>1. Waiting(p) /\ Shutdown(p)
      BY <2>6 DEF SoftExit, Leave
    <3>2. active'[p] = FALSE
      BY <3>1, DoShutdown DEF DidShutdown
    <3>3. p = g
      BY <3>2
    <3>4. np'[h] = np[h]
      BY <3>1, <3>3, TypeParts DEF Shutdown
    <3> QED  BY <2>2, <3>1, <3>4 DEF Shutdown
  <2>7. CASE UNCHANGED vars
    BY <2>2, <2>7 DEF vars
  <2> QED  BY <2>1, <2>3, <2>4, <2>5, <2>6, <2>7 DEF Next
<1> QED  BY <1>1, <1>2

-----------------------------------------------------------------------------
(* The theorems *)

\* The inductive invariant: in each phase of the host's exchange, what is on the
\* wire and how far behind the guest can be (psx_netplay.c, np_pump_session).
THEOREM Invariance == Spec => []IInv
<1>1. IInv /\ [Next]_vars => IInv'
  BY NextStep DEF Kept
<1> QED  BY <1>1, InitInvariant, PTL DEF Spec

\* The fields of g_np, savestate.c and the session keep their types; a frame waits
\* for its advance only while it runs; only the host probes and sends cards.
THEOREM TypeCorrect == Spec => []TypeOK
<1>1. IInv => TypeOK
  OBVIOUS
<1> QED  BY <1>1, Invariance, PTL

\* Peers that both call the cards agreed have the same cards, if the host has one:
\* np_guest_handle_probe compares with the host's card and np_apply_ready_state
\* installs nothing else.
THEOREM CardsAreAgreed == Spec => []CardsAgree
<1>1. IInv => CardsAgree
  BY DEF CardInv, CardsAgree
<1> QED  BY <1>1, Invariance, PTL

\* Peers in play stem from the same state, whatever pumps, frames, messages, saves,
\* loads, failures and departures came before, unless the guest's coordinated save
\* failed or something could not start.
THEOREM SameMachineInPlay == Spec => []SameMachine
<1>1. IInv => SameMachine
  BY DEF SameMachine, GuestAppliesHostState, Playing, SyncInv, BaseInv
<1> QED  BY <1>1, Invariance, PTL

\* A peer in play has run the frames its clock says since it booted or restored:
\* needs_advance and hard_resync agree wherever the restore fell into a frame.
THEOREM ClockIsTracked == Spec => []ClockTracksMachine
<1>1. IInv => ClockTracksMachine
  <2>1. SUFFICES ASSUME IInv, NEW p \in Peers, Playing(p), AllStarted
                 PROVE  vm[p].age = vm[p].sim + (IF vm[p].adv THEN 1 ELSE 0)
    BY DEF ClockTracksMachine
  <2>2. Aged(p)
    BY <2>1 DEF Playing, ClockInv
  <2>3. vm[p].sim \in Nat /\ vm[p].age \in Nat
    BY <2>1, TypeParts
  <2> QED  BY <2>2, <2>3
<1> QED  BY <1>1, Invariance, PTL

\* A peer leaves the load barrier only when the other has restored the same state
\* (np_commit_load_sync after the ready probe and its answer).
THEOREM ResumeIsJoint == Spec => NoEarlyResume
<1>1. IInv /\ [Next]_vars => [ResumesTogether]_vars
  BY NextStep DEF Kept
<1> QED  BY <1>1, Invariance, PTL DEF Spec, NoEarlyResume

\* A coordinated save the host has finished left its file in both slots, or the
\* file is received and not yet taken, as long as nothing failed
\* (np_host_drive_xfer, SAVE_PROBE and SAVE_SEND).
THEOREM SaveIsShared == Spec => SaveSynced
<1>1. IInv /\ [Next]_vars => [EndsWithSameFile]_vars
  BY NextStep DEF Kept
<1> QED  BY <1>1, Invariance, PTL DEF Spec, SaveSynced

\* np_host_drive_xfer after a coordinated save the host could not write: the probe
\* is never finished, so as long as the host stays in the match no further save or
\* load is accepted (np_xfer_busy), whatever either peer does.
THEOREM FailedSaveSticks == Spec => [][StaysOrphaned]_vars
<1>1. IInv /\ [Next]_vars => [StaysOrphaned]_vars
  BY OrphanStep
<1> QED  BY <1>1, Invariance, PTL DEF Spec
=============================================================================
