----------------------------- MODULE MemoryCard -----------------------------
(***************************************************************************)
(* A memory card of the console (psxrecomp/runtime/src/memcard.c), the     *)
(* sector writes of sio.c, the guest sandbox of psx_netplay.c and the      *)
(* exit paths of main.cpp, over crashes and failing file writes.           *)
(*                                                                         *)
(* memcard_flush truncates the card file and writes it again from the      *)
(* start, so a failure or a crash in the middle leaves a prefix.  A guest  *)
(* of a netplay match plays on the host's card, which is kept in a file of *)
(* its own; the personal file is bound again when the match ends.          *)
(*                                                                         *)
(* One of the two slots is modelled: they share no state.                  *)
(***************************************************************************)
EXTENDS Integers

CONSTANTS
    Sectors,      \* MEMCARD_SECTORS, 1024
    Values,       \* contents of a sector
    Zero, Blank,  \* a sector of the cleared buffer, of a formatted card
    Written,      \* contents the game writes
    HostCards,    \* cards a netplay host may send
    Opens         \* does fopen of a file that is there succeed (TRUE) or fail (FALSE)

ASSUME CardAssumption ==
    /\ Sectors \in Nat \ {0}
    /\ {Zero, Blank} \subseteq Values /\ Written \subseteq Values
    /\ HostCards \subseteq [1..Sectors -> Values]
    /\ Opens \subseteq BOOLEAN /\ TRUE \in Opens

Images == [1..Sectors -> Values]
\* What a card file may hold: an image or, torn, the beginning of one.
Files == UNION {[1..n -> Values] : n \in 0..Sectors}
Whole(f) == DOMAIN f = 1..Sectors
Prefixes(image) == {[i \in 1..n |-> image[i]] : n \in 0..Sectors}

Uniform(v) == [i \in 1..Sectors |-> v]
NoCard == [data |-> Uniform(Zero), path |-> "none", present |-> FALSE, dirty |-> FALSE]

VARIABLES
    disk,     \* per file: its contents, a set of at most one
    card,     \* cards[i]; filepath is none, personal or sandbox
    phase,    \* off; bind: between memcard_init_slots and the start; up
    sandbox,  \* g_np.guest_sandbox
    guest,    \* the session that starts is a guest's
    acked     \* ghost: the personal card as the game was last told it is, a set
              \*   of at most one; void when the program reports a loss, dies
              \*   with unwritten sectors, or formats a card it could not open

vars == <<disk, card, phase, sandbox, guest, acked>>

Init ==
    /\ disk \in [{"personal", "sandbox"} -> {{}} \cup {{Uniform(Blank)}}]
    /\ card = NoCard
    /\ phase = "off" /\ sandbox = FALSE /\ guest = FALSE
    /\ acked = disk["personal"]

-----------------------------------------------------------------------------
(* memcard.c *)

\* MUTANT of Flushed: a failed write counts as done.
FlushedAnyway(c, ok) == [c EXCEPT !.dirty = FALSE]

Flushed(c, ok) == [c EXCEPT !.dirty = ~ok /\ c.dirty]

\* The outcomes of writing the card c to its file: done; the file cannot be
\* opened; it cannot be written to the end; the process dies on the way.
Writes(c, d) ==
    {[card |-> Flushed(c, TRUE), disk |-> [d EXCEPT ![c.path] = {c.data}], alive |-> TRUE],
     [card |-> Flushed(c, FALSE), disk |-> d, alive |-> TRUE]}
    \cup {[card |-> Flushed(c, FALSE), disk |-> [d EXCEPT ![c.path] = {f}], alive |-> FALSE] :
            f \in Prefixes(c.data)}
    \cup {[card |-> Flushed(c, FALSE), disk |-> [d EXCEPT ![c.path] = {f}], alive |-> TRUE] :
            f \in Prefixes(c.data)}

\* memcard_flush: nothing to do for a clean card or an unbound one.
Flush(c, d) ==
    IF c.dirty /\ c.path # "none"
    THEN Writes(c, d)
    ELSE {[card |-> c, disk |-> d, alive |-> TRUE]}

\* fread over what the buffer held before.
Over(data, f) == [i \in 1..Sectors |-> IF i \in DOMAIN f THEN f[i] ELSE data[i]]

\* A file that is too short is no card.
Opened(c, f) == [c EXCEPT !.data = Over(c.data, f), !.present = Whole(f), !.dirty = FALSE]

\* MUTANT of Reloaded: a file that cannot be opened leaves the card as it is.
ReloadedIfThere(c, d, opens) ==
    IF c.path # "none" /\ d[c.path] # {} /\ opens
    THEN Opened(c, CHOOSE f \in d[c.path] : TRUE)
    ELSE c

\* memcard_reload_bound
Reloaded(c, d, opens) ==
    IF c.path # "none" /\ d[c.path] # {} /\ opens
    THEN Opened(c, CHOOSE f \in d[c.path] : TRUE)
    ELSE [c EXCEPT !.present = FALSE, !.dirty = FALSE]

-----------------------------------------------------------------------------
(* Sessions *)

\* MUTANT of Dead: psx_netplay_shutdown does not clear g_np.
DeadKeepsSandbox == card' = NoCard /\ phase' = "off" /\ guest' = FALSE /\ UNCHANGED sandbox

\* The session is over: the process has died, or the next memcard_init_slots
\* finds cleared buffers.
Dead == card' = NoCard /\ phase' = "off" /\ sandbox' = FALSE /\ guest' = FALSE

\* What is promised of the personal card if the process dies with card c.
AfterDeath(c) == IF c.path = "personal" /\ c.dirty THEN {} ELSE acked

\* memcard_init_slots; the launcher may have disabled the slot.
BootDisabled ==
    /\ phase = "off"
    /\ card' = NoCard /\ phase' = "bind" /\ guest' \in BOOLEAN
    /\ UNCHANGED <<disk, sandbox, acked>>

BootFile ==
    /\ phase = "off"
    /\ \E f \in disk["personal"] :
        /\ card' = Opened([NoCard EXCEPT !.path = "personal"], f)
        /\ acked' = IF Whole(f) THEN {f} ELSE {}
    /\ phase' = "bind" /\ guest' \in BOOLEAN
    /\ UNCHANGED <<disk, sandbox>>

\* The file is missing, or fopen fails for another reason: format a card and write
\* it.  Unlike memcard_flush it leaves no dirty mark behind: a card that cannot be
\* written is absent.
BootFormat ==
    /\ phase = "off" /\ (disk["personal"] = {} \/ FALSE \in Opens)
    /\ LET c == [data |-> Uniform(Blank), path |-> "personal", present |-> FALSE, dirty |-> TRUE]
       IN  \E w \in Writes(c, disk) :
            /\ disk' = w.disk
            /\ acked' = IF w.card.dirty THEN acked \intersect w.disk["personal"]
                        ELSE {Uniform(Blank)}
            /\ \/ ~w.alive /\ Dead
               \/ /\ w.alive /\ phase' = "bind" /\ guest' \in BOOLEAN
                  /\ card' = [c EXCEPT !.present = ~w.card.dirty, !.dirty = FALSE]
                  /\ UNCHANGED sandbox

\* An offline session, or the host of a match.
Start ==
    /\ phase = "bind" /\ ~guest
    /\ phase' = "up"
    /\ UNCHANGED <<disk, card, sandbox, guest, acked>>

\* memcard_rebind_dir, before the flush.
Rebound(c) == [c EXCEPT !.path = "sandbox", !.dirty = TRUE]

\* psx_netplay_bind_guest_saves: a slot without a file is left alone.
EnterSandbox ==
    /\ phase = "bind" /\ guest
    /\ \E w \in Flush(IF card.path = "none" THEN card ELSE Rebound(card), disk) :
        /\ disk' = w.disk
        /\ \/ ~w.alive /\ Dead
           \/ w.alive /\ card' = w.card /\ phase' = "up" /\ sandbox' = TRUE /\ UNCHANGED guest
    /\ UNCHANGED acked

\* The last byte of a write command with a good checksum: the sector goes to the
\* buffer, the card to its file, and the answer is Good whether it got there.
WriteSector(s, v) ==
    /\ phase = "up" /\ card.present
    /\ LET c == [card EXCEPT !.data[s] = v, !.dirty = TRUE]
       IN  \E w \in Flush(c, disk) :
            /\ disk' = w.disk
            /\ \/ /\ ~w.alive /\ Dead /\ acked' = AfterDeath(c)
               \/ /\ w.alive /\ card' = w.card
                  /\ acked' = IF c.path = "personal" THEN {c.data} ELSE acked
                  /\ UNCHANGED <<phase, sandbox, guest>>

\* memcard_import_raw: the host's card arrives.
ImportRaw(image) ==
    /\ phase = "up" /\ sandbox /\ card.path # "none"
    /\ \E w \in Flush([card EXCEPT !.data = image, !.present = TRUE, !.dirty = TRUE], disk) :
        /\ disk' = w.disk
        /\ \/ ~w.alive /\ Dead
           \/ w.alive /\ card' = w.card /\ UNCHANGED <<phase, sandbox, guest>>
    /\ UNCHANGED acked

\* np_leave_guest_sandbox after its flush: memcard_rebind_paths and
\* memcard_reload_bound.
Personal(c, d, opens) ==
    IF sandbox
    THEN Reloaded(IF c.path = "none" THEN c ELSE [c EXCEPT !.path = "personal"], d, opens)
    ELSE c

\* MUTANT of Exit: memcard_flush_all is left out.
ExitUnflushed ==
    /\ phase = "up"
    /\ \E w1 \in (IF sandbox THEN Flush(card, disk) ELSE {[card |-> card, disk |-> disk, alive |-> TRUE]}) :
        /\ disk' = w1.disk
        /\ acked' = IF ~w1.alive THEN AfterDeath(card) ELSE acked
    /\ Dead

\* shutdown_runtime and teardown_game_session_keep_lobby: psx_netplay_shutdown
\* leaves the sandbox, then memcard_flush_all.  The next memcard_init_slots
\* clears the buffers, so what could not be written by now is lost.
Exit ==
    /\ phase = "up"
    /\ \E w1 \in (IF sandbox THEN Flush(card, disk) ELSE {[card |-> card, disk |-> disk, alive |-> TRUE]}) :
        IF ~w1.alive
        THEN disk' = w1.disk /\ acked' = AfterDeath(card)
        ELSE \E opens \in Opens :
             \E w2 \in Flush(Personal(w1.card, w1.disk, opens), w1.disk) :
                disk' = w2.disk /\ acked' = AfterDeath(w2.card)
    /\ Dead

Crash ==
    /\ phase # "off"
    /\ acked' = AfterDeath(card)
    /\ Dead
    /\ UNCHANGED disk

Next ==
    \/ BootDisabled \/ BootFile \/ BootFormat \/ Start \/ EnterSandbox
    \/ \E s \in 1..Sectors, v \in Written : WriteSector(s, v)
    \/ \E image \in HostCards : ImportRaw(image)
    \/ Exit \/ Crash

Spec == Init /\ [][Next]_vars

-----------------------------------------------------------------------------
(* Properties *)

\* Files and buffer keep their types; only a bound card is ever present or
\* waiting to be written, and only a guest in a match is bound to the sandbox.
TypeOK ==
    /\ disk \in [{"personal", "sandbox"} -> SUBSET Files]
    /\ \A p \in {"personal", "sandbox"} : \A a, b \in disk[p] : a = b
    /\ card \in [data : Images, path : {"none", "personal", "sandbox"},
                 present : BOOLEAN, dirty : BOOLEAN]
    /\ phase \in {"off", "bind", "up"} /\ sandbox \in BOOLEAN /\ guest \in BOOLEAN
    /\ acked \subseteq Images
    /\ card.present \/ card.dirty => card.path # "none"
    /\ card.path = "sandbox" => sandbox
    /\ sandbox => card.path # "personal" /\ phase = "up"

\* What the game reads from a card that is not waiting to be written is, byte for
\* byte, what its file holds: no failed, short or interrupted write, and no torn
\* file found at boot or at the end of a match, is taken for a good one
\* (memcard_flush, memcard_init_slots, memcard_reload_bound).
CleanIsOnDisk == card.present /\ ~card.dirty => disk[card.path] = {card.data}

\* psx_netplay.h, "so host sync never touches personal saves": from the moment the
\* sandbox is bound to the end of the exit, no step of a guest's session changes
\* the personal file, whatever writes fail on the way.
PersonalUntouched == [][sandbox \/ (phase = "bind" /\ guest) => disk'["personal"] = disk["personal"]]_vars

\* Every sector the game was told is written is in the personal file once the
\* program is down or the match uses the sandbox, unless the last write failed
\* or the process died before it could be repeated: a write that failed in
\* between is made good by the next one or by memcard_flush_all.  A later boot
\* that cannot open the file and formats it is the one other way to lose them; if
\* the file cannot be written either, they are still there.
AckedSurvives ==
    IF card.path = "personal" /\ phase = "up" /\ card.present
    THEN acked = {card.data}
    ELSE acked \subseteq disk["personal"]
=============================================================================
