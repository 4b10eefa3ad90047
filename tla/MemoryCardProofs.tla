-------------------------- MODULE MemoryCardProofs --------------------------
(***************************************************************************)
(* Proofs about MemoryCard for any number of sectors and any contents.     *)
(*                                                                         *)
(* The argument: a flush changes only the file of the card and the dirty   *)
(* mark, and it clears the mark only if the file is then the buffer        *)
(* (FlushFacts).  Sessions adds what holds between the calls: a card that  *)
(* has just been opened is clean, and outside a match only a card that is  *)
(* present waits to be written.                                            *)
(***************************************************************************)
EXTENDS MemoryCard, TLAPS

Cards == [data : Images, path : {"none", "personal", "sandbox"},
          present : BOOLEAN, dirty : BOOLEAN]
Disks == [{"personal", "sandbox"} -> SUBSET Files]
OneEach(d) == \A p \in {"personal", "sandbox"} : \A a, b \in d[p] : a = b

\* What holds between the calls of a session.
Sessions ==
    /\ phase = "off" => card = NoCard
    /\ phase = "bind" => /\ ~card.dirty /\ card.path # "sandbox"
                         /\ card.present => acked = {card.data}
    /\ ~sandbox /\ card.dirty => card.present

IInv == TypeOK /\ CleanIsOnDisk /\ AckedSurvives /\ Sessions
-----------------------------------------------------------------------------
(* Values *)

\* The cleared buffer, the formatted card and its prefixes are well formed.
LEMMA ImageTypes ==
    /\ \A v \in Values : Uniform(v) \in Images
    /\ NoCard \in Cards /\ Uniform(Blank) \in Images
    /\ \A image \in Images : image \in Files /\ Prefixes(image) \subseteq Files
<1>1. \A v \in Values : Uniform(v) \in Images
  BY DEF Uniform, Images
<1>2. NoCard \in Cards /\ Uniform(Blank) \in Images
  BY <1>1, CardAssumption DEF NoCard, Cards
<1>3. ASSUME NEW image \in Images PROVE image \in Files /\ Prefixes(image) \subseteq Files
  <2>1. image \in Files
    <3>1. image \in [1..Sectors -> Values] /\ Sectors \in 0..Sectors
      BY <1>3, CardAssumption DEF Images
    <3> QED
      BY <3>1 DEF Files
  <2>2. ASSUME NEW f \in Prefixes(image) PROVE f \in Files
    <3>1. PICK n \in 0..Sectors : f = [i \in 1..n |-> image[i]]
      BY <2>2 DEF Prefixes
    <3>2. f \in [1..n -> Values]
      BY <3>1, CardAssumption DEF Images
    <3> QED
      BY <3>2 DEF Files
  <2> QED
    BY <2>1, <2>2
<1> QED
  BY <1>1, <1>2, <1>3

\* A whole file read over any buffer is the buffer.
LEMMA OverTypes ==
    ASSUME NEW data \in Images, NEW f \in Files
    PROVE  Over(data, f) \in Images /\ (Whole(f) => Over(data, f) = f /\ f \in Images)
<1>1. PICK n \in 0..Sectors : f \in [1..n -> Values]
  BY DEF Files
<1>2. Over(data, f) \in Images
  BY <1>1 DEF Over, Images
<1>3. ASSUME Whole(f) PROVE Over(data, f) = f /\ f \in Images
  <2>1. f \in [1..Sectors -> Values]
    BY <1>1, <1>3 DEF Whole
  <2>2. Over(data, f) = [i \in 1..Sectors |-> f[i]]
    BY <2>1 DEF Over
  <2> QED
    BY <2>1, <2>2 DEF Images
<1> QED
  BY <1>2, <1>3

\* The write of a card changes its own file and, if it succeeds, the dirty mark;
\* the mark goes only if the file is the buffer.
LEMMA WriteFacts ==
    ASSUME NEW c \in Cards, NEW d \in Disks, OneEach(d), c.dirty, c.path # "none",
           NEW w \in Writes(c, d)
    PROVE  /\ w.disk \in Disks /\ OneEach(w.disk) /\ w.alive \in BOOLEAN
           /\ w.card \in Cards /\ w.card.data = c.data /\ w.card.path = c.path
           /\ w.card.present = c.present
           /\ ~w.card.dirty => w.alive /\ w.disk[c.path] = {c.data}
           /\ \A p \in {"personal", "sandbox"} : p # c.path => w.disk[p] = d[p]
<1>1. c.path \in {"personal", "sandbox"} /\ c.data \in Images /\ c.data \in Files
  BY ImageTypes DEF Cards
<1>2. Prefixes(c.data) \subseteq Files
  BY <1>1, ImageTypes
<1>3. ASSUME NEW f \in Files
      PROVE  LET e == [d EXCEPT ![c.path] = {f}]
             IN  /\ e \in Disks /\ OneEach(e) /\ e[c.path] = {f}
                 /\ \A p \in {"personal", "sandbox"} : p # c.path => e[p] = d[p]
  BY <1>1 DEF Disks, OneEach
<1>4. /\ Flushed(c, TRUE) \in Cards /\ ~Flushed(c, TRUE).dirty
      /\ Flushed(c, TRUE).data = c.data /\ Flushed(c, TRUE).path = c.path
      /\ Flushed(c, TRUE).present = c.present
  BY DEF Flushed, Cards
<1>5. Flushed(c, FALSE) = c
  BY DEF Flushed, Cards
<1>6. CASE w = [card |-> Flushed(c, TRUE), disk |-> [d EXCEPT ![c.path] = {c.data}], alive |-> TRUE]
  BY <1>1, <1>3, <1>4, <1>6
<1>7. CASE w = [card |-> Flushed(c, FALSE), disk |-> d, alive |-> TRUE]
  BY <1>5, <1>7
<1>8. ASSUME NEW f \in Prefixes(c.data), NEW b \in BOOLEAN,
             w = [card |-> Flushed(c, FALSE), disk |-> [d EXCEPT ![c.path] = {f}], alive |-> b]
      PROVE  /\ w.disk \in Disks /\ OneEach(w.disk) /\ w.alive \in BOOLEAN
             /\ w.card = c
             /\ \A p \in {"personal", "sandbox"} : p # c.path => w.disk[p] = d[p]
  BY <1>2, <1>3, <1>5, <1>8
<1> QED
  BY <1>6, <1>7, <1>8 DEF Writes

\* memcard_flush likewise; a clean or unbound card is left alone.
LEMMA FlushFacts ==
    ASSUME NEW c \in Cards, NEW d \in Disks, OneEach(d), NEW w \in Flush(c, d)
    PROVE  /\ w.disk \in Disks /\ OneEach(w.disk) /\ w.alive \in BOOLEAN
           /\ w.card \in Cards /\ w.card.data = c.data /\ w.card.path = c.path
           /\ w.card.present = c.present /\ (w.card.dirty => c.dirty)
           /\ c.dirty /\ c.path # "none" /\ ~w.card.dirty => w.alive /\ w.disk[c.path] = {c.data}
           /\ ~c.dirty \/ c.path = "none" => w.disk = d /\ w.card = c /\ w.alive
           /\ \A p \in {"personal", "sandbox"} : p # c.path => w.disk[p] = d[p]
<1>1. CASE c.dirty /\ c.path # "none"
  BY <1>1, WriteFacts DEF Flush
<1>2. CASE ~(c.dirty /\ c.path # "none")
  <2>1. w = [card |-> c, disk |-> d, alive |-> TRUE]
    BY <1>2 DEF Flush
  <2> QED
    BY <1>2, <2>1
<1> QED
  BY <1>1, <1>2

-----------------------------------------------------------------------------
(* Steps *)

\* A step that ends the session keeps the invariant if the personal file holds
\* what is still promised of it.
LEMMA DeadStep ==
    ASSUME Dead, disk' \in Disks, OneEach(disk'), acked' \subseteq Images,
           acked' \subseteq disk'["personal"]
    PROVE  IInv'
<1>1. card' = NoCard /\ phase' = "off" /\ sandbox' = FALSE /\ guest' = FALSE
  BY DEF Dead
<1>2. card' \in Cards /\ card'.path = "none" /\ card'.present = FALSE /\ card'.dirty = FALSE
  BY <1>1, ImageTypes DEF NoCard
<1> QED
  BY <1>1, <1>2 DEF IInv, TypeOK, Cards, Disks, OneEach, CleanIsOnDisk, AckedSurvives, Sessions

\* memcard_init_slots with a file: a whole one is on disk and promised.
LEMMA BootFileStep == ASSUME IInv, BootFile PROVE IInv'
<1>1. disk \in Disks /\ OneEach(disk)
  BY DEF IInv, TypeOK, Disks, OneEach
<1>2. PICK f \in disk["personal"] :
        /\ card' = Opened([NoCard EXCEPT !.path = "personal"], f)
        /\ acked' = IF Whole(f) THEN {f} ELSE {}
  BY DEF BootFile
<1>3. f \in Files /\ disk["personal"] = {f}
  BY <1>1, <1>2 DEF Disks, OneEach
<1>4. /\ NoCard.data \in Images /\ Over(NoCard.data, f) \in Images
      /\ Whole(f) => Over(NoCard.data, f) = f /\ f \in Images
  BY <1>3, ImageTypes, OverTypes DEF Cards
<1>5. card' = [data |-> Over(NoCard.data, f), path |-> "personal", present |-> Whole(f),
               dirty |-> FALSE]
  BY <1>2 DEF Opened, NoCard
<1>6. Whole(f) \in BOOLEAN
  BY DEF Whole
<1>7. phase' = "bind" /\ guest' \in BOOLEAN /\ disk' = disk /\ sandbox' = FALSE
  BY DEF BootFile, IInv, TypeOK
<1>8. TypeOK'
  <2>1. acked' \subseteq Images
    BY <1>2, <1>4
  <2>2. card' \in Cards /\ card'.path = "personal"
    BY <1>4, <1>5, <1>6 DEF Cards
  <2> QED
    BY <1>1, <1>7, <2>1, <2>2 DEF TypeOK, Disks, OneEach, Cards
<1>9. CleanIsOnDisk' /\ AckedSurvives' /\ Sessions'
  BY <1>2, <1>3, <1>4, <1>5, <1>6, <1>7 DEF CleanIsOnDisk, AckedSurvives, Sessions
<1> QED
  BY <1>8, <1>9 DEF IInv

\* memcard_init_slots without a file: the card is present only if it was written.
LEMMA BootFormatStep == ASSUME IInv, BootFormat PROVE IInv'
<1> DEFINE c == [data |-> Uniform(Blank), path |-> "personal", present |-> FALSE, dirty |-> TRUE]
<1>1. disk \in Disks /\ OneEach(disk) /\ ~sandbox
  BY DEF IInv, TypeOK, Disks, OneEach, BootFormat
<1>2. c = [data |-> Uniform(Blank), path |-> "personal", present |-> FALSE, dirty |-> TRUE]
  OBVIOUS
<1>3. c \in Cards /\ c.dirty /\ c.path = "personal" /\ c.data = Uniform(Blank)
  BY <1>2, ImageTypes DEF Cards
<1>4. PICK w \in Writes(c, disk) :
        /\ disk' = w.disk
        /\ acked' = IF w.card.dirty THEN acked \intersect w.disk["personal"]
                    ELSE {Uniform(Blank)}
        /\ \/ ~w.alive /\ Dead
           \/ /\ w.alive /\ phase' = "bind" /\ guest' \in BOOLEAN
              /\ card' = [c EXCEPT !.present = ~w.card.dirty, !.dirty = FALSE]
              /\ UNCHANGED sandbox
  BY DEF BootFormat
<1> HIDE DEF c
<1>5. /\ disk' \in Disks /\ OneEach(disk') /\ w.card \in Cards /\ w.alive \in BOOLEAN
      /\ ~w.card.dirty => w.alive /\ disk'["personal"] = {Uniform(Blank)}
  BY <1>1, <1>3, <1>4, WriteFacts
<1>6. acked' \subseteq Images /\ acked' \subseteq disk'["personal"] /\ w.card.dirty \in BOOLEAN
  <2>1. acked \subseteq Images
    BY DEF IInv, TypeOK
  <2> QED
    BY <1>4, <1>5, <2>1, ImageTypes DEF Cards
<1>7. CASE ~w.alive /\ Dead
  BY <1>5, <1>6, <1>7, DeadStep
<1>8. CASE w.alive
  <2>1. card' = [data |-> Uniform(Blank), path |-> "personal", present |-> ~w.card.dirty,
                 dirty |-> FALSE]
    BY <1>2, <1>4, <1>8
  <2>2. phase' = "bind" /\ guest' \in BOOLEAN /\ sandbox' = FALSE
    BY <1>1, <1>4, <1>8 DEF IInv, TypeOK
  <2>3. TypeOK'
    BY <1>5, <1>6, <2>1, <2>2, ImageTypes DEF TypeOK, Disks, OneEach
  <2>4. CleanIsOnDisk' /\ AckedSurvives' /\ Sessions'
    BY <1>4, <1>5, <1>6, <2>1, <2>2 DEF CleanIsOnDisk, AckedSurvives, Sessions
  <2> QED
    BY <2>3, <2>4 DEF IInv
<1> QED
  BY <1>4, <1>5, <1>7, <1>8

\* The flush of the new mirror does not reach the personal file.
LEMMA EnterStep ==
    ASSUME IInv, EnterSandbox
    PROVE  IInv' /\ disk'["personal"] = disk["personal"]
<1> DEFINE c == IF card.path = "none" THEN card ELSE Rebound(card)
<1>1. disk \in Disks /\ OneEach(disk) /\ card \in Cards /\ ~sandbox /\ acked \subseteq Images
  BY DEF IInv, TypeOK, Disks, OneEach, Cards, EnterSandbox
<1>2. /\ c \in Cards /\ c.path # "personal" /\ (c.path = "none" => ~c.present /\ ~c.dirty)
      /\ c.path # "none" => c.dirty
  BY <1>1 DEF Rebound, Cards, IInv, TypeOK, Sessions, EnterSandbox
<1>3. PICK w \in Flush(c, disk) :
        /\ disk' = w.disk
        /\ \/ ~w.alive /\ Dead
           \/ w.alive /\ card' = w.card /\ phase' = "up" /\ sandbox' = TRUE /\ UNCHANGED guest
  BY DEF EnterSandbox
<1>4. acked' = acked /\ acked \subseteq disk["personal"]
  BY DEF EnterSandbox, IInv, AckedSurvives
<1> HIDE DEF c
<1>5. /\ disk' \in Disks /\ OneEach(disk') /\ w.card \in Cards /\ w.alive \in BOOLEAN
      /\ disk'["personal"] = disk["personal"]
      /\ w.card.path = c.path /\ w.card.present = c.present /\ w.card.data = c.data
      /\ w.card.dirty => c.dirty
      /\ c.path # "none" /\ ~w.card.dirty => disk'[c.path] = {c.data}
  BY <1>1, <1>2, <1>3, FlushFacts
<1>6. CASE ~w.alive /\ Dead
  BY <1>1, <1>4, <1>5, <1>6, DeadStep
<1>7. CASE w.alive
  <2>1. card' = w.card /\ phase' = "up" /\ sandbox' = TRUE /\ guest' = guest
    BY <1>3, <1>7
  <2>2. TypeOK'
    BY <1>1, <1>2, <1>4, <1>5, <2>1 DEF TypeOK, Disks, OneEach, Cards, IInv
  <2>3. CleanIsOnDisk' /\ AckedSurvives' /\ Sessions'
    BY <1>2, <1>4, <1>5, <2>1 DEF CleanIsOnDisk, AckedSurvives, Sessions
  <2> QED
    BY <1>5, <2>2, <2>3 DEF IInv
<1> QED
  BY <1>3, <1>5, <1>6, <1>7

\* A sector written in play is in the buffer and, if the flush succeeds, on disk;
\* in a match the personal file is not touched.
LEMMA WriteStep ==
    ASSUME IInv, NEW s \in 1..Sectors, NEW v \in Written, WriteSector(s, v)
    PROVE  IInv' /\ (sandbox => disk'["personal"] = disk["personal"])
<1> DEFINE c == [card EXCEPT !.data[s] = v, !.dirty = TRUE]
<1>1. /\ disk \in Disks /\ OneEach(disk) /\ card \in Cards /\ acked \subseteq Images
      /\ phase = "up" /\ card.present /\ card.path # "none"
      /\ sandbox \in BOOLEAN /\ (card.path = "sandbox" <=> sandbox)
  BY DEF IInv, TypeOK, Disks, OneEach, Cards, WriteSector
<1>2. /\ c \in Cards /\ c.dirty /\ c.present /\ c.path = card.path /\ c.data \in Images
  BY <1>1, CardAssumption DEF Cards, Images
<1>3. PICK w \in Flush(c, disk) :
        /\ disk' = w.disk
        /\ \/ /\ ~w.alive /\ Dead /\ acked' = AfterDeath(c)
           \/ /\ w.alive /\ card' = w.card
              /\ acked' = IF c.path = "personal" THEN {c.data} ELSE acked
              /\ UNCHANGED <<phase, sandbox, guest>>
  BY DEF WriteSector
<1>4. card.path # "personal" => acked \subseteq disk["personal"]
  BY DEF IInv, AckedSurvives
<1> HIDE DEF c
<1>5. /\ disk' \in Disks /\ OneEach(disk') /\ w.card \in Cards /\ w.alive \in BOOLEAN
      /\ c.path # "personal" => disk'["personal"] = disk["personal"]
      /\ w.card.path = c.path /\ w.card.present = c.present /\ w.card.data = c.data
      /\ ~w.card.dirty => disk'[c.path] = {c.data}
  BY <1>1, <1>2, <1>3, FlushFacts
<1>6. sandbox => disk'["personal"] = disk["personal"]
  BY <1>1, <1>2, <1>5
<1>7. CASE ~w.alive
  <2>1. Dead /\ acked' = AfterDeath(c)
    BY <1>3, <1>7
  <2>2. acked' \subseteq Images /\ acked' \subseteq disk'["personal"]
    BY <1>1, <1>2, <1>4, <1>5, <2>1 DEF AfterDeath
  <2> QED
    BY <1>5, <1>6, <2>1, <2>2, DeadStep
<1>8. CASE w.alive
  <2>1. /\ card' = w.card /\ acked' = IF c.path = "personal" THEN {c.data} ELSE acked
        /\ phase' = "up" /\ sandbox' = sandbox /\ guest' = guest
    BY <1>1, <1>3, <1>8
  <2>2. TypeOK'
    BY <1>1, <1>2, <1>5, <2>1 DEF TypeOK, Disks, OneEach, Cards, IInv
  <2>3. CleanIsOnDisk' /\ AckedSurvives' /\ Sessions'
    BY <1>1, <1>2, <1>4, <1>5, <2>1 DEF CleanIsOnDisk, AckedSurvives, Sessions
  <2> QED
    BY <1>6, <2>2, <2>3 DEF IInv
<1> QED
  BY <1>5, <1>7, <1>8

\* The host's card goes to the sandbox file alone.
LEMMA ImportStep ==
    ASSUME IInv, NEW image \in HostCards, ImportRaw(image)
    PROVE  IInv' /\ disk'["personal"] = disk["personal"]
<1> DEFINE c == [card EXCEPT !.data = image, !.present = TRUE, !.dirty = TRUE]
<1>1. /\ disk \in Disks /\ OneEach(disk) /\ card \in Cards /\ acked \subseteq Images
      /\ phase = "up" /\ sandbox = TRUE /\ card.path = "sandbox"
  BY DEF IInv, TypeOK, Disks, OneEach, Cards, ImportRaw
<1>2. c \in Cards /\ c.dirty /\ c.present /\ c.path = "sandbox"
  BY <1>1, CardAssumption DEF Cards, Images
<1>3. PICK w \in Flush(c, disk) :
        /\ disk' = w.disk
        /\ \/ ~w.alive /\ Dead
           \/ w.alive /\ card' = w.card /\ UNCHANGED <<phase, sandbox, guest>>
  BY DEF ImportRaw
<1>4. acked' = acked /\ acked \subseteq disk["personal"]
  BY <1>1 DEF IInv, AckedSurvives, ImportRaw
<1> HIDE DEF c
<1>5. /\ disk' \in Disks /\ OneEach(disk') /\ w.card \in Cards /\ w.alive \in BOOLEAN
      /\ disk'["personal"] = disk["personal"]
      /\ w.card.path = c.path /\ w.card.present = c.present /\ w.card.data = c.data
      /\ ~w.card.dirty => disk'[c.path] = {c.data}
  <2>1. /\ w.disk \in Disks /\ OneEach(w.disk) /\ w.card \in Cards /\ w.alive \in BOOLEAN
        /\ w.card.path = c.path /\ w.card.present = c.present /\ w.card.data = c.data
        /\ c.dirty /\ c.path # "none" /\ ~w.card.dirty => w.disk[c.path] = {c.data}
        /\ \A p \in {"personal", "sandbox"} : p # c.path => w.disk[p] = disk[p]
    BY <1>1, <1>2, <1>3, FlushFacts
  <2>2. w.disk["personal"] = disk["personal"] /\ (~w.card.dirty => w.disk[c.path] = {c.data})
    BY <1>2, <2>1
  <2> QED
    BY <1>3, <2>1, <2>2
<1>6. CASE ~w.alive
  BY <1>1, <1>3, <1>4, <1>5, <1>6, DeadStep
<1>7. CASE w.alive
  <2>1. card' = w.card /\ phase' = "up" /\ sandbox' = TRUE /\ guest' = guest
    BY <1>1, <1>3, <1>7
  <2>2. TypeOK'
    BY <1>1, <1>2, <1>4, <1>5, <2>1 DEF TypeOK, Disks, OneEach, Cards, IInv
  <2>3. CleanIsOnDisk' /\ AckedSurvives' /\ Sessions'
    BY <1>2, <1>4, <1>5, <2>1 DEF CleanIsOnDisk, AckedSurvives, Sessions
  <2> QED
    BY <1>5, <2>2, <2>3 DEF IInv
<1> QED
  BY <1>3, <1>5, <1>6, <1>7

\* The exit of a session outside a match flushes what is still unwritten.
LEMMA ExitPersonal ==
    ASSUME IInv, Exit, ~sandbox
    PROVE  IInv'
<1>1. /\ disk \in Disks /\ OneEach(disk) /\ card \in Cards /\ acked \subseteq Images
      /\ phase = "up" /\ sandbox = FALSE /\ card.path # "sandbox" /\ Dead
  BY DEF IInv, TypeOK, Disks, OneEach, Cards, Exit
<1>2. PICK w \in Flush(card, disk) : disk' = w.disk /\ acked' = AfterDeath(w.card)
  BY <1>1 DEF Exit, Personal
<1>3. /\ disk' \in Disks /\ OneEach(disk') /\ w.card \in Cards
      /\ w.card.path = card.path /\ (w.card.dirty => card.dirty)
      /\ card.dirty /\ card.path # "none" /\ ~w.card.dirty => disk'[card.path] = {card.data}
      /\ ~card.dirty \/ card.path = "none" => disk' = disk
  BY <1>1, <1>2, FlushFacts
<1>4. acked' \subseteq Images
  BY <1>1, <1>2 DEF AfterDeath
<1>5. acked' \subseteq disk'["personal"]
  <2>1. CASE card.path # "personal"
    <3>1. card.path = "none" /\ ~card.dirty
      BY <1>1, <2>1 DEF Cards, IInv, TypeOK
    <3>2. disk' = disk /\ acked' = acked /\ acked \subseteq disk["personal"]
      BY <1>2, <1>3, <2>1, <3>1 DEF AfterDeath, IInv, AckedSurvives
    <3> QED
      BY <3>2
  <2>2. CASE card.path = "personal" /\ w.card.dirty
    BY <1>2, <1>3, <2>2 DEF AfterDeath
  <2>3. CASE card.path = "personal" /\ ~w.card.dirty /\ card.dirty
    <3>1. card.present /\ acked = {card.data}
      BY <1>1, <2>3 DEF IInv, Sessions, AckedSurvives
    <3> QED
      BY <1>2, <1>3, <2>3, <3>1 DEF AfterDeath
  <2>4. CASE card.path = "personal" /\ ~w.card.dirty /\ ~card.dirty
    <3>1. acked \subseteq disk["personal"]
      BY <1>1, <2>4 DEF IInv, CleanIsOnDisk, AckedSurvives
    <3> QED
      BY <1>2, <1>3, <2>4, <3>1 DEF AfterDeath
  <2> QED
    BY <2>1, <2>2, <2>3, <2>4
<1> QED
  BY <1>1, <1>3, <1>4, <1>5, DeadStep

\* The exit of a guest's session: the flush goes to the sandbox, the reload leaves
\* nothing to write, so the second flush does nothing.
LEMMA ExitSandbox ==
    ASSUME IInv, Exit, sandbox
    PROVE  IInv' /\ disk'["personal"] = disk["personal"]
<1>1. /\ disk \in Disks /\ OneEach(disk) /\ card \in Cards /\ acked \subseteq Images
      /\ sandbox = TRUE /\ card.path # "personal" /\ Dead
      /\ acked \subseteq disk["personal"]
  BY DEF IInv, TypeOK, Disks, OneEach, Cards, Exit, AckedSurvives
<1>2. PICK w1 \in Flush(card, disk) :
        IF ~w1.alive
        THEN disk' = w1.disk /\ acked' = AfterDeath(card)
        ELSE \E opens \in Opens :
             \E w2 \in Flush(Personal(w1.card, w1.disk, opens), w1.disk) :
                disk' = w2.disk /\ acked' = AfterDeath(w2.card)
  BY <1>1 DEF Exit
<1>3. /\ w1.disk \in Disks /\ OneEach(w1.disk) /\ w1.card \in Cards
      /\ w1.disk["personal"] = disk["personal"]
  BY <1>1, <1>2, FlushFacts
<1>4. CASE ~w1.alive
  <2>1. disk' = w1.disk /\ acked' = acked
    BY <1>1, <1>2, <1>4 DEF AfterDeath
  <2> QED
    BY <1>1, <1>3, <2>1, DeadStep
<1>5. CASE w1.alive
  <2>o. PICK opens \in Opens :
          \E w2 \in Flush(Personal(w1.card, w1.disk, opens), w1.disk) :
             disk' = w2.disk /\ acked' = AfterDeath(w2.card)
    BY <1>2, <1>5
  <2> DEFINE c == Personal(w1.card, w1.disk, opens)
  <2>1. c \in Cards /\ c.dirty = FALSE
    <3> DEFINE b == IF w1.card.path = "none" THEN w1.card ELSE [w1.card EXCEPT !.path = "personal"]
    <3>1. b \in Cards
      BY <1>3 DEF Cards
    <3>2. c = Reloaded(b, w1.disk, opens)
      BY <1>1 DEF Personal
    <3> HIDE DEF b, c
    <3>3. CASE b.path # "none" /\ w1.disk[b.path] # {} /\ opens
      <4> DEFINE f == CHOOSE x \in w1.disk[b.path] : TRUE
      <4>1. f \in Files
        BY <1>3, <3>1, <3>3 DEF Disks, Cards
      <4>2. c = Opened(b, f)
        BY <3>2, <3>3 DEF Reloaded
      <4> HIDE DEF f
      <4>3. Over(b.data, f) \in Images /\ Whole(f) \in BOOLEAN
        BY <3>1, <4>1, OverTypes DEF Cards, Whole
      <4> QED
        BY <3>1, <4>2, <4>3 DEF Opened, Cards
    <3>4. CASE ~(b.path # "none" /\ w1.disk[b.path] # {} /\ opens)
      BY <3>1, <3>2, <3>4 DEF Reloaded, Cards
    <3> QED
      BY <3>3, <3>4
  <2>2. PICK w2 \in Flush(c, w1.disk) : disk' = w2.disk /\ acked' = AfterDeath(w2.card)
    BY <2>o
  <2> HIDE DEF c
  <2>3. w2.disk = w1.disk /\ w2.card = c
    BY <1>3, <2>1, <2>2, FlushFacts
  <2>4. disk' = w1.disk /\ acked' = acked
    BY <2>1, <2>2, <2>3 DEF AfterDeath
  <2> QED
    BY <1>1, <1>3, <2>4, DeadStep
<1> QED
  BY <1>4, <1>5

\* A crash with a clean card loses nothing.
LEMMA CrashStep == ASSUME IInv, Crash PROVE IInv'
<1>1. /\ disk' \in Disks /\ OneEach(disk') /\ disk' = disk /\ Dead
      /\ acked' = AfterDeath(card) /\ acked \subseteq Images /\ phase # "off"
  BY DEF IInv, TypeOK, Disks, OneEach, Crash
<1>2. acked' \subseteq Images
  BY <1>1 DEF AfterDeath
<1>3. acked' \subseteq disk["personal"]
  <2>1. CASE card.path = "personal" /\ card.dirty
    BY <1>1, <2>1 DEF AfterDeath
  <2>2. CASE ~(card.path = "personal" /\ card.dirty)
    BY <1>1, <2>2 DEF AfterDeath, IInv, AckedSurvives, CleanIsOnDisk
  <2> QED
    BY <2>1, <2>2
<1> QED
  BY <1>1, <1>2, <1>3, DeadStep
-----------------------------------------------------------------------------
(* The theorems *)

\* Every file found at the first boot is absent or a blank card.
LEMMA Initial == Init => IInv
<1> SUFFICES ASSUME Init PROVE IInv
  OBVIOUS
<1>1. disk \in [{"personal", "sandbox"} -> {{}} \cup {{Uniform(Blank)}}] /\ card = NoCard
      /\ phase = "off" /\ sandbox = FALSE /\ guest = FALSE /\ acked = disk["personal"]
  BY DEF Init
<1>2. Uniform(Blank) \in Files /\ Uniform(Blank) \in Images
  BY ImageTypes
<1>3. disk \in Disks /\ OneEach(disk) /\ acked \subseteq Images
  BY <1>1, <1>2 DEF Disks, OneEach
<1>4. card \in Cards /\ card.path = "none" /\ card.present = FALSE /\ card.dirty = FALSE
  BY <1>1, ImageTypes DEF NoCard
<1> QED
  BY <1>1, <1>3, <1>4 DEF IInv, TypeOK, Cards, Disks, OneEach, CleanIsOnDisk, AckedSurvives, Sessions

\* Binding no card, and starting the session on the card that was bound.
LEMMA QuietSteps == ASSUME IInv, BootDisabled \/ Start PROVE IInv'
<1>1. CASE BootDisabled
  <2>1. card' = NoCard /\ phase' = "bind" /\ guest' \in BOOLEAN /\ disk' = disk
        /\ sandbox' = FALSE /\ acked' = acked
    BY <1>1 DEF BootDisabled, IInv, TypeOK
  <2>2. card' \in Cards /\ card'.path = "none" /\ card'.present = FALSE /\ card'.dirty = FALSE
    BY <2>1, ImageTypes DEF NoCard
  <2>3. acked \subseteq disk["personal"]
    BY <1>1 DEF BootDisabled, IInv, AckedSurvives
  <2> QED
    BY <2>1, <2>2, <2>3 DEF IInv, TypeOK, Cards, CleanIsOnDisk, AckedSurvives, Sessions
<1>2. CASE Start
  <2>1. phase = "bind" /\ phase' = "up" /\ disk' = disk /\ card' = card /\ sandbox' = FALSE
        /\ sandbox = FALSE /\ guest' = guest /\ acked' = acked
    BY <1>2 DEF Start, IInv, TypeOK
  <2>2. TypeOK' /\ CleanIsOnDisk'
    BY <2>1 DEF IInv, TypeOK, CleanIsOnDisk
  <2>3. AckedSurvives' /\ Sessions'
    BY <2>1 DEF IInv, AckedSurvives, Sessions
  <2> QED
    BY <2>2, <2>3 DEF IInv
<1> QED
  BY <1>1, <1>2

\* One step of any action.
LEMMA Inductive == IInv /\ [Next]_vars => IInv'
<1> SUFFICES ASSUME IInv, [Next]_vars PROVE IInv'
  OBVIOUS
<1>1. CASE BootDisabled \/ Start
  BY <1>1, QuietSteps
<1>2. CASE BootFile
  BY <1>2, BootFileStep
<1>3. CASE BootFormat
  BY <1>3, BootFormatStep
<1>4. CASE EnterSandbox
  BY <1>4, EnterStep
<1>5. ASSUME NEW s \in 1..Sectors, NEW v \in Written, WriteSector(s, v) PROVE IInv'
  BY <1>5, WriteStep
<1>6. ASSUME NEW image \in HostCards, ImportRaw(image) PROVE IInv'
  BY <1>6, ImportStep
<1>7. CASE Exit
  BY <1>7, ExitPersonal, ExitSandbox
<1>8. CASE Crash
  BY <1>8, CrashStep
<1>9. CASE UNCHANGED vars
  BY <1>9 DEF vars, IInv, TypeOK, CleanIsOnDisk, AckedSurvives, Sessions
<1> QED
  BY <1>1, <1>2, <1>3, <1>4, <1>5, <1>6, <1>7, <1>8, <1>9 DEF Next

\* The inductive invariant of a card over boots, matches, exits and crashes.
THEOREM Invariance == Spec => []IInv
BY Initial, Inductive, PTL DEF Spec

\* The card is bound, present and dirty only in the combinations the code relies on.
THEOREM TypeCorrect == Spec => []TypeOK
<1>1. IInv => TypeOK
  BY DEF IInv
<1> QED
  BY <1>1, Invariance, PTL

\* A clean card is byte for byte its file, for cards of any size: memcard_flush
\* never forgets a failed write, and no torn file is taken for a card.
THEOREM CleanCards == Spec => []CleanIsOnDisk
<1>1. IInv => CleanIsOnDisk
  BY DEF IInv
<1> QED
  BY <1>1, Invariance, PTL

\* The sectors the game was told are written reach the personal file, unless the
\* last write fails or the process dies before it is repeated.
THEOREM AcknowledgedSurvive == Spec => []AckedSurvives
<1>1. IInv => AckedSurvives
  BY DEF IInv
<1> QED
  BY <1>1, Invariance, PTL

\* No step of a guest's session, the exit included, changes the personal file.
THEOREM SandboxIsolates == Spec => PersonalUntouched
<1>1. ASSUME IInv, Next, sandbox \/ (phase = "bind" /\ guest)
      PROVE  disk'["personal"] = disk["personal"]
  <2>1. phase # "off" /\ (sandbox => phase = "up")
    BY <1>1 DEF IInv, TypeOK
  <2>2. ~BootDisabled /\ ~BootFile /\ ~BootFormat
    BY <2>1 DEF BootDisabled, BootFile, BootFormat
  <2>3. CASE Start \/ Crash
    BY <2>3 DEF Start, Crash
  <2>4. CASE EnterSandbox
    BY <1>1, <2>4, EnterStep
  <2>5. ASSUME NEW s \in 1..Sectors, NEW v \in Written, WriteSector(s, v)
        PROVE  disk'["personal"] = disk["personal"]
    <3>1. sandbox
      BY <1>1, <2>5 DEF WriteSector
    <3> QED
      BY <1>1, <2>5, <3>1, WriteStep
  <2>6. ASSUME NEW image \in HostCards, ImportRaw(image) PROVE disk'["personal"] = disk["personal"]
    BY <1>1, <2>6, ImportStep
  <2>7. CASE Exit
    <3>1. sandbox
      BY <1>1, <2>7 DEF Exit
    <3> QED
      BY <1>1, <2>7, <3>1, ExitSandbox
  <2> QED
    BY <1>1, <2>2, <2>3, <2>4, <2>5, <2>6, <2>7 DEF Next
<1>2. IInv /\ [Next]_vars =>
        [sandbox \/ (phase = "bind" /\ guest) => disk'["personal"] = disk["personal"]]_vars
  BY <1>1
<1> QED
  BY <1>2, Invariance, PTL DEF Spec, PersonalUntouched
=============================================================================
