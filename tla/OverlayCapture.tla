--------------------------- MODULE OverlayCapture ---------------------------
(***************************************************************************)
(* The capture of executed overlay code                                    *)
(* (psxrecomp/runtime/src/overlay_capture.c), with the two places that     *)
(* change what it captures: the CD DMA (dma.c) and the guest-store hook    *)
(* overlay_watch_note_write (memory.c).  Four actors:                      *)
(*                                                                         *)
(*   emu       the emulation thread: guest instructions and stores, CD     *)
(*             DMA, overlay_autocapture_tick and the shutdown sequence of  *)
(*             shutdown_runtime (main.cpp);                                *)
(*   worker    autocap_write_thread_main, one thread per periodic snapshot;*)
(*   preserver preserve_write_thread_main, the FIFO of outgoing snapshots; *)
(*   provider  the compile run behind CodeProvider (autocompile.c).        *)
(*                                                                         *)
(* RAM is a function from pages to contents.  A piece of evidence (an      *)
(* "item") is a page together with the content that was interpreted there; *)
(* a snapshot is the set of items its manifest lists, and its FNV          *)
(* signature is that set.  Frame counters only delay a tick and are left   *)
(* out.                                                                    *)
(***************************************************************************)
EXTENDS Integers, Sequences, FiniteSets

CONSTANTS
    NumPages,      \* RAM pages are 1..NumPages
    Contents,      \* what a page may hold
    Streaming,     \* pages at 0x1C0000 and above: DMA there is not captured
    AbandonAfter,  \* attempts after which a stopped preserver gives up (5)
    MaxSeq,        \* bound: snapshots taken before the final one
    MaxWrites,     \* bound: stores and DMA chunks that reach RAM
    Resources      \* may threads, memory and disk work (TRUE), fail (FALSE)

ASSUME CaptureAssumption ==
    /\ NumPages \in Nat \ {0}
    /\ Streaming \subseteq 1..NumPages
    /\ AbandonAfter \in Nat \ {0}
    /\ MaxSeq \in Nat /\ MaxWrites \in Nat
    /\ Resources \subseteq BOOLEAN /\ TRUE \in Resources

Pages == 1..NumPages
Items == Pages \X Contents
Jobs == [items : SUBSET Items, seq : Nat, attempts : 0..AbandonAfter]

VARIABLES
    mem,        \* RAM: the content of every page
    live,       \* pages with a bit in g_dirty_ram_exec_pc_bitmap
    xfer,       \* pages the running CD DMA may still write
    active,     \* s_active
    seq,        \* s_snapshot_seq
    manifest,   \* the file at s_capture_path: the snapshot and its sequence,
                \*   which is s_latest_commit_seq
    history,    \* the files of s_capture_path.d: a set of snapshots
    mutex,      \* s_commit_mutex exists: SDL_CreateMutex may have failed
    commit,     \* who of the writer threads is between the test of
                \*   capture_commit_temp and its replacement, and with what
                \*   outcome: history_ok, and sequence >= s_latest_commit_seq
    wjob,       \* s_autocap_write_job, a set of at most one job
    wstate,     \* s_autocap_write_state: 0 idle, 1 writing, 2 complete
    wsig,       \* the job's manifest_sig # 0
    pq,         \* the list s_preserve_head .. s_preserve_tail
    ppc,        \* the preserver: none, top, writing, exited
    pjob,       \* the job it writes, a set of at most one
    pstop,      \* s_preserve_stop
    pending,    \* s_autocap_provider_sig_pending, a set of at most one snapshot
    sigAtReq,   \* s_autocap_sig_at_req, likewise
    regNew,     \* overlay_loader_registered_count() # s_autocap_reg_at_req
    prov,       \* the provider: idle or started
    epc,        \* run, or how far shutdown_runtime has come
    writes,     \* ghost: how often RAM was written, for the bound
    executed,   \* ghost: every item ever interpreted
    forgone,    \* ghost: items given up with a report, or by a guest store
    released,   \* ghost: items overlay_autocapture_shutdown freed unwritten
    unsaved,    \* ghost: items still live when the process ended, which its
                \*   last snapshot did not save
    asked       \* ghost: the last snapshot a compile run was accepted for

evidence == <<mem, live, xfer, active, seq, writes, executed, forgone>>
files == <<manifest, history, commit, mutex>>
worker == <<wjob, wstate, wsig>>
preserver == <<pq, ppc, pjob, pstop>>
request == <<pending, sigAtReq, regNew, asked>>
vars == <<evidence, files, worker, preserver, request, prov, epc, released, unsaved>>

-----------------------------------------------------------------------------
(* Operators *)

\* The bytes of these pages bound to their execution evidence.
ItemsOf(pages) == {<<p, mem[p]>> : p \in pages}

\* The pages capture_executed_pages selects for a scope: the executed ones of
\* it and, with include_halo, of the page on either side.
ExecutedPages(lo, hi, halo) ==
    {p \in live : lo - halo <= p /\ p <= hi + halo}

Job(items, n) == [items |-> items, seq |-> n, attempts |-> 0]

\* A thread, an allocation or a file operation fails.
MayFail == FALSE \in Resources

\* Mutant: the mutex is not taken.
CommitIsFree == TRUE

\* SDL_LockMutex(s_commit_mutex) would return: there is no mutex, or no thread
\* is inside the section it guards.
CommitFree == ~mutex \/ commit = {}

Committing(writer) == \E c \in commit : c.by = writer

\* capture_commit_temp keeps the snapshot in the additive history.  One that is
\* there already cannot fail.
Archive(items, ok) ==
    \/ ok /\ history' = history \union {items}
    \/ ~ok /\ MayFail /\ items \notin history /\ UNCHANGED history

\* The first half of capture_commit_temp, up to the test: only a snapshot no
\* older than the last one committed may replace the file at s_capture_path.
EnterCommit(writer, job) ==
    /\ ~Committing(writer) /\ CommitFree
    /\ \E ok \in BOOLEAN :
          /\ Archive(job.items, ok)
          /\ commit' = commit \union
                {[by |-> writer, kept |-> ok, newest |-> job.seq >= manifest.seq]}
    /\ UNCHANGED <<manifest, mutex>>

\* The second half: the replacement, which may fail, and the unlock.  "ok" is
\* the returned signature: the contribution is in the history.
LeaveCommit(writer, job, ok) ==
    /\ \E c \in commit :
          /\ c.by = writer /\ c.kept = ok
          /\ commit' = commit \ {c}
          /\ \/ c.newest /\ manifest' = [items |-> job.items, seq |-> job.seq]
             \/ (~c.newest \/ MayFail) /\ UNCHANGED manifest
    /\ UNCHANGED <<history, mutex>>

\* write_json_snapshot fails: no trace, and no commit.
FormatFails(writer) == MayFail /\ ~Committing(writer) /\ UNCHANGED files

\* overlay_capture_write_current: the emulation thread snapshots and commits
\* in one go, while it runs no other code of its own.
WriteAndCommit(items, n, ok) ==
    \/ /\ CommitFree /\ Archive(items, ok)
       /\ \/ n >= manifest.seq /\ manifest' = [items |-> items, seq |-> n]
          \/ (n < manifest.seq \/ MayFail) /\ UNCHANGED manifest
       /\ UNCHANGED <<commit, mutex>>
    \/ ~ok /\ MayFail /\ UNCHANGED files

-----------------------------------------------------------------------------
(* Guest execution, stores and CD DMA *)

Init ==
    /\ mem \in [Pages -> Contents]
    /\ live = {} /\ xfer = {} /\ active = FALSE /\ seq = 0
    /\ manifest = [items |-> {}, seq |-> 0] /\ history = {}
    /\ mutex \in Resources /\ commit = {}
    /\ wjob = {} /\ wstate = 0 /\ wsig = FALSE
    /\ pq = <<>> /\ pjob = {} /\ pstop = FALSE
    /\ ppc \in {IF w THEN "top" ELSE "none" : w \in Resources}
    /\ pending = {} /\ sigAtReq = {} /\ regNew = TRUE /\ asked = {}
    /\ prov = "idle"
    /\ epc = "run" /\ writes = 0 /\ executed = {} /\ forgone = {} /\ released = {}
    /\ unsaved = {}

\* exec_pc_table_record: an interpreted instruction marks its word and page.
Execute(p) ==
    /\ epc = "run" /\ p \notin live
    /\ live' = live \union {p}
    /\ executed' = executed \union {<<p, mem[p]>>}
    /\ forgone' = forgone \ {<<p, mem[p]>>}
    /\ UNCHANGED <<mem, xfer, active, seq, writes, files, worker, preserver,
                   request, prov, epc, released, unsaved>>

\* Mutant: the store hook leaves the evidence bits alone.
NoteWriteKeeps(p, pages) == pages

\* overlay_watch_note_write: a store clears the evidence of its page.
NoteWrite(p, pages) == pages \ {p}

\* The bytes of page p become c.
WriteRam(p, c) ==
    /\ writes < MaxWrites
    /\ writes' = writes + 1
    /\ mem' = [mem EXCEPT ![p] = c]

\* A guest store replaces what a page holds; its evidence is dropped rather
\* than bound to the new bytes.
Store(p, c) ==
    /\ epc = "run" /\ c # mem[p]
    /\ WriteRam(p, c)
    /\ live' = NoteWrite(p, live)
    /\ forgone' = forgone \union ItemsOf(live \intersect {p})
    /\ UNCHANGED <<xfer, active, seq, executed, files, worker, preserver,
                   request, prov, epc, released, unsaved>>

\* The pages whose bits overlay_capture_before_dma clears.
ClearScope(lo, hi) == live \ (lo..hi)

\* The first words of a transfer to lo..hi reach RAM.
FirstWords(lo, hi, c, kept) ==
    /\ WriteRam(lo, c)
    /\ live' = NoteWrite(lo, kept)
    /\ xfer' = lo..hi

\* overlay_capture_before_dma returns early: capture is not active, the target
\* is a streaming buffer, or nothing in the scope was interpreted.
DmaUnobserved(lo, hi, c) ==
    /\ ~active \/ lo \in Streaming \/ live \intersect (lo..hi) = {}
    /\ FirstWords(lo, hi, c, live)
    /\ forgone' = forgone \union ItemsOf(live \intersect {lo})
    /\ UNCHANGED <<seq, files, preserver>>

\* preserve_writer_start: the thread runs already or is created now.
StartedWriter == IF ppc = "none" THEN "top" ELSE ppc

\* preserve_snapshot_enqueue_owned: the snapshot goes to the tail of the FIFO.
EnqueueOwned(job) ==
    /\ pq' = Append(pq, [job EXCEPT !.attempts = 0])
    /\ ppc' = StartedWriter
    /\ UNCHANGED pjob

\* The outgoing evidence is copied and queued before the first word.
DmaPreserve(lo, hi, c) ==
    /\ EnqueueOwned(Job(ItemsOf(ExecutedPages(lo, hi, 1)), seq + 1))
    /\ seq' = seq + 1
    /\ FirstWords(lo, hi, c, ClearScope(lo, hi))
    /\ UNCHANGED <<forgone, files, pstop>>

\* The snapshot could not be queued: a synchronous commit, whose failure is
\* reported as the loss of the epoch.
DmaSyncFallback(lo, hi, c) ==
    /\ MayFail
    /\ \E ok \in BOOLEAN :
          /\ WriteAndCommit(ItemsOf(ExecutedPages(lo, hi, 1)), seq + 1, ok)
          /\ forgone' = IF ok THEN forgone
                        ELSE forgone \union ItemsOf(live \intersect (lo..hi))
    /\ seq' = seq + 1
    /\ FirstWords(lo, hi, c, ClearScope(lo, hi))
    /\ UNCHANGED preserver

\* dma_advance moves the first words of a CD transfer, after
\* overlay_capture_before_dma.
DmaBegin(lo, hi, c) ==
    /\ epc = "run" /\ xfer = {} /\ lo <= hi
    /\ \/ DmaUnobserved(lo, hi, c)
       \/ /\ active /\ lo \notin Streaming /\ live \intersect (lo..hi) # {}
          /\ seq < MaxSeq
          /\ DmaPreserve(lo, hi, c) \/ DmaSyncFallback(lo, hi, c)
    /\ UNCHANGED <<active, executed, worker, request, prov, epc, released, unsaved>>

\* Later words, after the guest may have run again: no snapshot, only the
\* store hook.
DmaWords(p, c) ==
    /\ epc = "run" /\ p \in xfer
    /\ WriteRam(p, c)
    /\ live' = NoteWrite(p, live)
    /\ forgone' = forgone \union ItemsOf(live \intersect {p})
    /\ xfer' = {q \in xfer : q >= p}
    /\ UNCHANGED <<active, seq, executed, files, worker, preserver, request,
                   prov, epc, released, unsaved>>

\* finish_async_cdrom_transfer: the first transfer after the game started
\* activates capture (overlay_capture_on_dma), and its cache check may register
\* a candidate.
DmaEnd ==
    /\ epc = "run" /\ xfer # {}
    /\ xfer' = {}
    /\ \E b \in BOOLEAN : active' = (active \/ b)
    /\ \E b \in BOOLEAN : regNew' = (regNew \/ b)
    /\ UNCHANGED <<mem, live, seq, writes, executed, forgone, files, worker, preserver,
                   pending, sigAtReq, asked, prov, epc, released, unsaved>>
-----------------------------------------------------------------------------
(* The periodic capture *)

\* autocap_write_launch succeeded.
Launch(job) ==
    /\ wjob' = {job} /\ wstate' = 1 /\ wsig' = FALSE

\* Enough pressure, nothing outstanding and no compile run: snapshot every
\* executed page and start a new evidence epoch.  cdrom_load_in_progress
\* answers no while an XA stream runs, so a transfer may be under way.
TickFire ==
    /\ epc = "run" /\ active
    /\ wstate = 0 /\ wjob = {} /\ pending = {} /\ prov = "idle"
    /\ seq < MaxSeq
    /\ Launch(Job(ItemsOf(ExecutedPages(1, NumPages, 0)), seq + 1))
    /\ seq' = seq + 1
    /\ live' = {}
    /\ UNCHANGED <<mem, xfer, active, writes, executed, forgone, files, preserver,
                   request, prov, epc, released, unsaved>>

\* Mutant: the bitmaps are cleared even if the snapshot was not launched.
TickFireFailsClears ==
    /\ MayFail
    /\ epc = "run" /\ active
    /\ wstate = 0 /\ wjob = {} /\ pending = {} /\ prov = "idle"
    /\ seq < MaxSeq
    /\ seq' = seq + 1
    /\ live' = {}
    /\ UNCHANGED <<mem, xfer, active, writes, executed, forgone, files, worker,
                   preserver, request, prov, epc, released, unsaved>>

\* The snapshot or its thread could not be created: the live epoch stays.
TickFireFails ==
    /\ MayFail
    /\ epc = "run" /\ active
    /\ wstate = 0 /\ wjob = {} /\ pending = {} /\ prov = "idle"
    /\ seq < MaxSeq
    /\ seq' = seq + 1
    /\ UNCHANGED <<mem, live, xfer, active, writes, executed, forgone, files, worker,
                   preserver, request, prov, epc, released, unsaved>>

\* autocap_write_thread_main formats the snapshot and enters the commit ...
WorkerCommits ==
    /\ wstate = 1
    /\ \E job \in wjob : EnterCommit("worker", job)
    /\ UNCHANGED <<evidence, worker, preserver, request, prov, epc, released, unsaved>>

\* ... and stores what it returned.
WorkerDone ==
    /\ wstate = 1
    /\ \E job \in wjob, ok \in BOOLEAN :
          /\ LeaveCommit("worker", job, ok) \/ (~ok /\ FormatFails("worker"))
          /\ wsig' = ok
    /\ wstate' = 2
    /\ UNCHANGED <<evidence, wjob, preserver, request, prov, epc, released, unsaved>>

WorkerWrites == WorkerCommits \/ WorkerDone

\* An unchanged manifest whose last request registered nothing new.
Futile(snapshot) == snapshot = sigAtReq /\ ~regNew

\* autocap_provider_request_try for the retained signature.
Accepted(snapshot) ==
    /\ pending' = {} /\ sigAtReq' = snapshot /\ regNew' = FALSE
    /\ asked' = snapshot /\ prov' = "started"

\* Mutant: the signature is recorded before request() has accepted it.
RefusedRecorded(snapshot) ==
    /\ pending' = snapshot /\ sigAtReq' = snapshot /\ regNew' = FALSE
    /\ UNCHANGED <<asked, prov>>

Refused(snapshot) ==
    /\ pending' = snapshot /\ UNCHANGED <<sigAtReq, regNew, asked, prov>>

Dropped(snapshot) ==
    /\ Futile(snapshot) /\ pending' = {}
    /\ UNCHANGED <<sigAtReq, regNew, asked, prov>>

RequestTry(snapshot) ==
    /\ \/ prov # "idle" /\ Refused(snapshot)
       \/ prov = "idle" /\ Dropped(snapshot)
       \/ prov = "idle" /\ ~Futile(snapshot) /\ Accepted(snapshot)
       \/ prov = "idle" /\ ~Futile(snapshot) /\ Refused(snapshot)

\* A written snapshot is collected and offered to the provider.
TickCollect ==
    /\ epc = "run" /\ wstate = 2 /\ wsig
    /\ \E job \in wjob : RequestTry({job.items})
    /\ wjob' = {} /\ wstate' = 0
    /\ UNCHANGED <<evidence, files, wsig, preserver, epc, released, unsaved>>

\* A failed write keeps the immutable job for a retry.
TickCollectFailed ==
    /\ epc = "run" /\ wstate = 2 /\ ~wsig
    /\ wstate' = 0
    /\ UNCHANGED <<evidence, files, wjob, wsig, preserver, request, prov,
                   epc, released, unsaved>>

\* The kept job is launched again.
TickRetry ==
    /\ epc = "run" /\ wstate = 0
    /\ \E job \in wjob : Launch(job)
    /\ UNCHANGED <<evidence, files, preserver, request, prov, epc, released, unsaved>>

\* The retained request is tried again.
TickRequest ==
    /\ epc = "run" /\ wstate # 2 /\ wjob = {} /\ pending # {}
    /\ RequestTry(pending)
    /\ UNCHANGED <<evidence, files, worker, preserver, epc, released, unsaved>>

-----------------------------------------------------------------------------
(* The preserver *)

\* The head of the FIFO is taken under the lock.
PreserveTake ==
    /\ ppc = "top" /\ pq # <<>>
    /\ pjob' = {Head(pq)} /\ pq' = Tail(pq) /\ ppc' = "writing"
    /\ UNCHANGED <<evidence, files, worker, pstop, request, prov, epc,
                   released, unsaved>>

PreserveCommits ==
    /\ ppc = "writing"
    /\ \E job \in pjob : EnterCommit("preserver", job)
    /\ UNCHANGED <<evidence, worker, preserver, request, prov, epc, released, unsaved>>

PreserveWritten ==
    /\ ppc = "writing"
    /\ \E job \in pjob : LeaveCommit("preserver", job, TRUE)
    /\ pjob' = {} /\ ppc' = "top"
    /\ UNCHANGED <<evidence, worker, pq, pstop, request, prov, epc, released, unsaved>>

\* Mutant: a failed job is requeued for ever.
NeverAbandoning(attempts) == FALSE

\* Does the preserver give this job up?  Only once shutdown asked it to stop.
Abandoning(attempts) == pstop /\ attempts >= AbandonAfter

\* attempts saturates at AbandonAfter, beyond which nothing tells it apart.
CountAttempt(n) == IF n < AbandonAfter THEN n + 1 ELSE n

\* A failed write goes back to the tail of the FIFO, or is reported lost.
PreserveFailed ==
    /\ ppc = "writing"
    /\ \E job \in pjob :
          /\ LeaveCommit("preserver", job, FALSE) \/ FormatFails("preserver")
          /\ \/ /\ Abandoning(CountAttempt(job.attempts))
                /\ forgone' = forgone \union job.items
                /\ pq' = pq
             \/ /\ ~Abandoning(CountAttempt(job.attempts))
                /\ forgone' = forgone
                /\ pq' = Append(pq, [job EXCEPT !.attempts = CountAttempt(job.attempts)])
    /\ pjob' = {} /\ ppc' = "top"
    /\ UNCHANGED <<mem, live, xfer, active, seq, writes, executed, worker, pstop,
                   request, prov, epc, released, unsaved>>

\* The loop ends when nothing is queued and shutdown asked for it.
PreserveExit ==
    /\ ppc = "top" /\ pq = <<>> /\ pstop
    /\ ppc' = "exited"
    /\ UNCHANGED <<evidence, files, worker, pq, pjob, pstop, request, prov,
                   epc, released, unsaved>>

Preserver == PreserveTake \/ PreserveCommits \/ PreserveWritten \/ PreserveFailed
             \/ PreserveExit

-----------------------------------------------------------------------------
(* The compile run behind the code provider *)

\* The run ends, and may have registered new candidates.
ProviderDone ==
    /\ prov # "idle"
    /\ prov' = "idle"
    /\ \E b \in BOOLEAN : regNew' = (regNew \/ b)
    /\ UNCHANGED <<evidence, files, worker, preserver, pending, sigAtReq, asked,
                   epc, released, unsaved>>

-----------------------------------------------------------------------------
(* shutdown_runtime *)

\* autocompile_shutdown has joined the compile run.
Quit ==
    /\ epc = "run" /\ epc' = "autocap"
    /\ prov' = "idle"
    /\ UNCHANGED <<evidence, files, worker, preserver, request, released, unsaved>>

\* Mutant: the job is freed but s_autocap_write_state stays at 2.
AutocaptureShutdownKeepsState ==
    /\ epc = "autocap" /\ epc' = "pending"
    /\ \/ wstate = 0 /\ UNCHANGED <<worker, released>>
       \/ /\ wstate = 2
          /\ released' = released \union
                (IF wsig THEN {} ELSE UNION {job.items : job \in wjob})
          /\ wjob' = {} /\ UNCHANGED <<wstate, wsig>>
    /\ UNCHANGED <<evidence, files, preserver, request, prov, unsaved>>

\* overlay_autocapture_shutdown: the worker is joined and its job freed.
AutocaptureShutdown ==
    /\ epc = "autocap" /\ epc' = "pending"
    /\ \/ wstate = 0 /\ UNCHANGED <<worker, released>>
       \/ /\ wstate = 2
          /\ released' = released \union
                (IF wsig THEN {} ELSE UNION {job.items : job \in wjob})
          /\ wjob' = {} /\ wstate' = 0 /\ UNCHANGED wsig
    /\ UNCHANGED <<evidence, files, preserver, request, prov, unsaved>>

\* overlay_capture_wait_pending hands a kept job to the FIFO, or reports its
\* loss.
HandOver(job) ==
    \/ EnqueueOwned(job) /\ UNCHANGED forgone
    \/ /\ MayFail
       /\ forgone' = forgone \union job.items
       /\ UNCHANGED <<pq, ppc, pjob>>

\* It then stops the preserver and waits for it.
WaitPending ==
    /\ epc = "pending"
    /\ \/ wjob = {} /\ UNCHANGED <<forgone, pq, ppc, pjob, wstate>>
       \/ (\E job \in wjob : HandOver(job)) /\ wstate' = 0
    /\ wjob' = {}
    /\ pstop' = (ppc' # "none")
    /\ epc' = IF ppc' = "none" THEN "final" ELSE "join"
    /\ UNCHANGED <<mem, live, xfer, active, seq, writes, executed, files, wsig,
                   request, prov, released, unsaved>>

PreserverJoined ==
    /\ epc = "join" /\ ppc = "exited"
    /\ epc' = "final" /\ ppc' = "none"
    /\ UNCHANGED <<evidence, files, worker, pq, pjob, pstop, request, prov,
                   released, unsaved>>

\* overlay_capture_write_json: one synchronous snapshot of what is left, if
\* capture is active.  Its result is ignored, and the process ends.
FinalWrite ==
    /\ epc = "final" /\ epc' = "down"
    /\ \E ok \in BOOLEAN :
          /\ IF active
             THEN /\ WriteAndCommit(ItemsOf(ExecutedPages(1, NumPages, 0)), seq + 1, ok)
                  /\ seq' = seq + 1
             ELSE ~ok /\ UNCHANGED <<files, seq>>
          /\ unsaved' = unsaved \union (IF ok THEN {} ELSE ItemsOf(live))
    /\ live' = {}
    /\ UNCHANGED <<mem, xfer, active, writes, executed, forgone, worker, preserver,
                   request, prov, released>>

Down == epc = "down" /\ UNCHANGED vars

ShutdownStep ==
    \/ AutocaptureShutdown \/ WaitPending \/ PreserverJoined \/ FinalWrite

-----------------------------------------------------------------------------

Guest ==
    \/ \E p \in Pages : Execute(p)
    \/ \E p \in Pages, c \in Contents : Store(p, c) \/ DmaWords(p, c)
    \/ \E lo, hi \in Pages, c \in Contents : DmaBegin(lo, hi, c)
    \/ DmaEnd

Tick == TickFire \/ TickFireFails \/ TickCollect \/ TickCollectFailed
        \/ TickRetry \/ TickRequest

Next == \/ Guest \/ Tick \/ WorkerWrites \/ Preserver
        \/ ProviderDone \/ Quit \/ ShutdownStep \/ Down

Spec == Init /\ [][Next]_vars

\* The operating system runs the two writer threads and lets each have the
\* mutex if the other keeps giving it back, a compile run ends, and
\* shutdown_runtime does not stop half way.  Writes may fail for ever, the
\* guest may stop producing evidence, and nothing makes the user quit.
Fairness == /\ SF_vars(WorkerWrites) /\ SF_vars(Preserver)
            /\ WF_vars(ProviderDone) /\ WF_vars(ShutdownStep)

FairSpec == Spec /\ Fairness

-----------------------------------------------------------------------------
(* Properties *)

JobItems(jobs) == UNION {job.items : job \in jobs}
Queued == {pq[i] : i \in DOMAIN pq}

\* Snapshots that exist only in memory: the periodic job, the FIFO, the job the
\* preserver writes.
Held == JobItems(wjob) \union JobItems(Queued) \union JobItems(pjob)

TypeEvidence ==
    /\ mem \in [Pages -> Contents]
    /\ live \subseteq Pages /\ xfer \subseteq Pages /\ active \in BOOLEAN
    /\ seq \in Nat /\ writes \in 0..MaxWrites
    /\ executed \subseteq Items /\ forgone \subseteq Items
    /\ released \subseteq Items /\ unsaved \subseteq Items

TypeFiles ==
    /\ manifest \in [items : SUBSET Items, seq : Nat]
    /\ history \subseteq SUBSET Items
    /\ commit \subseteq [by : {"worker", "preserver"}, kept : BOOLEAN, newest : BOOLEAN]
    /\ mutex \in BOOLEAN

TypeWriters ==
    /\ wjob \subseteq Jobs /\ \A a, b \in wjob : a = b
    /\ wstate \in 0..2 /\ wsig \in BOOLEAN
    /\ wstate # 0 => wjob # {}
    /\ pq \in Seq(Jobs) /\ ppc \in {"none", "top", "writing", "exited"}
    /\ pjob \subseteq Jobs /\ \A a, b \in pjob : a = b
    /\ pstop \in BOOLEAN /\ (pjob # {} <=> ppc = "writing")

TypeRequest ==
    /\ pending \subseteq SUBSET Items /\ sigAtReq \subseteq SUBSET Items
    /\ asked \subseteq SUBSET Items
    /\ regNew \in BOOLEAN /\ prov \in {"idle", "started"}
    /\ epc \in {"run", "autocap", "pending", "join", "final", "down"}

\* The two writers, the request and the evidence they hold; a worker that is
\* writing or done has a job (s_autocap_write_state, s_autocap_write_job).
TypeOK == TypeEvidence /\ TypeFiles /\ TypeWriters /\ TypeRequest

\* "Never attach pre-write PC evidence to post-write bytes" (memory.c): every
\* page and content that a snapshot binds together, on disk, queued or still to
\* be taken, was interpreted with exactly that content.
NoHybrid ==
    ItemsOf(live) \union Held \union (UNION history) \union manifest.items
        \subseteq executed

\* A collected signature stands for a contribution that is in the history.
CollectedIsDurable ==
    wstate = 2 /\ wsig => \A job \in wjob : job.items \in history

\* No interpreted code is forgotten: it is live, in a snapshot that waits for a
\* writer, in the additive history, or was given up by a store or with a report.
\* There are two exceptions, both at shutdown: the periodic job that
\* overlay_autocapture_shutdown frees, and what is live when the last snapshot
\* fails or, capture never having been activated, is not taken.
EvidenceConserved ==
    /\ executed \subseteq ItemsOf(live) \union Held \union (UNION history)
                            \union forgone \union released \union unsaved
    /\ CollectedIsDurable

\* "Only the newest snapshot is allowed to replace the compatibility/latest
\* path": with three threads that test and replace, with retries and requeues,
\* the manifest never goes back to an older snapshot as long as s_commit_mutex
\* could be created (capture_commit_temp).
ManifestNewest == [][mutex => manifest'.seq >= manifest.seq]_vars

\* The snapshot that waits for a compile run to be accepted for it.
Offered ==
    IF pending # {} THEN pending
    ELSE IF wstate = 2 /\ wsig THEN {job.items : job \in wjob} ELSE {}

\* "Retain the former's signature until request() accepts it": a written snapshot
\* stops being offered only when a run was accepted for exactly it, now or as
\* the last one (autocap_provider_request_try).
OfferedUntilAccepted ==
    [][epc = "run" /\ epc' = "run" /\ Offered # {} /\ Offered' = {}
          => asked' = Offered]_vars

\* shutdown_runtime returns, whatever the two writers are doing and even if no
\* write ever succeeds again.
ShutdownReturns == epc # "run" ~> epc = "down"

\* "Failed jobs remain queued and retry; normal shutdown drains them."
ShutdownDrains ==
    epc = "down" =>
        executed \subseteq (UNION history) \union forgone \union unsaved
=============================================================================
