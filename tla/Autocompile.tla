---------------------------- MODULE Autocompile ----------------------------
(***************************************************************************)
(* The background overlay compiler of the runtime                          *)
(* (psxrecomp/runtime/src/autocompile.c, Windows build).  Four actors:     *)
(*                                                                         *)
(*   emu       the emulation thread: autocompile_request,                  *)
(*             autocompile_poll_main, autocompile_shutdown;                *)
(*   child     the cmd -> python -> gcc tree, writing lines to a pipe;     *)
(*   watcher   watch_thread, which drains the pipe and parses its lines;   *)
(*   preparer  publish_prepare_thread_main, which first-maps every         *)
(*             published shard and hands it to the emulation thread.       *)
(*                                                                         *)
(* A critical section under s_out_lock is one action, so is a call into    *)
(* the loader.  A wait on s_publish_cv is a program point of its own       *)
(* ("sleep1", "sleep2"): only a wake moves the preparer away from it.      *)
(***************************************************************************)
EXTENDS Integers, Sequences, FiniteSets

CONSTANTS
    MaxLines,         \* bound: lines one compile run may print
    PipeCap,          \* lines the stdout pipe buffers before the child blocks
    ReadyLimit,       \* AC_PUBLISH_READY_LIMIT (1)
    PrepareAttempts,  \* AC_PREPARE_ATTEMPTS (3)
    FailCap,          \* saturation of s_consecutive_fails (31)
    ShiftCap,         \* largest exponent of the retry delay (18)
    LoudAfter,        \* AC_LOUD_AFTER_FAILS (3)
    RetryInitial,     \* AC_RETRY_INITIAL_MS, in model ticks
    RetryMax,         \* AC_RETRY_MAX_MS, in model ticks
    PathFaults,       \* may the configure-time checks find a broken path
    Jobs              \* may CreateJobObject/Assign succeed (TRUE), fail (FALSE)

ASSUME BoundsAssumption ==
    /\ MaxLines \in Nat
    /\ PipeCap \in Nat \ {0}
    /\ PrepareAttempts \in Nat \ {0}
    /\ ReadyLimit \in Nat \ {0}

ASSUME RetryAssumption ==
    /\ FailCap \in Nat \ {0}
    /\ ShiftCap \in Nat
    /\ LoudAfter \in Nat \ {0}
    /\ RetryInitial \in Nat \ {0}
    /\ RetryMax \in Nat \ {0}

ASSUME JobsAssumption ==
    /\ Jobs \subseteq BOOLEAN /\ Jobs # {}
    /\ PathFaults \subseteq BOOLEAN /\ PathFaults # {}

VARIABLES
    state,         \* s_state: AC_IDLE, AC_RUNNING, AC_DONE
    epc,           \* where the emulation thread is
    configured,    \* s_cmd is not empty
    committing,    \* the item autocompile_poll_main has popped, 0 if none
    commit_active, \* s_publish_commit_active
    job,           \* s_job # NULL
    consecutive_fails,
    retry,         \* ms until s_retry_not_before_ms, 0 once it is past
    degraded,      \* s_degraded[0] # '\0'
    verdict,       \* how the last completed run was accounted
    tree,          \* the compile tree of the current run
    stray,         \* a tree of an abandoned run is still writing the cache
    pipe,          \* printed lines the watcher has not read
    emitted,       \* lines printed in this run
    code,          \* the direct child's exit code is 0
    wpc,           \* watcher program point
    partial,       \* s_child_line_len or s_child_line_overflow is set
    result,        \* last PSX_SHARD_RESULT parsed while streaming
    tail,          \* last result marker the diagnostic ring s_out still holds
    exit_ok,       \* s_exit_code = 0
    faults,        \* which of the s_publish_*_run counters are nonzero
    published,     \* PSX_SHARD_PUBLISHED lines the watcher parsed in this run
    raw,           \* s_publish_raw_head ...
    input_done,    \* s_publish_input_done
    ppc,           \* preparer program point
    item,          \* the item it works on
    attempts,
    preparing,     \* s_publish_preparing
    stop,          \* s_publish_stop
    ready,         \* s_publish_ready_head ...
    mapped,        \* images mapped by the preparer, not committed or discarded
    committed,     \* items committed in this run, in order
    late           \* history: mappings begun since s_publish_stop was set

emuVars   == <<state, epc, configured, committing, commit_active, job,
               consecutive_fails, retry, degraded, verdict>>
childVars == <<tree, stray, pipe, emitted, code>>
watchVars == <<wpc, partial, result, tail, exit_ok, published, input_done>>
prepVars  == <<ppc, item, attempts, preparing, late>>
pubVars   == <<raw, ready, mapped, committed, faults, stop>>
vars == <<emuVars, childVars, watchVars, prepVars, pubVars>>

Min2(a, b) == IF a <= b THEN a ELSE b

\* What one line of child output is to publish_parse_locked: a publication, a
\* result marker, a marker not at the start of its line, output long enough to
\* push every earlier marker out of s_out, a line or path too long to parse,
\* bytes not yet terminated by a newline, or a publication child_line_locked
\* does not see, its marker swallowed by the line before or its path empty.
LineKinds == {"published", "ok", "failed", "embedded", "flood", "overlong",
              "fragment", "unseen"}
Results   == {"none", "ok", "failed"}
Faults    == {"drop", "load", "parse"}

Init ==
    /\ state = "IDLE" /\ epc = "boot" /\ configured = FALSE
    /\ committing = 0 /\ commit_active = 0 /\ job = FALSE
    /\ consecutive_fails = 0 /\ retry = 0 /\ degraded = FALSE
    /\ verdict = "none"
    /\ tree = "none" /\ stray = FALSE /\ pipe = <<>> /\ emitted = 0
    /\ code = FALSE
    /\ wpc = "none" /\ partial = FALSE /\ result = "none" /\ tail = "none"
    /\ exit_ok = FALSE /\ faults = {} /\ published = 0 /\ raw = <<>>
    /\ input_done = FALSE
    /\ ppc = "none" /\ item = 0 /\ attempts = 0 /\ preparing = 0 /\ stop = FALSE
    /\ ready = <<>> /\ mapped = 0 /\ committed = <<>> /\ late = 0

-----------------------------------------------------------------------------
(* Failure accounting *)

RetryDelay(n) == Min2(RetryInitial * 2^Min2(n - 1, ShiftCap), RetryMax)

\* Mutant: the failure count does not saturate.
NoteFailureUncapped ==
    /\ consecutive_fails' = consecutive_fails + 1
    /\ retry' = RetryDelay(consecutive_fails')
    /\ degraded' = (degraded \/ consecutive_fails' >= LoudAfter)

\* autocompile_note_failure and autocompile_report_broken_once: the delay
\* doubles up to its cap, and LoudAfter failures in a row set the sticky
\* degraded reason.
NoteFailure ==
    /\ consecutive_fails' = Min2(consecutive_fails + 1, FailCap)
    /\ retry' = RetryDelay(consecutive_fails')
    /\ degraded' = (degraded \/ consecutive_fails' >= LoudAfter)

NoteSuccess ==
    /\ consecutive_fails' = 0
    /\ retry' = 0
    /\ UNCHANGED degraded

NoteNothing == UNCHANGED <<consecutive_fails, retry, degraded>>

\* The wall clock moves on.
Tick ==
    /\ retry > 0
    /\ retry' = retry - 1
    /\ UNCHANGED <<state, epc, configured, committing, commit_active, job,
                   consecutive_fails, degraded, verdict,
                   childVars, watchVars, prepVars, pubVars>>

\* Mutant: the first wait is an "if", not a "while".
WokenOnce(pc) == IF pc \in {"sleep1", "sleep2"} THEN "wait2" ELSE pc

\* WakeConditionVariable / WakeAllConditionVariable(&s_publish_cv), the
\* preparer being its only waiter: a sleeper goes back to the test of the loop
\* it sleeps in.
Woken(pc) == IF pc = "sleep1" THEN "wait1"
             ELSE IF pc = "sleep2" THEN "wait2" ELSE pc

-----------------------------------------------------------------------------
(* autocompile_configure and autocompile_request, on the emulation thread *)

\* The boot sequence stores the command line.  An interpreter that does not
\* resolve, or a path argument that does not exist, is only put on record.
Configure ==
    /\ epc = "boot"
    /\ epc' = "run" /\ configured' \in BOOLEAN
    /\ \E found \in PathFaults : degraded' = (degraded \/ (configured' /\ found))
    /\ UNCHANGED <<state, committing, commit_active, job, consecutive_fails,
                   retry, verdict, childVars, watchVars, prepVars, pubVars>>

\* The early returns of autocompile_request, publish_discard_all's refusal
\* included.
MayRequest ==
    /\ epc = "run" /\ configured /\ state = "IDLE" /\ retry = 0
    /\ preparing = 0 /\ commit_active = 0

\* publish_discard_all: both queues are dropped, the images of the ready one
\* unmapped.
DiscardAll ==
    /\ raw' = <<>> /\ ready' = <<>> /\ mapped' = mapped - Len(ready)

\* publish_discard_all and the per-run counters.
ResetRun ==
    /\ DiscardAll
    /\ commit_active' = 0 /\ committing' = 0 /\ verdict' = "none"
    /\ faults' = {} /\ input_done' = FALSE /\ stop' = FALSE
    /\ partial' = FALSE /\ exit_ok' = FALSE /\ result' = "none"
    /\ tail' = "none" /\ published' = 0 /\ committed' = <<>>
    /\ pipe' = <<>> /\ emitted' = 0 /\ code' = FALSE /\ late' = 0

\* CreatePipe fails: no child, and no retry delay.
RequestNoPipe ==
    /\ MayRequest
    /\ ResetRun
    /\ NoteNothing
    /\ UNCHANGED <<state, epc, configured, job, tree, stray, wpc, ppc, item, attempts,
                   preparing>>

\* CreateProcess fails.
RequestNoProcess ==
    /\ MayRequest
    /\ ResetRun
    /\ NoteFailure
    /\ UNCHANGED <<state, epc, configured, job, tree, stray, wpc, ppc, item, attempts,
                   preparing>>

\* The child runs but its context or the preparer thread cannot be created:
\* the direct child is terminated and the job, if there is one, closed.
\* Without a job a grandchild the direct child already spawned lives on.
RequestCancelled ==
    /\ MayRequest
    /\ ResetRun
    /\ NoteFailure
    /\ \E j \in Jobs, spawned \in BOOLEAN : stray' = (stray \/ (spawned /\ ~j))
    /\ UNCHANGED <<state, epc, configured, job, tree, wpc, ppc, item, attempts,
                   preparing>>

\* The child is resumed, the state is RUNNING and the preparer started.
RequestStart ==
    /\ MayRequest
    /\ ResetRun
    /\ NoteNothing
    /\ state' = "RUNNING" /\ epc' = "starting" /\ job' \in Jobs
    /\ tree' = "live" /\ ppc' = "wait1"
    /\ item' = 0 /\ attempts' = 0
    /\ UNCHANGED <<configured, stray, wpc, preparing>>

\* CreateThread(watch_thread) succeeds and autocompile_request returns 1.
StartWatcher ==
    /\ epc = "starting"
    /\ epc' = "run" /\ wpc' = "reading"
    /\ UNCHANGED <<state, configured, committing, commit_active, job,
                   consecutive_fails,
                   retry, degraded, verdict, childVars, partial, result, tail,
                   exit_ok, published, input_done, prepVars, pubVars>>

\* It fails: terminate the direct child, close the read end, stop the preparer.
FailWatcher ==
    /\ epc = "starting"
    /\ epc' = "cancel"
    /\ tree' \in (IF tree = "live" THEN {"dead", "orphan"} ELSE {tree})
    /\ code' = (code /\ tree # "live")
    /\ pipe' = <<>>
    /\ stop' = TRUE /\ ppc' = Woken(ppc)
    /\ UNCHANGED <<state, configured, committing, commit_active, job,
                   consecutive_fails,
                   retry, degraded, verdict, stray, emitted, watchVars, item,
                   attempts, preparing, late, raw, ready, mapped, committed, faults>>

\* The preparer is joined, the job closed, the request reported as failed.
CancelJoined ==
    /\ epc = "cancel" /\ ppc = "exited"
    /\ epc' = "run" /\ state' = "IDLE" /\ ppc' = "none"
    /\ stray' = (stray \/ (tree = "orphan" /\ ~job))
    /\ tree' = "none" /\ job' = FALSE
    /\ NoteFailure
    /\ UNCHANGED <<configured, committing, commit_active, verdict, pipe, emitted, code,
                   watchVars, item, attempts, preparing, late,
                   pubVars>>

-----------------------------------------------------------------------------
(* The compile tree (external: compile_overlays.py and what it runs) *)

ReadEndOpen == epc = "starting" \/ wpc = "reading"

\* It prints a line; a full pipe blocks it.
ChildPrint ==
    /\ tree \in {"live", "orphan"} /\ ReadEndOpen
    /\ emitted < MaxLines /\ Len(pipe) < PipeCap
    /\ \E kind \in LineKinds : pipe' = Append(pipe, kind)
    /\ emitted' = emitted + 1
    /\ UNCHANGED <<emuVars, tree, stray, code, watchVars, prepVars, pubVars>>

\* The last process of the tree ends, and with it the pipe's write end.
ChildExit ==
    /\ tree \in {"live", "orphan"}
    /\ tree' = "dead"
    /\ code' \in (IF tree = "live" THEN BOOLEAN ELSE {code})
    /\ UNCHANGED <<emuVars, stray, pipe, emitted, watchVars, prepVars, pubVars>>

\* A grandchild of an abandoned run ends.
StrayExit ==
    /\ stray
    /\ stray' = FALSE
    /\ UNCHANGED <<emuVars, tree, pipe, emitted, code, watchVars, prepVars,
                   pubVars>>

-----------------------------------------------------------------------------
(* The watcher *)

\* Which marker s_out's tail shows once the line has been appended.
TailAfter(kind) ==
    IF kind \in {"ok", "failed"} THEN kind
    ELSE IF kind = "embedded" THEN "ok"
    ELSE IF kind = "flood" THEN "none" ELSE tail

\* Mutant: the publication is linked in at the head of the list.
QueuePublishedAtHead ==
    /\ raw' = <<published + 1>> \o raw
    /\ ppc' = Woken(ppc)
    /\ UNCHANGED faults

\* child_line_locked on a publication: queue it and wake the preparer, or
\* count a drop when calloc fails.
QueuePublished ==
    \/ /\ raw' = Append(raw, published + 1)
       /\ ppc' = Woken(ppc)
       /\ UNCHANGED faults
    \/ /\ faults' = faults \cup {"drop"}
       /\ UNCHANGED <<raw, ppc>>

\* ReadFile returns a line and out_append parses it under the lock.
WatchRead ==
    /\ wpc = "reading" /\ pipe # <<>>
    /\ pipe' = Tail(pipe)
    /\ LET kind == Head(pipe) IN
        /\ partial' = (kind = "fragment")
        /\ tail' = TailAfter(kind)
        /\ result' = IF kind \in {"ok", "failed"} THEN kind ELSE result
        /\ published' = published + (IF kind = "published" THEN 1 ELSE 0)
        /\ IF kind = "published"
           THEN QueuePublished
           ELSE /\ faults' = faults \cup (IF kind = "overlong" THEN {"parse"}
                                                                ELSE {})
                /\ UNCHANGED <<raw, ppc>>
    /\ UNCHANGED <<emuVars, tree, stray, emitted, code, wpc, exit_ok,
                   input_done, item, attempts, preparing, late, ready, mapped,
                   committed, stop>>

\* End of file and process end: an unterminated line is a parse failure, and
\* s_proc is cleared.
WatchEof ==
    /\ wpc = "reading" /\ pipe = <<>> /\ tree = "dead"
    /\ wpc' = "closed"
    /\ partial' = FALSE
    /\ faults' = faults \cup (IF partial THEN {"parse"} ELSE {})
    /\ UNCHANGED <<emuVars, childVars, result, tail, exit_ok, published,
                   input_done, prepVars, raw, ready, mapped, committed, stop>>

\* Mutant: the end of input does not wake the preparer.
WatchDoneNoWake ==
    /\ wpc = "closed"
    /\ wpc' = "exited"
    /\ exit_ok' = code
    /\ input_done' = TRUE
    /\ UNCHANGED <<emuVars, childVars, partial, result, tail, published,
                   prepVars, pubVars>>

\* The exit code is stored, then the preparer told that no more will come.
WatchDone ==
    /\ wpc = "closed"
    /\ wpc' = "exited"
    /\ exit_ok' = code
    /\ input_done' = TRUE
    /\ ppc' = Woken(ppc)
    /\ UNCHANGED <<emuVars, childVars, partial, result, tail, published, item,
                   attempts, preparing, late,
                   pubVars>>

-----------------------------------------------------------------------------
(* The preparer *)

\* Mutants: the preparer does not wait for the commit, or for the ready slot.
TurnIgnoresCommit == ~stop /\ raw # <<>> /\ ready # <<>>
TurnIgnoresReady  == ~stop /\ raw # <<>> /\ commit_active # 0

\* The two wait loops at the top of its cycle, the exit test and the pop run
\* under one hold of the lock.  A wake re-tests only the loop slept in.
WaitsForInput == ~stop /\ raw = <<>> /\ ~input_done
WaitsForTurn  == ~stop /\ raw # <<>> /\ (ready # <<>> \/ commit_active # 0)

\* Mutant: a stopped preparer still works off the list.
NoMoreInputDrains == raw = <<>> /\ (stop \/ input_done)

NoMoreInput == stop \/ (raw = <<>> /\ input_done)

PrepareSleepInput ==
    /\ ppc = "wait1" /\ WaitsForInput
    /\ ppc' = "sleep1"
    /\ UNCHANGED <<emuVars, childVars, watchVars, item, attempts, preparing, late,
                   pubVars>>

PrepareSleepTurn ==
    /\ ppc = "wait2" \/ (ppc = "wait1" /\ ~WaitsForInput)
    /\ WaitsForTurn
    /\ ppc' = "sleep2"
    /\ UNCHANGED <<emuVars, childVars, watchVars, item, attempts, preparing, late,
                   pubVars>>

PastWaits ==
    /\ ppc = "wait2" \/ (ppc = "wait1" /\ ~WaitsForInput)
    /\ ~WaitsForTurn

\* overlay_loader_prepare_published is entered, counted when shutdown or the
\* cancelling of a run has already set s_publish_stop.
MapBegins == late' = IF stop THEN late + 1 ELSE late

\* It takes the oldest path; an empty list here would be a NULL dereference.
PreparePop ==
    /\ PastWaits /\ ~NoMoreInput
    /\ IF raw = <<>>
       THEN ppc' = "crashed" /\ UNCHANGED <<item, raw>>
       ELSE ppc' = "mapping" /\ item' = Head(raw) /\ raw' = Tail(raw)
    /\ attempts' = 0
    /\ preparing' = preparing + 1
    /\ MapBegins
    /\ UNCHANGED <<emuVars, childVars, watchVars, ready, mapped, committed,
                   faults, stop>>

\* overlay_loader_prepare_published maps the image.
PrepareMapped ==
    /\ ppc = "mapping"
    /\ ppc' = "handoff" /\ attempts' = attempts + 1
    /\ mapped' = mapped + 1
    /\ UNCHANGED <<emuVars, childVars, watchVars, item, preparing, late, raw, ready,
                   committed, faults, stop>>

\* It returns NULL.
PrepareFailed ==
    /\ ppc = "mapping"
    /\ ppc' = "failed" /\ attempts' = attempts + 1
    /\ UNCHANGED <<emuVars, childVars, watchVars, item, preparing, late,
                   pubVars>>

\* Attempts are left and s_publish_stop, read under the lock, is clear: the
\* preparer sleeps without the lock ...
PrepareRetry ==
    /\ ppc = "failed" /\ attempts < PrepareAttempts /\ ~stop
    /\ ppc' = "retrying"
    /\ UNCHANGED <<emuVars, childVars, watchVars, item, attempts, preparing, late,
                   pubVars>>

\* ... and maps again, whatever has been set meanwhile.
PrepareAgain ==
    /\ ppc = "retrying"
    /\ ppc' = "mapping"
    /\ MapBegins
    /\ UNCHANGED <<emuVars, childVars, watchVars, item, attempts, preparing,
                   pubVars>>

\* Mutant: a publication given up is not counted as a load failure.
PrepareGiveUpSilently ==
    /\ ppc = "failed" /\ (attempts >= PrepareAttempts \/ stop)
    /\ ppc' = "wait1" /\ item' = 0
    /\ preparing' = preparing - 1
    /\ UNCHANGED <<emuVars, childVars, watchVars, attempts, late, pubVars>>

PrepareGiveUp ==
    /\ ppc = "failed" /\ (attempts >= PrepareAttempts \/ stop)
    /\ ppc' = "wait1" /\ item' = 0
    /\ preparing' = preparing - 1
    /\ faults' = faults \cup {"load"}
    /\ UNCHANGED <<emuVars, childVars, watchVars, attempts, late, raw, ready, mapped,
                   committed, stop>>

\* The handoff.  The defensive wait for a free slot is the guard on Len(ready);
\* HandoffNeverWaits says it is never taken.
PrepareHandoff ==
    /\ ppc = "handoff" /\ ~stop /\ Len(ready) < ReadyLimit
    /\ ready' = Append(ready, item)
    /\ preparing' = preparing - 1
    /\ ppc' = "wait1" /\ item' = 0
    /\ UNCHANGED <<emuVars, childVars, watchVars, attempts, late, raw, mapped,
                   committed, faults, stop>>

PrepareDiscard ==
    /\ ppc = "handoff" /\ stop
    /\ mapped' = mapped - 1
    /\ preparing' = preparing - 1
    /\ ppc' = "leaving" /\ item' = 0
    /\ UNCHANGED <<emuVars, childVars, watchVars, attempts, late, raw, ready,
                   committed, faults, stop>>

PrepareLeave ==
    /\ PastWaits /\ NoMoreInput
    /\ ppc' = "leaving"
    /\ UNCHANGED <<emuVars, childVars, watchVars, item, attempts, preparing, late,
                   pubVars>>

\* "if (!s_publish_stop)" is read without the lock, the state stored after it.
PrepareReadStop ==
    /\ ppc = "leaving"
    /\ ppc' = IF stop THEN "exited" ELSE "storing"
    /\ UNCHANGED <<emuVars, childVars, watchVars, item, attempts, preparing, late,
                   pubVars>>

PrepareStoreDone ==
    /\ ppc = "storing"
    /\ state' = "DONE" /\ ppc' = "exited"
    /\ UNCHANGED <<epc, configured, committing, commit_active, job,
                   consecutive_fails,
                   retry, degraded, verdict, childVars, watchVars, item,
                   attempts, preparing, late,
                   pubVars>>

\* SleepConditionVariableCS may return without a wake.
SpuriousWake ==
    /\ ppc \in {"sleep1", "sleep2"}
    /\ ppc' = Woken(ppc)
    /\ UNCHANGED <<emuVars, childVars, watchVars, item, attempts, preparing, late,
                   pubVars>>

-----------------------------------------------------------------------------
(* autocompile_poll_main and autocompile_shutdown, on the emulation thread *)

\* publish_ready_pop.
PollPop ==
    /\ epc = "run" /\ ready # <<>>
    /\ epc' = "commit"
    /\ committing' = Head(ready) /\ ready' = Tail(ready)
    /\ commit_active' = commit_active + 1
    /\ UNCHANGED <<state, configured, job, consecutive_fails, retry, degraded,
                   verdict,
                   childVars, watchVars, prepVars, raw, mapped, committed,
                   faults, stop>>

\* Mutant: publish_commit_finished does not wake the preparer.
PollCommitNoWake ==
    /\ epc = "commit"
    /\ epc' = "run" /\ committing' = 0
    /\ mapped' = mapped - 1
    /\ committed' = Append(committed, committing)
    /\ commit_active' = commit_active - 1
    /\ UNCHANGED <<state, configured, job, consecutive_fails, retry, degraded,
                   verdict,
                   childVars, watchVars, prepVars, raw, ready, faults, stop>>

\* overlay_loader_commit_published consumes the image whether or not it
\* registers it; then publish_commit_finished.
PollCommit ==
    /\ epc = "commit"
    /\ epc' = "run" /\ committing' = 0
    /\ mapped' = mapped - 1
    /\ \/ /\ committed' = Append(committed, committing)
          /\ UNCHANGED faults
       \/ /\ faults' = faults \cup {"load"}
          /\ UNCHANGED committed
    /\ commit_active' = commit_active - 1
    /\ ppc' = Woken(ppc)
    /\ UNCHANGED <<state, configured, job, consecutive_fails, retry, degraded,
                   verdict,
                   childVars, watchVars, item, attempts, preparing, late, raw, ready,
                   stop>>

\* Mutant: publish_pending overlooks the ready slot.
PendingIgnoresReady == raw # <<>> \/ preparing # 0 \/ commit_active # 0

Pending == raw # <<>> \/ ready # <<>> \/ preparing # 0 \/ commit_active # 0

\* DONE and nothing pending: join both workers.
PollDone ==
    /\ epc = "run" /\ state = "DONE" /\ ~Pending
    /\ epc' = "join"
    /\ UNCHANGED <<state, configured, committing, commit_active, job,
                   consecutive_fails,
                   retry, degraded, verdict, childVars, watchVars, prepVars,
                   pubVars>>

\* The streamed result, or else the one the diagnostic tail still shows.
FinalResult == IF result # "none" THEN result ELSE tail

RunSucceeded == exit_ok /\ FinalResult = "ok" /\ faults = {}

\* Both are joined: close the job, account the run.
PollFinish ==
    /\ epc = "join" /\ ppc = "exited" /\ wpc = "exited"
    /\ epc' = "run" /\ state' = "IDLE"
    /\ ppc' = "none" /\ wpc' = "none" /\ tree' = "none" /\ job' = FALSE
    /\ result' = FinalResult
    /\ IF RunSucceeded THEN NoteSuccess /\ verdict' = "ok"
                       ELSE NoteFailure /\ verdict' = "failed"
    /\ UNCHANGED <<configured, committing, commit_active, stray, pipe, emitted, code,
                   partial, tail, exit_ok, published, input_done, item,
                   attempts, preparing, late,
                   pubVars>>

\* Mutant: shutdown does not wake the sleeping preparer.
ShutdownNoWake ==
    /\ epc = "run"
    /\ epc' = "stopP"
    /\ stop' = TRUE
    /\ tree' \in (IF tree # "live" THEN {tree}
                   ELSE IF job THEN {"dead"} ELSE {"dead", "orphan"})
    /\ code' = (code /\ tree # "live")
    /\ UNCHANGED <<state, configured, committing, commit_active, job,
                   consecutive_fails,
                   retry, degraded, verdict, stray, pipe, emitted, watchVars,
                   prepVars, raw, ready, mapped, committed, faults>>

\* Stop the pipeline, then kill the tree: all of it through the job, only the
\* direct child without one.
Shutdown ==
    /\ epc = "run"
    /\ epc' = "stopP"
    /\ stop' = TRUE /\ ppc' = Woken(ppc)
    /\ tree' \in (IF tree # "live" THEN {tree}
                   ELSE IF job THEN {"dead"} ELSE {"dead", "orphan"})
    /\ code' = (code /\ tree # "live")
    /\ UNCHANGED <<state, configured, committing, commit_active, job,
                   consecutive_fails,
                   retry, degraded, verdict, stray, pipe, emitted, watchVars,
                   item, attempts, preparing, late, raw, ready, mapped, committed,
                   faults>>

\* Mutant: shutdown does not wait for the preparer.
ShutdownAbandonsPreparer ==
    /\ epc = "stopP"
    /\ epc' = "stopW"
    /\ UNCHANGED <<state, configured, committing, commit_active, job,
                   consecutive_fails,
                   retry, degraded, verdict, childVars, watchVars, prepVars,
                   pubVars>>

ShutdownJoinPreparer ==
    /\ epc = "stopP" /\ ppc \in {"none", "exited"}
    /\ epc' = "stopW" /\ ppc' = "none"
    /\ UNCHANGED <<state, configured, committing, commit_active, job,
                   consecutive_fails,
                   retry, degraded, verdict, childVars, watchVars, item,
                   attempts, preparing, late,
                   pubVars>>

\* The watcher is joined, the job closed, the queues discarded (unless
\* publish_discard_all refuses).
ShutdownFinish ==
    /\ epc = "stopW" /\ wpc \in {"none", "exited"}
    /\ epc' = "down" /\ wpc' = "none" /\ tree' = "none" /\ job' = FALSE
    /\ state' = "IDLE"
    /\ IF preparing = 0 /\ commit_active = 0
       THEN DiscardAll
       ELSE UNCHANGED <<raw, ready, mapped>>
    /\ UNCHANGED <<configured, committing, commit_active, consecutive_fails,
                   retry, degraded, verdict, stray, pipe, emitted, code, partial, result, tail,
                   exit_ok, published, input_done, prepVars, committed, faults,
                   stop>>

\* The process has ended.
Down == epc = "down" /\ UNCHANGED vars

-----------------------------------------------------------------------------
Request == RequestNoPipe \/ RequestNoProcess \/ RequestCancelled \/ RequestStart
Child   == ChildPrint \/ ChildExit \/ StrayExit
Watcher == WatchRead \/ WatchEof \/ WatchDone
Preparer ==
    \/ PrepareSleepInput \/ PrepareSleepTurn \/ PreparePop \/ PrepareMapped
    \/ PrepareFailed \/ PrepareRetry \/ PrepareAgain \/ PrepareGiveUp
    \/ PrepareHandoff \/ PrepareDiscard \/ PrepareLeave \/ PrepareReadStop \/ PrepareStoreDone
\* What the emulation thread does once a run has been started or a shutdown
\* begun: it finishes the call it is in and polls once a frame.
Emu ==
    \/ Configure \/ StartWatcher \/ FailWatcher \/ CancelJoined
    \/ PollPop \/ PollCommit \/ PollDone \/ PollFinish
    \/ ShutdownJoinPreparer \/ ShutdownFinish

Next ==
    \/ Request \/ Child \/ Watcher \/ Preparer \/ Emu
    \/ Shutdown \/ Tick \/ SpuriousWake \/ Down

Spec == Init /\ [][Next]_vars

ChildMayEnd == ChildExit /\ Len(pipe) < PipeCap

\* The operating system runs every thread, the main loop polls every frame, and
\* the compile command terminates unless a full pipe holds up one of its writes.
\* Nothing makes the runtime request a run, shut down, or a wait wake
\* spuriously.
Fairness == WF_vars(ChildMayEnd) /\ WF_vars(Watcher) /\ WF_vars(Preparer)
            /\ WF_vars(Emu)

FairSpec == Spec /\ Fairness

-----------------------------------------------------------------------------
(* Properties *)

TypeControl ==
    /\ state \in {"IDLE", "RUNNING", "DONE"}
    /\ epc \in {"boot", "run", "starting", "cancel", "commit", "join", "stopP",
                "stopW", "down"}
    /\ wpc \in {"none", "reading", "closed", "exited"}
    /\ ppc \in {"none", "wait1", "sleep1", "wait2", "sleep2", "mapping", "failed",
                "retrying", "handoff", "leaving", "storing", "exited", "crashed"}
    /\ tree \in {"none", "live", "orphan", "dead"}

TypeFlags ==
    /\ configured \in BOOLEAN
    /\ job \in BOOLEAN /\ degraded \in BOOLEAN /\ stray \in BOOLEAN
    /\ code \in BOOLEAN /\ partial \in BOOLEAN /\ exit_ok \in BOOLEAN
    /\ input_done \in BOOLEAN /\ stop \in BOOLEAN

TypeOutput ==
    /\ verdict \in Results /\ result \in Results /\ tail \in Results
    /\ pipe \in Seq(LineKinds) /\ emitted \in 0..MaxLines
    /\ faults \subseteq Faults

TypeCounts ==
    /\ consecutive_fails \in 0..FailCap /\ retry \in Int /\ retry <= RetryMax
    /\ committing \in Nat /\ item \in Nat /\ attempts \in 0..PrepareAttempts
    /\ commit_active \in 0..1 /\ preparing \in 0..1 /\ mapped \in Nat
    /\ published \in Nat /\ late \in Nat
    /\ raw \in Seq(Nat) /\ ready \in Seq(Nat) /\ committed \in Seq(Nat)

\* The program points of the three threads, the run counters within their
\* limits and the lists of publications.
TypeOK == TypeControl /\ TypeFlags /\ TypeOutput /\ TypeCounts

\* The preparer never enters the Windows loader while the emulation thread
\* commits the preceding image there.
LoaderExclusive == ~(ppc = "mapping" /\ epc = "commit")

\* "The wait-before-prepare invariant makes this queue depth exactly one": the
\* defensive wait at the handoff is never taken.
HandoffNeverWaits == ppc = "handoff" => Len(ready) < ReadyLimit

\* "There is exactly one mapped handoff at a time": every mapped image is in
\* exactly one place, the preparer's hand, the ready slot or a commit, there is
\* at most one, the loader is never entered by both threads and the defensive
\* wait is dead code.  publish_prepare_thread_main, publish_ready_pop.
OneMappedHandoff ==
    /\ mapped = Len(ready) + commit_active + (IF ppc = "handoff" THEN 1 ELSE 0)
    /\ mapped <= 1
    /\ LoaderExclusive /\ HandoffNeverWaits

\* Leaving the second wait loop without stop or end of input, the list the
\* preparer pops is never empty, although a wake does not re-test the first.
NoNullItem == ppc # "crashed"

\* "IDLE should imply empty queues": when autocompile_request may start a run,
\* no worker of an earlier one is alive and nothing is queued or mapped, so
\* publish_discard_all neither refuses nor drops anything.
IdleQuiescent ==
    epc = "run" /\ state = "IDLE" =>
        /\ ppc = "none" /\ wpc = "none" /\ tree = "none" /\ ~job
        /\ raw = <<>> /\ ready = <<>> /\ mapped = 0
        /\ preparing = 0 /\ commit_active = 0

\* autocompile_shutdown: "nothing is preparing or committing: the discard
\* cannot be refused", and no image stays mapped and no worker alive.
ShutdownClean ==
    /\ epc = "stopW" => preparing = 0 /\ commit_active = 0
    /\ epc = "down" => /\ raw = <<>> /\ ready = <<>> /\ mapped = 0
                       /\ ppc = "none" /\ wpc = "none" /\ state = "IDLE"

\* Neither a provider that reports IDLE nor one that has shut down has a worker
\* or an undisposed publication left.
Quiescent == IdleQuiescent /\ ShutdownClean

\* A run accounted as successful has committed every shard its compiler
\* published, in the order of publication.
NoSilentLoss ==
    verdict = "ok" => committed = [i \in 1..published |-> i]

\* A child left detached "would permit the state to remain IDLE and a second
\* writer to enter the same cache", and without a job object "only crash-orphan
\* protection is lost": no second compile tree writes the cache while one that
\* autocompile_request gave up is still alive.  Without a job it may be: the
\* grandchildren of a cancelled start are not terminated.
SingleWriter == ~(stray /\ tree \in {"live", "orphan"})

\* autocompile_shutdown and the cancelling of a run set s_publish_stop "so the
\* preparer can never START another LoadLibrary".  It can start one, the retry
\* it was granted before and sleeps towards, and no second: the join waits for
\* one mapping at most.
OneMapAfterStop == late <= 1

\* A run that has started is brought back to IDLE: the compiler's end, the
\* last wake of the preparer and both joins cannot be missed.
RunCompletes == state # "IDLE" ~> state = "IDLE"

\* autocompile_shutdown, called in any state, returns.
ShutdownCompletes == epc = "stopP" ~> epc = "down"

-----------------------------------------------------------------------------
(* The threads implement one queue of publications *)

\* Every publication not yet committed or lost, oldest first: in a commit, in
\* the ready slot, in the preparer's hands, in the raw list.
Outstanding ==
    (IF epc = "commit" THEN <<committing>> ELSE <<>>) \o ready
    \o (IF ppc \in {"mapping", "failed", "retrying", "handoff"} THEN <<item>> ELSE <<>>)
    \o raw

Fifo == INSTANCE PublicationQueue WITH
            open <- state # "IDLE", aborted <- stop, queue <- Outstanding,
            faulted <- faults # {}

\* Three threads, two lists and the items they hold in between behave as the
\* single queue of PublicationQueue: nothing is lost unrecorded, reordered or
\* committed twice, and a run settles with nothing outstanding.
ImplementsQueue == Fifo!Spec

-----------------------------------------------------------------------------
(* The inductive strengthening *)

Holding == ppc \in {"mapping", "failed", "retrying", "handoff"}
Stopping == epc \in {"cancel", "stopP", "stopW", "down"}

\* Which program points of the threads go together.  A sleeper in the second
\* loop has a nonempty list because only the preparer itself shortens it.
ThreadInv ==
    /\ state = "IDLE" =>
          /\ ppc = "none" /\ wpc = "none" /\ tree = "none" /\ ~job
          /\ raw = <<>> /\ ready = <<>>
          /\ epc \in {"boot", "run", "stopP", "stopW", "down"}
    /\ state = "DONE" =>
          /\ ppc \in {"exited", "none"} /\ raw = <<>> /\ input_done
    /\ epc \in {"starting", "cancel"} =>
          /\ state = "RUNNING" /\ wpc = "none" /\ ~input_done
          /\ raw = <<>> /\ ready = <<>>
          /\ ppc \in {"wait1", "sleep1", "leaving", "exited"}
    /\ epc = "starting" => ppc \in {"wait1", "sleep1"}
    /\ epc = "join" => state = "DONE" /\ ready = <<>> /\ ppc = "exited"
    /\ epc \in {"stopW", "down"} => ppc = "none"
    /\ epc = "down" => state = "IDLE"
    /\ epc = "boot" => state = "IDLE"
    /\ Stopping => stop
    /\ stop => Stopping \/ state = "IDLE"
    /\ input_done => wpc \in {"exited", "none"}
    /\ ppc \in {"wait2", "sleep2"} => raw # <<>>
    /\ ppc = "leaving" => stop \/ (raw = <<>> /\ input_done)
    /\ ppc = "storing" => raw = <<>> /\ input_done
    /\ ppc = "exited" => stop \/ state = "DONE"
    /\ ppc = "none" => state = "IDLE" \/ epc \in {"stopW", "down"}
    /\ ppc # "crashed"

\* Every counter is what the program points say, and at most one publication
\* is between the raw list and the end of its commit.
CountInv ==
    /\ preparing = IF Holding THEN 1 ELSE 0
    /\ commit_active = IF epc = "commit" THEN 1 ELSE 0
    /\ mapped = Len(ready) + commit_active + (IF ppc = "handoff" THEN 1 ELSE 0)
    /\ Len(ready) + commit_active + preparing <= 1
    /\ ppc \in {"mapping", "retrying"} => attempts < PrepareAttempts

\* The publications are numbered through, from the committed ones over the one
\* in flight to the raw list.
Numbered ==
    /\ Len(committed) + Len(ready) + commit_active + preparing + Len(raw)
          = published
    /\ \A i \in 1..Len(raw) : raw[i] = published - Len(raw) + i
    /\ \A i \in 1..Len(committed) : committed[i] = i
    /\ epc = "commit" => committing = published - Len(raw)
    /\ ready # <<>> => Head(ready) = published - Len(raw)
    /\ Holding => item = published - Len(raw)

\* They are while no fault is on record and no teardown has begun.
OrderInv ==
    /\ faults = {} /\ ~stop => Numbered
    /\ verdict = "ok" =>
          state = "IDLE" /\ committed = [i \in 1..published |-> i]

\* Nothing has begun late before the stop, and the one mapping that may has
\* used up the retry the preparer was sleeping towards.
LateInv ==
    /\ ~stop => late = 0
    /\ late <= 1
    /\ late = 1 => ppc # "retrying"

\* The inductive invariant.
IInv == TypeOK /\ ThreadInv /\ CountInv /\ OrderInv /\ LateInv
=============================================================================
