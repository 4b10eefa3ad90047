----------------------- MODULE OverlayCaptureProofs -----------------------
(***************************************************************************)
(* What OverlayCapture guarantees for every number of pages, every set of  *)
(* contents and every bound on snapshots and writes.                       *)
(***************************************************************************)
EXTENDS OverlayCapture, TLAPS

-----------------------------------------------------------------------------
(* Sequences of jobs *)

Elements(q) == {q[i] : i \in DOMAIN q}

\* Appending to the preserve FIFO adds exactly the appended job.
LEMMA AppendElements ==
    ASSUME NEW S, NEW q \in Seq(S), NEW x \in S
    PROVE  /\ Append(q, x) \in Seq(S)
           /\ Elements(Append(q, x)) = Elements(q) \union {x}
<1>1. Append(q, x) \in Seq(S) /\ Len(Append(q, x)) = Len(q) + 1
  OBVIOUS
<1>2. \A i \in 1..Len(q) : Append(q, x)[i] = q[i]
  OBVIOUS
<1>3. Append(q, x)[Len(q) + 1] = x
  OBVIOUS
<1>4. DOMAIN Append(q, x) = 1..(Len(q) + 1) /\ DOMAIN q = 1..Len(q) /\ Len(q) \in Nat
  BY <1>1
<1>5. ASSUME NEW y \in Elements(q) PROVE y \in Elements(Append(q, x))
  <2>1. PICK i \in 1..Len(q) : y = q[i]
    BY <1>4, <1>5 DEF Elements
  <2>2. i \in 1..(Len(q) + 1) /\ Append(q, x)[i] = y
    BY <2>1, <1>2, <1>4
  <2> QED BY <2>2, <1>4 DEF Elements
<1>6. x \in Elements(Append(q, x))
  <2>1. Len(q) + 1 \in 1..(Len(q) + 1)
    BY <1>4
  <2> QED BY <2>1, <1>3, <1>4 DEF Elements
<1>7. ASSUME NEW y \in Elements(Append(q, x)) PROVE y \in Elements(q) \union {x}
  <2>1. PICK i \in 1..(Len(q) + 1) : y = Append(q, x)[i]
    BY <1>4, <1>7 DEF Elements
  <2>2. CASE i = Len(q) + 1
    BY <2>1, <2>2, <1>3
  <2>3. CASE i # Len(q) + 1
    <3>1. i \in 1..Len(q)
      BY <2>3, <1>4
    <3> QED BY <3>1, <2>1, <1>2, <1>4 DEF Elements
  <2> QED BY <2>2, <2>3
<1> QED BY <1>1, <1>5, <1>6, <1>7

\* Taking the head off the FIFO leaves the other jobs.
LEMMA TailElements ==
    ASSUME NEW S, NEW q \in Seq(S), q # <<>>
    PROVE  /\ Head(q) \in S /\ Tail(q) \in Seq(S)
           /\ Elements(q) = Elements(Tail(q)) \union {Head(q)}
<1>1. Head(q) \in S /\ Tail(q) \in Seq(S) /\ Head(q) = q[1]
  OBVIOUS
<1>2. /\ Len(q) \in Nat \ {0} /\ DOMAIN q = 1..Len(q)
      /\ DOMAIN Tail(q) = 1..(Len(q) - 1)
  OBVIOUS
<1>3. \A i \in 1..(Len(q) - 1) : Tail(q)[i] = q[i + 1]
  OBVIOUS
<1>4. ASSUME NEW y \in Elements(q) PROVE y \in Elements(Tail(q)) \union {Head(q)}
  <2>1. PICK i \in 1..Len(q) : y = q[i]
    BY <1>2, <1>4 DEF Elements
  <2>2. CASE i = 1
    BY <2>1, <2>2, <1>1
  <2>3. CASE i # 1
    <3>1. i - 1 \in 1..(Len(q) - 1) /\ Tail(q)[i - 1] = q[(i - 1) + 1]
      BY <2>3, <1>2, <1>3
    <3>2. Tail(q)[i - 1] = y
      BY <3>1, <2>1
    <3> QED BY <3>1, <3>2, <1>2 DEF Elements
  <2> QED BY <2>2, <2>3
<1>5. ASSUME NEW y \in Elements(Tail(q)) PROVE y \in Elements(q)
  <2>1. PICK i \in 1..(Len(q) - 1) : y = Tail(q)[i]
    BY <1>2, <1>5 DEF Elements
  <2>2. i + 1 \in 1..Len(q) /\ y = q[i + 1]
    BY <2>1, <1>2, <1>3
  <2> QED BY <2>2, <1>2 DEF Elements
<1>6. Head(q) \in Elements(q)
  <2>1. 1 \in 1..Len(q)
    BY <1>2
  <2> QED BY <2>1, <1>1, <1>2 DEF Elements
<1> QED BY <1>1, <1>4, <1>5, <1>6

-----------------------------------------------------------------------------
(* Type correctness *)

\* Every snapshot lists pages with their contents.
LEMMA SnapshotType ==
    ASSUME TypeEvidence, NEW S \in SUBSET live
    PROVE  ItemsOf(S) \in SUBSET Items
BY DEF TypeEvidence, ItemsOf, Items

LEMMA ExecutedPagesLive ==
    ASSUME NEW lo, NEW hi, NEW halo
    PROVE  ExecutedPages(lo, hi, halo) \in SUBSET live
BY DEF ExecutedPages

\* A new snapshot is a job.
LEMMA JobType ==
    ASSUME NEW items \in SUBSET Items, NEW n \in Nat
    PROVE  /\ Job(items, n) \in Jobs
           /\ Job(items, n).items = items
           /\ [Job(items, n) EXCEPT !.attempts = 0] = Job(items, n)
BY CaptureAssumption DEF Job, Jobs

\* The retry count of a job is its only changeable field.
LEMMA AttemptType ==
    ASSUME NEW job \in Jobs, NEW n \in 0..AbandonAfter
    PROVE  /\ [job EXCEPT !.attempts = n] \in Jobs
           /\ [job EXCEPT !.attempts = n].items = job.items
           /\ job.items \in SUBSET Items /\ job.seq \in Nat
           /\ job.attempts \in 0..AbandonAfter
BY DEF Jobs

\* A commit keeps the files well formed, whatever its outcome.
LEMMA ArchiveType ==
    ASSUME TypeFiles, NEW items \in SUBSET Items, NEW ok, Archive(items, ok)
    PROVE  history' \subseteq SUBSET Items
BY DEF TypeFiles, Archive

LEMMA CommitType ==
    ASSUME TypeFiles, NEW items \in SUBSET Items, NEW n \in Nat, NEW ok \in BOOLEAN,
           WriteAndCommit(items, n, ok)
    PROVE  TypeFiles'
<1>1. CASE /\ Archive(items, ok) /\ UNCHANGED <<commit, mutex>>
           /\ manifest' = [items |-> items, seq |-> n] \/ UNCHANGED manifest
  BY <1>1, ArchiveType DEF TypeFiles
<1>2. CASE UNCHANGED files
  BY <1>2 DEF TypeFiles, files
<1> QED BY <1>1, <1>2 DEF WriteAndCommit

LEMMA EnterType ==
    ASSUME TypeFiles, NEW writer \in {"worker", "preserver"}, NEW job \in Jobs,
           EnterCommit(writer, job)
    PROVE  TypeFiles'
<1>1. job.items \in SUBSET Items /\ job.seq \in Nat
  BY DEF Jobs
<1>2. PICK ok \in BOOLEAN :
        /\ Archive(job.items, ok)
        /\ commit' = commit \union
              {[by |-> writer, kept |-> ok, newest |-> job.seq >= manifest.seq]}
  BY DEF EnterCommit
<1>3. (job.seq >= manifest.seq) \in BOOLEAN
  BY <1>1 DEF TypeFiles
<1>4. [by |-> writer, kept |-> ok, newest |-> job.seq >= manifest.seq]
        \in [by : {"worker", "preserver"}, kept : BOOLEAN, newest : BOOLEAN]
  BY <1>3
<1>5. history' \subseteq SUBSET Items
  BY <1>1, <1>2, ArchiveType
<1>6. UNCHANGED <<manifest, mutex>>
  BY DEF EnterCommit
<1> QED BY <1>2, <1>4, <1>5, <1>6 DEF TypeFiles

LEMMA LeaveType ==
    ASSUME TypeFiles, NEW writer, NEW job \in Jobs, NEW ok,
           LeaveCommit(writer, job, ok) \/ FormatFails(writer)
    PROVE  TypeFiles'
<1>1. CASE /\ manifest' = [items |-> job.items, seq |-> job.seq] \/ UNCHANGED manifest
           /\ commit' \subseteq commit /\ UNCHANGED <<history, mutex>>
  BY <1>1 DEF TypeFiles, Jobs
<1>2. CASE UNCHANGED files
  BY <1>2 DEF TypeFiles, files
<1> QED BY <1>1, <1>2 DEF LeaveCommit, FormatFails

\* The provider request keeps the request state well formed.
LEMMA RequestType ==
    ASSUME TypeRequest, NEW snap \in SUBSET (SUBSET Items), RequestTry(snap),
           UNCHANGED epc
    PROVE  TypeRequest'
BY DEF TypeRequest, RequestTry, Accepted, Refused, Dropped

\* Words that reach RAM keep memory and evidence well formed.
LEMMA FirstWordsType ==
    ASSUME TypeEvidence, NEW lo \in Pages, NEW hi \in Pages, NEW c \in Contents,
           NEW kept \in SUBSET live, FirstWords(lo, hi, c, kept)
    PROVE  /\ mem' \in [Pages -> Contents] /\ live' \subseteq Pages
           /\ xfer' \subseteq Pages /\ writes' \in 0..MaxWrites
BY CaptureAssumption DEF TypeEvidence, FirstWords, WriteRam, NoteWrite, Pages

\* A launched periodic job is the only one.
LEMMA LaunchType ==
    ASSUME TypeWriters, NEW job \in Jobs, wjob' = {job}, wstate' = 1, wsig' = FALSE,
           UNCHANGED preserver
    PROVE  TypeWriters'
<1>1. wjob' \subseteq Jobs /\ (\A a, b \in wjob' : a = b) /\ wjob' # {}
  OBVIOUS
<1>2. wstate' \in 0..2
  OBVIOUS
<1>4. wsig' \in BOOLEAN
  OBVIOUS
<1>3. /\ pq' \in Seq(Jobs) /\ ppc' \in {"none", "top", "writing", "exited"}
      /\ pjob' \subseteq Jobs /\ (\A a, b \in pjob' : a = b) /\ pstop' \in BOOLEAN
      /\ (pjob' # {} <=> ppc' = "writing")
  BY DEF TypeWriters, preserver
<1> QED BY <1>1, <1>2, <1>3, <1>4 DEF TypeWriters

\* Type correctness is inductive.
LEMMA TypeInductive == TypeOK /\ [Next]_vars => TypeOK'
<1> SUFFICES ASSUME TypeOK, [Next]_vars PROVE TypeOK'
  OBVIOUS
<1>p. TypeEvidence /\ TypeFiles /\ TypeWriters /\ TypeRequest
  BY DEF TypeOK
<1>s. seq \in Nat /\ seq + 1 \in Nat
  BY <1>p, CaptureAssumption DEF TypeEvidence
<1>1. ASSUME NEW p \in Pages, Execute(p) PROVE TypeOK'
  <2>1. <<p, mem[p]>> \in Items
    BY <1>p DEF TypeEvidence, Items
  <2> QED BY <2>1, <1>1, <1>p DEF Execute, TypeOK, TypeEvidence, TypeFiles,
        TypeWriters, TypeRequest, files, worker, preserver, request
<1>2. ASSUME NEW p \in Pages, NEW c \in Contents, Store(p, c) PROVE TypeOK'
  <2>1. ItemsOf(live \intersect {p}) \in SUBSET Items
    BY <1>p, SnapshotType
  <2>2. TypeEvidence'
    <3>1. /\ mem' = [mem EXCEPT ![p] = c] /\ writes' = writes + 1
          /\ writes < MaxWrites /\ live' = live \ {p}
          /\ forgone' = forgone \union ItemsOf(live \intersect {p})
          /\ UNCHANGED <<xfer, active, seq, executed, released, unsaved>>
      BY <1>2 DEF Store, WriteRam, NoteWrite
    <3>2. mem' \in [Pages -> Contents]
      BY <3>1, <1>p DEF TypeEvidence
    <3> QED BY <2>1, <3>1, <3>2, <1>p, CaptureAssumption DEF TypeEvidence
  <2> QED BY <2>2, <1>2, <1>p DEF Store, TypeOK, TypeFiles, TypeWriters,
        TypeRequest, files, worker, preserver, request
<1>3. ASSUME NEW p \in Pages, NEW c \in Contents, DmaWords(p, c) PROVE TypeOK'
  <2>1. ItemsOf(live \intersect {p}) \in SUBSET Items
    BY <1>p, SnapshotType
  <2>2. TypeEvidence'
    BY <2>1, <1>3, <1>p, CaptureAssumption DEF DmaWords, WriteRam, NoteWrite, TypeEvidence
  <2> QED BY <2>2, <1>3, <1>p DEF DmaWords, TypeOK, TypeFiles, TypeWriters,
        TypeRequest, files, worker, preserver, request
<1>4. ASSUME NEW lo \in Pages, NEW hi \in Pages, NEW c \in Contents,
             DmaBegin(lo, hi, c)
      PROVE  TypeOK'
  <2>1. /\ ItemsOf(live \intersect {lo}) \in SUBSET Items
        /\ ItemsOf(live \intersect (lo..hi)) \in SUBSET Items
        /\ ItemsOf(ExecutedPages(lo, hi, 1)) \in SUBSET Items
    BY <1>p, SnapshotType, ExecutedPagesLive
  <2>2. TypeRequest'
    BY <1>4, <1>p DEF DmaBegin, TypeRequest, request
  <2>3. ClearScope(lo, hi) \in SUBSET live
    BY DEF ClearScope
  <2>4. CASE DmaUnobserved(lo, hi, c)
    <3>1. TypeEvidence'
      BY <2>1, <2>4, <1>4, <1>p, FirstWordsType DEF DmaUnobserved, DmaBegin, TypeEvidence
    <3> QED BY <3>1, <2>2, <2>4, <1>4, <1>p DEF DmaUnobserved, DmaBegin, TypeOK,
          TypeFiles, TypeWriters, files, worker, preserver
  <2>5. CASE seq < MaxSeq /\ DmaPreserve(lo, hi, c)
    <3> DEFINE job == Job(ItemsOf(ExecutedPages(lo, hi, 1)), seq + 1)
    <3>1. TypeEvidence'
      BY <2>3, <2>5, <1>4, <1>p, <1>s, FirstWordsType, CaptureAssumption
         DEF DmaPreserve, DmaBegin, TypeEvidence
    <3>2. job \in Jobs /\ pq' = Append(pq, job)
      BY <2>1, <2>5, <1>s, JobType DEF DmaPreserve, EnqueueOwned
    <3>3. pq' \in Seq(Jobs)
      BY <3>2, <1>p, AppendElements DEF TypeWriters
    <3>4. TypeWriters'
      BY <3>3, <2>5, <1>4, <1>p DEF DmaPreserve, EnqueueOwned, StartedWriter,
         DmaBegin, TypeWriters, worker
    <3> QED BY <3>1, <3>4, <2>2, <2>5, <1>p DEF DmaPreserve, TypeOK, TypeFiles, files
  <2>6. CASE seq < MaxSeq /\ DmaSyncFallback(lo, hi, c)
    <3>0. forgone' \subseteq Items
      BY <2>1, <2>6, <1>p DEF DmaSyncFallback, TypeEvidence
    <3>1. TypeEvidence'
      BY <3>0, <2>3, <2>6, <1>4, <1>p, <1>s, FirstWordsType, CaptureAssumption
         DEF DmaSyncFallback, DmaBegin, TypeEvidence
    <3>2. TypeFiles'
      BY <2>1, <2>6, <1>p, <1>s, CommitType DEF DmaSyncFallback
    <3> QED BY <3>1, <3>2, <2>2, <2>6, <1>4, <1>p DEF DmaSyncFallback, DmaBegin,
          TypeOK, TypeWriters, worker, preserver
  <2> QED BY <2>4, <2>5, <2>6, <1>4 DEF DmaBegin
<1>5. CASE DmaEnd
  <2>1. active' \in BOOLEAN /\ regNew' \in BOOLEAN
    BY <1>5, <1>p DEF DmaEnd, TypeEvidence, TypeRequest
  <2> QED BY <2>1, <1>5, <1>p DEF DmaEnd, TypeOK, TypeEvidence, TypeFiles,
        TypeWriters, TypeRequest, files, worker, preserver
<1>6. CASE TickFire
  <2> DEFINE job == Job(ItemsOf(ExecutedPages(1, NumPages, 0)), seq + 1)
  <2>1. job \in Jobs
    BY <1>p, <1>s, SnapshotType, ExecutedPagesLive, JobType
  <2>2. TypeEvidence'
    BY <1>6, <1>p, <1>s, CaptureAssumption DEF TickFire, TypeEvidence
  <2>3. wjob' = {job} /\ wstate' = 1 /\ wsig' = FALSE /\ UNCHANGED preserver
    BY <1>6 DEF TickFire, Launch
  <2> HIDE DEF job
  <2>4. TypeWriters'
    BY <2>1, <2>3, <1>p, LaunchType
  <2> QED BY <2>2, <2>4, <1>6, <1>p DEF TickFire, TypeOK, TypeFiles, TypeRequest,
        files, request
<1>7. CASE TickFireFails
  <2>1. TypeEvidence'
    BY <1>7, <1>p, <1>s, CaptureAssumption DEF TickFireFails, TypeEvidence
  <2> QED BY <2>1, <1>7, <1>p DEF TickFireFails, TypeOK, TypeFiles, TypeWriters,
        TypeRequest, files, worker, preserver, request
<1>8. CASE WorkerCommits
  <2>1. PICK job \in wjob : EnterCommit("worker", job)
    BY <1>8 DEF WorkerCommits
  <2>2. TypeFiles'
    BY <2>1, <1>p, EnterType DEF TypeWriters
  <2> QED BY <2>2, <1>8, <1>p DEF WorkerCommits, TypeOK, TypeEvidence, TypeWriters,
        TypeRequest, evidence, worker, preserver, request
<1>25. CASE WorkerDone
  <2>1. PICK job \in wjob, ok \in BOOLEAN :
          /\ LeaveCommit("worker", job, ok) \/ FormatFails("worker")
          /\ wsig' = ok
    BY <1>25 DEF WorkerDone
  <2>2. TypeFiles'
    BY <2>1, <1>p, LeaveType DEF TypeWriters
  <2>3. wsig' \in BOOLEAN /\ wjob' # {} /\ wjob' = wjob /\ wstate' = 2
    BY <2>1, <1>25 DEF WorkerDone
  <2>4. UNCHANGED preserver
    BY <1>25 DEF WorkerDone
  <2>5. TypeWriters'
    BY <2>3, <2>4, <1>p DEF TypeWriters, preserver
  <2> QED BY <2>2, <2>5, <1>25, <1>p DEF WorkerDone, TypeOK, TypeEvidence,
        TypeRequest, evidence, request
<1>9. CASE TickCollect
  <2>1. PICK job \in wjob : RequestTry({job.items})
    BY <1>9 DEF TickCollect
  <2>2. {job.items} \in SUBSET (SUBSET Items)
    BY <1>p DEF TypeWriters, Jobs
  <2>3. TypeRequest'
    BY <2>1, <2>2, <1>9, <1>p, RequestType DEF TickCollect
  <2> QED BY <2>3, <1>9, <1>p DEF TickCollect, TypeOK, TypeEvidence, TypeFiles,
        TypeWriters, evidence, files, preserver
<1>10. CASE TickCollectFailed
  BY <1>10, <1>p DEF TickCollectFailed, TypeOK, TypeEvidence, TypeFiles,
     TypeWriters, TypeRequest, evidence, files, preserver, request
<1>11. CASE TickRetry
  <2>1. PICK job \in wjob : wjob' = {job} /\ wstate' = 1 /\ wsig' = FALSE
    BY <1>11 DEF TickRetry, Launch
  <2>2. TypeWriters'
    BY <2>1, <1>11, <1>p, LaunchType DEF TickRetry, TypeWriters
  <2> QED BY <2>2, <1>11, <1>p DEF TickRetry, TypeOK, TypeEvidence, TypeFiles,
        TypeRequest, evidence, files, request
<1>12. CASE TickRequest
  <2>1. TypeRequest'
    BY <1>12, <1>p, RequestType DEF TickRequest, TypeRequest
  <2> QED BY <2>1, <1>12, <1>p DEF TickRequest, TypeOK, TypeEvidence, TypeFiles,
        TypeWriters, evidence, files, worker, preserver
<1>13. CASE PreserveTake
  <2>1. Head(pq) \in Jobs /\ Tail(pq) \in Seq(Jobs)
    BY <1>13, <1>p, TailElements DEF PreserveTake, TypeWriters
  <2> QED BY <2>1, <1>13, <1>p DEF PreserveTake, TypeOK, TypeEvidence, TypeFiles,
        TypeWriters, TypeRequest, evidence, files, worker, request
<1>26. CASE PreserveCommits
  <2>1. PICK job \in pjob : EnterCommit("preserver", job)
    BY <1>26 DEF PreserveCommits
  <2>2. TypeFiles'
    BY <2>1, <1>p, EnterType DEF TypeWriters
  <2> QED BY <2>2, <1>26, <1>p DEF PreserveCommits, TypeOK, TypeEvidence, TypeWriters,
        TypeRequest, evidence, worker, preserver, request
<1>14. CASE PreserveWritten
  <2>1. PICK job \in pjob : LeaveCommit("preserver", job, TRUE)
    BY <1>14 DEF PreserveWritten
  <2>3. TypeFiles'
    BY <2>1, <1>p, LeaveType DEF TypeWriters
  <2> QED BY <2>3, <1>14, <1>p DEF PreserveWritten, TypeOK, TypeEvidence,
        TypeWriters, TypeRequest, evidence, worker, request
<1>15. CASE PreserveFailed
  <2> DEFINE again(job) == [job EXCEPT !.attempts = CountAttempt(job.attempts)]
  <2>1. PICK job \in pjob :
          /\ LeaveCommit("preserver", job, FALSE) \/ FormatFails("preserver")
          /\ \/ forgone' = forgone \union job.items /\ pq' = pq
             \/ forgone' = forgone /\ pq' = Append(pq, again(job))
    BY <1>15 DEF PreserveFailed
  <2>2. job \in Jobs /\ job.items \in SUBSET Items /\ job.seq \in Nat
        /\ job.attempts \in 0..AbandonAfter
    BY <1>p DEF TypeWriters, Jobs
  <2>3. CountAttempt(job.attempts) \in 0..AbandonAfter
    BY <2>2, CaptureAssumption DEF CountAttempt
  <2>4. again(job) \in Jobs
    BY <2>2, <2>3, AttemptType
  <2>5. TypeFiles'
    BY <2>1, <2>2, <1>p, LeaveType
  <2>6. pq' \in Seq(Jobs)
    BY <2>1, <2>4, <1>p, AppendElements DEF TypeWriters
  <2>7. TypeEvidence'
    BY <2>1, <2>2, <1>15, <1>p DEF PreserveFailed, TypeEvidence
  <2>8. TypeWriters'
    BY <2>6, <1>15, <1>p DEF PreserveFailed, TypeWriters, worker
  <2> QED BY <2>5, <2>7, <2>8, <1>15, <1>p DEF PreserveFailed, TypeOK,
        TypeRequest, request
<1>16. CASE PreserveExit
  BY <1>16, <1>p DEF PreserveExit, TypeOK, TypeEvidence, TypeFiles,
     TypeWriters, TypeRequest, evidence, files, worker, request
<1>18. CASE ProviderDone
  BY <1>18, <1>p DEF ProviderDone, TypeOK, TypeEvidence, TypeFiles,
     TypeWriters, TypeRequest, evidence, files, worker, preserver
<1>19. CASE Quit
  BY <1>19, <1>p DEF Quit, TypeOK, TypeEvidence, TypeFiles,
     TypeWriters, TypeRequest, evidence, files, worker, preserver, request
<1>20. CASE AutocaptureShutdown
  <2>1. UNION {job.items : job \in wjob} \in SUBSET Items
    BY <1>p DEF TypeWriters, Jobs
  <2>2. TypeEvidence' /\ TypeWriters'
    BY <2>1, <1>20, <1>p DEF AutocaptureShutdown, TypeEvidence, TypeWriters,
       evidence, worker, preserver
  <2> QED BY <2>2, <1>20, <1>p DEF AutocaptureShutdown, TypeOK, TypeFiles,
        TypeRequest, files, request
<1>21. CASE WaitPending
  <2>1. TypeEvidence' /\ TypeWriters'
    <3>1. CASE wjob = {} /\ UNCHANGED <<forgone, pq, ppc, pjob>>
      BY <3>1, <1>21, <1>p DEF WaitPending, TypeEvidence, TypeWriters
    <3>2. ASSUME NEW job \in wjob, HandOver(job) PROVE TypeEvidence' /\ TypeWriters'
      <4>1. job \in Jobs /\ job.items \in SUBSET Items
        BY <1>p DEF TypeWriters, Jobs
      <4>2. [job EXCEPT !.attempts = 0] \in Jobs
        BY <4>1, AttemptType, CaptureAssumption
      <4>a. Append(pq, [job EXCEPT !.attempts = 0]) \in Seq(Jobs)
        BY <4>2, <1>p, AppendElements DEF TypeWriters
      <4>3. pq' \in Seq(Jobs) /\ ppc' \in {"none", "top", "writing", "exited"}
            /\ pjob' = pjob /\ forgone' \subseteq Items
            /\ (ppc' = "writing" <=> ppc = "writing")
        BY <4>1, <4>a, <3>2, <1>p DEF HandOver, EnqueueOwned,
           StartedWriter, TypeWriters, TypeEvidence
      <4>5. wjob' = {} /\ pstop' = (ppc' # "none") /\ wstate' \in 0..2
            /\ (wstate' # 0 => wjob' # {})
        BY <3>2, <1>21, <1>p DEF WaitPending, TypeWriters
      <4>6. pstop' \in BOOLEAN
        BY <4>5
      <4> QED BY <4>3, <4>5, <4>6, <1>21, <1>p DEF WaitPending, TypeEvidence, TypeWriters
    <3> QED BY <3>1, <3>2, <1>21 DEF WaitPending
  <2> QED BY <2>1, <1>21, <1>p DEF WaitPending, TypeOK, TypeFiles, TypeRequest,
        files, request
<1>22. CASE PreserverJoined
  BY <1>22, <1>p DEF PreserverJoined, TypeOK, TypeEvidence, TypeFiles,
     TypeWriters, TypeRequest, evidence, files, worker, request
<1>23. CASE FinalWrite
  <2>1. ItemsOf(ExecutedPages(1, NumPages, 0)) \in SUBSET Items
    BY <1>p, SnapshotType, ExecutedPagesLive
  <2>2. TypeFiles'
    BY <2>1, <1>23, <1>p, <1>s, CommitType DEF FinalWrite, TypeFiles, files
  <2>4. ItemsOf(live) \in SUBSET Items
    BY <1>p, SnapshotType
  <2>5. unsaved' \in SUBSET Items /\ seq' \in Nat /\ live' = {}
    BY <2>4, <1>23, <1>p, <1>s DEF FinalWrite, TypeEvidence
  <2>6. UNCHANGED <<mem, xfer, active, writes, executed, forgone, released>>
    BY <1>23 DEF FinalWrite
  <2>3. TypeEvidence'
    BY <2>5, <2>6, <1>p DEF TypeEvidence
  <2> QED BY <2>2, <2>3, <1>23, <1>p DEF FinalWrite, TypeOK, TypeWriters,
        TypeRequest, worker, preserver, request
<1>24. CASE UNCHANGED vars
  BY <1>24, <1>p DEF TypeOK, TypeEvidence, TypeFiles, TypeWriters, TypeRequest,
     evidence, files, worker, preserver, request, vars
<1> QED BY <1>1, <1>2, <1>3, <1>4, <1>5, <1>6, <1>7, <1>8, <1>9, <1>10, <1>11,
      <1>12, <1>13, <1>14, <1>15, <1>16, <1>18, <1>19, <1>20, <1>21,
      <1>22, <1>23, <1>24, <1>25, <1>26
      DEF Next, Guest, Tick, WorkerWrites, Preserver, ShutdownStep, Down

\* The initial state is well formed.
LEMMA TypeInitial == Init => TypeOK
<1> SUFFICES ASSUME Init PROVE TypeOK
  OBVIOUS
<1>1a. active \in BOOLEAN
  BY DEF Init
<1>1. TypeEvidence
  BY <1>1a, CaptureAssumption DEF Init, TypeEvidence
<1>0. TypeFiles
  BY CaptureAssumption DEF Init, TypeFiles
<1>2. ppc \in {"none", "top", "writing", "exited"}
  BY DEF Init
<1>5. pq \in Seq(Jobs) /\ wstate \in 0..2
  BY DEF Init
<1>6. wsig \in BOOLEAN /\ pstop \in BOOLEAN
  BY DEF Init
<1>3. TypeWriters
  BY <1>2, <1>5, <1>6 DEF Init, TypeWriters
<1>4. TypeRequest
  BY DEF Init, TypeRequest
<1> QED BY <1>0, <1>1, <1>3, <1>4 DEF TypeOK

\* The variables of the capture keep their types, the periodic job and the job
\* in the preserver's hand are single, and a worker that is writing or done has
\* its job (overlay_capture.c).
THEOREM TypeCorrect == Spec => []TypeOK
BY TypeInitial, TypeInductive, PTL DEF Spec

-----------------------------------------------------------------------------
(* No hybrid *)

LiveExecuted == ItemsOf(live) \subseteq executed
HeldExecuted == Held \subseteq executed
FilesExecuted == UNION history \subseteq executed /\ manifest.items \subseteq executed

LEMMA FourSubsets ==
    ASSUME NEW A, NEW B, NEW C, NEW D, NEW E
    PROVE  A \union B \union C \union D \subseteq E
           <=> A \subseteq E /\ B \subseteq E /\ C \subseteq E /\ D \subseteq E
OBVIOUS

LEMMA NoHybridParts == NoHybrid <=> LiveExecuted /\ HeldExecuted /\ FilesExecuted
BY FourSubsets DEF NoHybrid, LiveExecuted, HeldExecuted, FilesExecuted

\* A part of the live evidence is bound to the bytes it ran with.
LEMMA SnapshotExecuted ==
    ASSUME LiveExecuted, NEW S \in SUBSET live
    PROVE  ItemsOf(S) \subseteq executed
BY DEF LiveExecuted, ItemsOf

\* A write that clears the evidence of its page leaves the rest bound to bytes
\* that did not change.
LEMMA WriteKeepsBinding ==
    ASSUME TypeEvidence, LiveExecuted, NEW p \in Pages, NEW c \in Contents,
           NEW kept \in SUBSET live,
           mem' = [mem EXCEPT ![p] = c], live' = kept \ {p}, executed' = executed
    PROVE  LiveExecuted'
<1>1. ASSUME NEW q \in live' PROVE q \in live /\ mem'[q] = mem[q]
  BY <1>1 DEF TypeEvidence
<1> QED BY <1>1 DEF LiveExecuted, ItemsOf

\* A commit of executed items leaves only executed items in the files.
LEMMA CommitExecuted ==
    ASSUME FilesExecuted, NEW items \in SUBSET executed, NEW n, NEW ok \in BOOLEAN,
           WriteAndCommit(items, n, ok), executed' = executed
    PROVE  FilesExecuted'
BY DEF FilesExecuted, WriteAndCommit, Archive, files

LEMMA EnterExecuted ==
    ASSUME FilesExecuted, NEW writer, NEW job, job.items \subseteq executed,
           EnterCommit(writer, job), executed' = executed
    PROVE  FilesExecuted'
BY DEF FilesExecuted, EnterCommit, Archive

LEMMA LeaveExecuted ==
    ASSUME FilesExecuted, NEW writer, NEW job, job.items \subseteq executed, NEW ok,
           LeaveCommit(writer, job, ok) \/ FormatFails(writer), executed' = executed
    PROVE  FilesExecuted'
<1>1. CASE /\ manifest' = [items |-> job.items, seq |-> job.seq] \/ UNCHANGED manifest
           /\ UNCHANGED history
  BY <1>1 DEF FilesExecuted
<1>2. CASE UNCHANGED files
  BY <1>2 DEF FilesExecuted, files
<1> QED BY <1>1, <1>2 DEF LeaveCommit, FormatFails

\* What is held in memory, job by job.
LEMMA HeldJobs ==
    HeldExecuted <=> /\ \A job \in wjob : job.items \subseteq executed
                     /\ \A job \in Elements(pq) : job.items \subseteq executed
                     /\ \A job \in pjob : job.items \subseteq executed
BY DEF HeldExecuted, Held, JobItems, Queued, Elements

LEMMA HeldJobsNext ==
    HeldExecuted' <=> /\ \A job \in wjob' : job.items \subseteq executed'
                      /\ \A job \in Elements(pq') : job.items \subseteq executed'
                      /\ \A job \in pjob' : job.items \subseteq executed'
BY DEF HeldExecuted, Held, JobItems, Queued, Elements

\* The pages of overlay_capture.c never go from evidence to foreign bytes.
LEMMA NoHybridInductive == TypeOK /\ NoHybrid /\ [Next]_vars => NoHybrid'
<1> SUFFICES ASSUME TypeOK, NoHybrid, [Next]_vars PROVE NoHybrid'
  OBVIOUS
<1>p. TypeEvidence /\ TypeFiles /\ TypeWriters /\ TypeRequest
  BY DEF TypeOK
<1>n. LiveExecuted /\ HeldExecuted /\ FilesExecuted
  BY NoHybridParts
<1>h. /\ \A job \in wjob : job.items \subseteq executed
      /\ \A job \in Elements(pq) : job.items \subseteq executed
      /\ \A job \in pjob : job.items \subseteq executed
  BY <1>n, HeldJobs
<1>g. SUFFICES LiveExecuted' /\ HeldExecuted' /\ FilesExecuted'
  BY FourSubsets DEF NoHybrid, LiveExecuted, HeldExecuted, FilesExecuted
<1>s. seq + 1 \in Nat
  BY <1>p DEF TypeEvidence
<1>1. ASSUME NEW p \in Pages, Execute(p)
      PROVE  LiveExecuted' /\ HeldExecuted' /\ FilesExecuted'
  <2>1. executed \subseteq executed' /\ UNCHANGED <<mem, files, worker, preserver>>
    BY <1>1 DEF Execute
  <2>2. LiveExecuted'
    BY <1>1, <1>n DEF Execute, LiveExecuted, ItemsOf
  <2>3. HeldExecuted'
    BY <2>1, <1>h, HeldJobsNext DEF worker, preserver
  <2> QED BY <2>1, <2>2, <2>3, <1>n DEF FilesExecuted, files
<1>2. ASSUME NEW p \in Pages, NEW c \in Contents, Store(p, c)
      PROVE  LiveExecuted' /\ HeldExecuted' /\ FilesExecuted'
  <2>1. LiveExecuted'
    BY <1>2, <1>p, <1>n, WriteKeepsBinding DEF Store, WriteRam, NoteWrite
  <2>2. HeldExecuted'
    BY <1>2, <1>h, HeldJobsNext DEF Store, worker, preserver
  <2> QED BY <2>1, <2>2, <1>2, <1>n DEF Store, FilesExecuted, files
<1>3. ASSUME NEW p \in Pages, NEW c \in Contents, DmaWords(p, c)
      PROVE  LiveExecuted' /\ HeldExecuted' /\ FilesExecuted'
  <2>1. LiveExecuted'
    BY <1>3, <1>p, <1>n, WriteKeepsBinding DEF DmaWords, WriteRam, NoteWrite
  <2>2. HeldExecuted'
    BY <1>3, <1>h, HeldJobsNext DEF DmaWords, worker, preserver
  <2> QED BY <2>1, <2>2, <1>3, <1>n DEF DmaWords, FilesExecuted, files
<1>4. ASSUME NEW lo \in Pages, NEW hi \in Pages, NEW c \in Contents,
             DmaBegin(lo, hi, c)
      PROVE  LiveExecuted' /\ HeldExecuted' /\ FilesExecuted'
  <2> DEFINE snap == ItemsOf(ExecutedPages(lo, hi, 1))
  <2>1. snap \subseteq executed /\ snap \in SUBSET Items
    BY <1>n, <1>p, SnapshotExecuted, SnapshotType, ExecutedPagesLive
  <2>2. ClearScope(lo, hi) \in SUBSET live
    BY DEF ClearScope
  <2>3. executed' = executed /\ wjob' = wjob
    BY <1>4 DEF DmaBegin, worker
  <2>4. ASSUME NEW kept \in SUBSET live, FirstWords(lo, hi, c, kept)
        PROVE  LiveExecuted'
    BY <2>3, <2>4, <1>p, <1>n, WriteKeepsBinding DEF FirstWords, WriteRam, NoteWrite
  <2>5. CASE DmaUnobserved(lo, hi, c)
    <3>1. LiveExecuted'
      BY <2>4, <2>5 DEF DmaUnobserved
    <3>2. HeldExecuted'
      BY <2>3, <2>5, <1>h, HeldJobsNext DEF DmaUnobserved, preserver
    <3> QED BY <3>1, <3>2, <2>3, <2>5, <1>n DEF DmaUnobserved, FilesExecuted, files
  <2>6. CASE DmaPreserve(lo, hi, c)
    <3>1. LiveExecuted'
      BY <2>2, <2>4, <2>6 DEF DmaPreserve
    <3>2. /\ Job(snap, seq + 1) \in Jobs /\ Job(snap, seq + 1).items = snap
          /\ pq' = Append(pq, Job(snap, seq + 1)) /\ pjob' = pjob
      BY <2>1, <2>6, <1>s, JobType DEF DmaPreserve, EnqueueOwned
    <3>3. Elements(pq') = Elements(pq) \union {Job(snap, seq + 1)}
      BY <3>2, <1>p, AppendElements DEF TypeWriters
    <3>4. HeldExecuted'
      BY <3>2, <3>3, <2>1, <2>3, <1>h, HeldJobsNext
    <3> QED BY <3>1, <3>4, <2>3, <2>6, <1>n DEF DmaPreserve, FilesExecuted, files
  <2>7. CASE DmaSyncFallback(lo, hi, c)
    <3>1. LiveExecuted'
      BY <2>2, <2>4, <2>7 DEF DmaSyncFallback
    <3>2. HeldExecuted'
      BY <2>3, <2>7, <1>h, HeldJobsNext DEF DmaSyncFallback, preserver
    <3>3. FilesExecuted'
      BY <2>1, <2>3, <2>7, <1>n, CommitExecuted DEF DmaSyncFallback
    <3> QED BY <3>1, <3>2, <3>3
  <2> QED BY <2>5, <2>6, <2>7, <1>4 DEF DmaBegin
<1>5. CASE DmaEnd \/ TickFireFails \/ TickCollectFailed \/ TickRequest
           \/ PreserveExit \/ ProviderDone \/ Quit \/ PreserverJoined
  <2>1. UNCHANGED <<mem, live, executed, files, wjob, pq, pjob>>
    BY <1>5 DEF DmaEnd, TickFireFails, TickCollectFailed, TickRequest, PreserveExit,
       ProviderDone, Quit, PreserverJoined, evidence, worker, preserver
  <2>2. HeldExecuted'
    BY <2>1, <1>h, HeldJobsNext
  <2> QED BY <2>1, <2>2, <1>n DEF LiveExecuted, FilesExecuted, ItemsOf, files
<1>6. CASE TickFire
  <2> DEFINE snap == ItemsOf(ExecutedPages(1, NumPages, 0))
  <2>1. snap \subseteq executed /\ snap \in SUBSET Items
    BY <1>n, <1>p, SnapshotExecuted, SnapshotType, ExecutedPagesLive
  <2>2. Job(snap, seq + 1).items = snap
    BY <2>1, <1>s, JobType
  <2>3. /\ wjob' = {Job(snap, seq + 1)} /\ live' = {}
        /\ UNCHANGED <<executed, files, preserver>>
    BY <1>6 DEF TickFire, Launch
  <2>4. HeldExecuted'
    BY <2>1, <2>2, <2>3, <1>h, HeldJobsNext DEF preserver
  <2> QED BY <2>3, <2>4, <1>n DEF LiveExecuted, FilesExecuted, ItemsOf, files
<1>7. CASE WorkerCommits \/ WorkerDone
  <2>1. UNCHANGED <<mem, live, executed, wjob, preserver>>
    BY <1>7 DEF WorkerCommits, WorkerDone, evidence, worker
  <2>2. PICK job \in wjob :
          EnterCommit("worker", job) \/ FormatFails("worker")
          \/ \E ok \in BOOLEAN : LeaveCommit("worker", job, ok)
    BY <1>7 DEF WorkerCommits, WorkerDone
  <2>3. FilesExecuted'
    BY <2>1, <2>2, <1>h, <1>n, EnterExecuted, LeaveExecuted
  <2>4. HeldExecuted'
    BY <2>1, <1>h, HeldJobsNext DEF preserver
  <2> QED BY <2>1, <2>3, <2>4, <1>n DEF LiveExecuted, ItemsOf
<1>8. CASE TickCollect \/ TickRetry \/ AutocaptureShutdown
  <2>1. wjob' \subseteq wjob /\ UNCHANGED <<mem, live, executed, files, preserver>>
    BY <1>8 DEF TickCollect, TickRetry, Launch, AutocaptureShutdown, evidence, worker
  <2>2. HeldExecuted'
    BY <2>1, <1>h, HeldJobsNext DEF preserver
  <2> QED BY <2>1, <2>2, <1>n DEF LiveExecuted, FilesExecuted, ItemsOf, files
<1>9. CASE PreserveTake
  <2>1. UNCHANGED <<mem, live, executed, files, wjob>>
    BY <1>9 DEF PreserveTake, evidence, worker
  <2>2. Elements(pq) = Elements(pq') \union {Head(pq)} /\ pjob' = {Head(pq)}
    BY <1>9, <1>p, TailElements DEF PreserveTake, TypeWriters
  <2>3. HeldExecuted'
    BY <2>1, <2>2, <1>h, HeldJobsNext
  <2> QED BY <2>1, <2>3, <1>n DEF LiveExecuted, FilesExecuted, ItemsOf, files
<1>10. CASE PreserveCommits \/ PreserveWritten
  <2>1. UNCHANGED <<mem, live, executed, wjob, pq>> /\ pjob' \subseteq pjob
    BY <1>10 DEF PreserveCommits, PreserveWritten, evidence, worker, preserver
  <2>2. PICK job \in pjob :
          EnterCommit("preserver", job) \/ LeaveCommit("preserver", job, TRUE)
    BY <1>10 DEF PreserveCommits, PreserveWritten
  <2>3. FilesExecuted'
    BY <2>1, <2>2, <1>h, <1>n, EnterExecuted, LeaveExecuted
  <2>4. HeldExecuted'
    BY <2>1, <1>h, HeldJobsNext
  <2> QED BY <2>1, <2>3, <2>4, <1>n DEF LiveExecuted, ItemsOf
<1>11. CASE PreserveFailed
  <2> DEFINE again(job) == [job EXCEPT !.attempts = CountAttempt(job.attempts)]
  <2>1. PICK job \in pjob :
          /\ LeaveCommit("preserver", job, FALSE) \/ FormatFails("preserver")
          /\ pq' = pq \/ pq' = Append(pq, again(job))
    BY <1>11 DEF PreserveFailed
  <2>2. UNCHANGED <<mem, live, executed, wjob>> /\ pjob' = {}
    BY <1>11 DEF PreserveFailed, worker
  <2>3. job \in Jobs /\ job.attempts \in 0..AbandonAfter
    BY <1>p DEF TypeWriters, Jobs
  <2>4. CountAttempt(job.attempts) \in 0..AbandonAfter
    BY <2>3, CaptureAssumption DEF CountAttempt
  <2>5. again(job) \in Jobs /\ again(job).items = job.items
    BY <2>3, <2>4, AttemptType
  <2>6. Elements(pq') \subseteq Elements(pq) \union {again(job)}
    BY <2>1, <2>5, <1>p, AppendElements DEF TypeWriters
  <2>7. HeldExecuted'
    BY <2>2, <2>5, <2>6, <1>h, HeldJobsNext
  <2>8. FilesExecuted'
    BY <2>1, <2>2, <1>h, <1>n, LeaveExecuted
  <2> QED BY <2>2, <2>7, <2>8, <1>n DEF LiveExecuted, ItemsOf
<1>12. CASE WaitPending
  <2>1. UNCHANGED <<mem, live, executed, files>> /\ wjob' = {}
    BY <1>12 DEF WaitPending
  <2>2. HeldExecuted'
    <3>1. CASE UNCHANGED <<pq, pjob>>
      BY <3>1, <2>1, <1>h, HeldJobsNext
    <3>2. ASSUME NEW job \in wjob, EnqueueOwned(job) PROVE HeldExecuted'
      <4>1. job \in Jobs
        BY <1>p DEF TypeWriters
      <4>2. [job EXCEPT !.attempts = 0] \in Jobs
            /\ [job EXCEPT !.attempts = 0].items = job.items
        BY <4>1, AttemptType, CaptureAssumption
      <4>3. Elements(pq') = Elements(pq) \union {[job EXCEPT !.attempts = 0]}
            /\ pjob' = pjob
        BY <4>2, <3>2, <1>p, AppendElements DEF EnqueueOwned, TypeWriters
      <4> QED BY <4>2, <4>3, <2>1, <1>h, HeldJobsNext
    <3> QED BY <3>1, <3>2, <1>12 DEF WaitPending, HandOver
  <2> QED BY <2>1, <2>2, <1>n DEF LiveExecuted, FilesExecuted, ItemsOf, files
<1>13. CASE FinalWrite
  <2>1. UNCHANGED <<mem, executed, wjob, pq, pjob>> /\ live' = {}
    BY <1>13 DEF FinalWrite, worker, preserver
  <2>2. ItemsOf(ExecutedPages(1, NumPages, 0)) \subseteq executed
    BY <1>n, SnapshotExecuted, ExecutedPagesLive
  <2>3. FilesExecuted'
    BY <2>1, <2>2, <1>13, <1>n, CommitExecuted DEF FinalWrite, FilesExecuted, files
  <2>4. HeldExecuted'
    BY <2>1, <1>h, HeldJobsNext
  <2> QED BY <2>1, <2>3, <2>4, <1>n DEF LiveExecuted, ItemsOf
<1>14. CASE UNCHANGED vars
  <2>1. UNCHANGED <<mem, live, executed, files, wjob, pq, pjob>>
    BY <1>14 DEF vars, evidence, worker, preserver
  <2>2. HeldExecuted'
    BY <2>1, <1>h, HeldJobsNext
  <2> QED BY <2>1, <2>2, <1>n DEF LiveExecuted, FilesExecuted, ItemsOf, files
<1> QED BY <1>1, <1>2, <1>3, <1>4, <1>5, <1>6, <1>7, <1>8, <1>9, <1>10, <1>11,
      <1>12, <1>13, <1>14
      DEF Next, Guest, Tick, WorkerWrites, Preserver, ShutdownStep, Down

\* No snapshot, on disk, queued or still to be taken, binds a page to bytes that
\* were not interpreted there: capture_snapshot_create copies, the store hook
\* and overlay_capture_before_dma keep the two together for any number of
\* pages, transfers and writers.
THEOREM NeverHybrid == Spec => []NoHybrid
<1>1. Init => NoHybrid
  BY DEF Init, NoHybrid, ItemsOf, Held, JobItems, Queued
<1> QED BY <1>1, NoHybridInductive, TypeCorrect, PTL DEF Spec

-----------------------------------------------------------------------------
(* The commit section *)

\* The job whose snapshot a record of "commit" is about.
JobsOf(writer) == IF writer = "worker" THEN wjob ELSE pjob

\* overlay_autocapture_shutdown joined the worker.
WorkerJoined == epc \in {"pending", "join", "final", "down"} => wstate = 0

\* Only a thread that writes is in the section, once, and with a mutex alone.
CommitHolders ==
    \A c \in commit : /\ c.by = "worker" => wstate = 1
                      /\ c.by = "preserver" => ppc = "writing"
CommitSingle == \A c, d \in commit : mutex \/ c.by = d.by => c = d

\* What the section promised when it was entered still holds.
CommitKept ==
    \A c \in commit : c.kept => \A job \in JobsOf(c.by) : job.items \in history
CommitNewest ==
    mutex => \A c \in commit : c.newest =>
                 \A job \in JobsOf(c.by) : manifest.seq <= job.seq

CommitInv ==
    WorkerJoined /\ CommitHolders /\ CommitSingle /\ CommitKept /\ CommitNewest

\* A step that leaves the commits in progress to their writers, and the files
\* to them or to a commit of the emulation thread.
WritersKeep ==
    /\ wstate = 1 => UNCHANGED <<wjob, wstate>>
    /\ ppc = "writing" => UNCHANGED <<ppc, pjob>>
OtherCommit ==
    /\ history \subseteq history' /\ UNCHANGED <<commit, mutex>>
    /\ manifest' = manifest \/ (CommitFree /\ manifest'.seq >= manifest.seq)

\* Entering adds a contribution or nothing to the history, and no more.
LEMMA EnterAdds ==
    ASSUME NEW writer, NEW job, EnterCommit(writer, job)
    PROVE  history \subseteq history' /\ UNCHANGED <<manifest, mutex>>
BY DEF EnterCommit, Archive

\* A commit of the emulation thread.
LEMMA EmuCommit ==
    ASSUME TypeFiles, NEW items, NEW n \in Nat, NEW ok \in BOOLEAN,
           WriteAndCommit(items, n, ok)
    PROVE  OtherCommit
<1>1. CASE UNCHANGED files
  BY <1>1 DEF OtherCommit, files
<1>2. CASE /\ CommitFree /\ Archive(items, ok) /\ UNCHANGED <<commit, mutex>>
           /\ \/ n >= manifest.seq /\ manifest' = [items |-> items, seq |-> n]
              \/ UNCHANGED manifest
  BY <1>2 DEF OtherCommit, Archive, TypeFiles
<1> QED BY <1>1, <1>2 DEF WriteAndCommit

\* A writer that enters records what is true of its job.
LEMMA EnterKeeps ==
    ASSUME TypeFiles, CommitInv, NEW writer \in {"worker", "preserver"},
           NEW job \in Jobs, EnterCommit(writer, job), JobsOf(writer) = {job},
           writer = "worker" => wstate = 1, writer = "preserver" => ppc = "writing",
           UNCHANGED <<wjob, wstate, ppc, pjob, epc>>
    PROVE  CommitInv'
<1>1. PICK ok \in BOOLEAN :
        /\ Archive(job.items, ok)
        /\ commit' = commit \union
              {[by |-> writer, kept |-> ok, newest |-> job.seq >= manifest.seq]}
  BY DEF EnterCommit
<1> DEFINE c == [by |-> writer, kept |-> ok, newest |-> job.seq >= manifest.seq]
<1>2. /\ c.by = writer /\ c.kept = ok /\ c.newest = (job.seq >= manifest.seq)
      /\ commit' = commit \union {c}
  BY <1>1
<1>3. /\ CommitFree /\ history \subseteq history' /\ UNCHANGED <<manifest, mutex>>
      /\ \A d \in commit : d.by # writer
  BY EnterAdds DEF EnterCommit, Committing
<1>4. ok => job.items \in history'
  BY <1>1 DEF Archive
<1>5. job.seq >= manifest.seq => manifest.seq <= job.seq
  BY DEF TypeFiles, Jobs
<1> HIDE DEF c
<1>6. \A w : JobsOf(w)' = JobsOf(w)
  BY DEF JobsOf
<1>7. WorkerJoined' /\ CommitHolders'
  BY <1>2 DEF CommitInv, WorkerJoined, CommitHolders
<1>8. CommitSingle'
  BY <1>2, <1>3 DEF CommitInv, CommitSingle, CommitFree
<1>9. CommitKept'
  BY <1>2, <1>3, <1>4, <1>6 DEF CommitInv, CommitKept
<1>10. CommitNewest'
  BY <1>2, <1>3, <1>5, <1>6 DEF CommitInv, CommitNewest
<1> QED BY <1>7, <1>8, <1>9, <1>10 DEF CommitInv

\* A writer that leaves, or never entered, leaves only the other's record.
LEMMA LeaveKeeps ==
    ASSUME TypeFiles, CommitInv, NEW writer \in {"worker", "preserver"}, NEW job, NEW ok,
           LeaveCommit(writer, job, ok) \/ FormatFails(writer), WorkerJoined',
           writer = "worker" => UNCHANGED <<ppc, pjob>>,
           writer = "preserver" => UNCHANGED <<wjob, wstate>>
    PROVE  CommitInv'
<1>1. /\ commit' \subseteq commit /\ mutex' = mutex /\ history' = history
      /\ \A d \in commit' : d.by # writer /\ d.by \in {"worker", "preserver"}
  BY DEF LeaveCommit, FormatFails, Committing, files, CommitInv, CommitSingle, TypeFiles
<1>2. \A d \in commit' : /\ d.by = "worker" => wjob' = wjob /\ wstate' = wstate
                         /\ d.by = "preserver" => ppc' = ppc /\ pjob' = pjob
  BY <1>1
<1>3. \A d \in commit' : JobsOf(d.by)' = JobsOf(d.by)
  BY <1>1, <1>2 DEF JobsOf
<1>4. CommitHolders'
  BY <1>1, <1>2 DEF CommitInv, CommitHolders
<1>5. CommitSingle'
  BY <1>1 DEF CommitInv, CommitSingle
<1>6. CommitKept'
  BY <1>1, <1>3 DEF CommitInv, CommitKept
<1>7. mutex => commit' = {} \/ manifest' = manifest
  <2>1. CASE LeaveCommit(writer, job, ok)
    BY <2>1 DEF LeaveCommit, CommitInv, CommitSingle
  <2>2. CASE FormatFails(writer)
    BY <2>2 DEF FormatFails, files
  <2> QED BY <2>1, <2>2
<1>8. CommitNewest'
  BY <1>1, <1>3, <1>7 DEF CommitInv, CommitNewest
<1> QED BY <1>4, <1>5, <1>6, <1>8 DEF CommitInv

\* Any other step keeps the records true.
LEMMA OthersKeep ==
    ASSUME TypeFiles, CommitInv, WritersKeep, OtherCommit, WorkerJoined'
    PROVE  CommitInv'
<1>1. history \subseteq history' /\ commit' = commit /\ mutex' = mutex
  BY DEF OtherCommit
<1>2. \A c \in commit : c.by = "worker" => wjob' = wjob /\ wstate' = wstate
  BY DEF CommitInv, CommitHolders, WritersKeep
<1>3. \A c \in commit : c.by = "preserver" => ppc' = ppc /\ pjob' = pjob
  BY DEF CommitInv, CommitHolders, WritersKeep
<1>4. \A c \in commit : JobsOf(c.by)' = JobsOf(c.by)
  <2>1. \A c \in commit : c.by \in {"worker", "preserver"}
    BY DEF TypeFiles
  <2> QED BY <2>1, <1>2, <1>3 DEF JobsOf
<1>5. CommitHolders'
  BY <1>1, <1>2, <1>3 DEF CommitInv, CommitHolders
<1>6. CommitSingle'
  BY <1>1 DEF CommitInv, CommitSingle
<1>7. CommitKept'
  BY <1>1, <1>4 DEF CommitInv, CommitKept
<1>8. CommitNewest'
  BY <1>1, <1>4 DEF CommitInv, CommitNewest, OtherCommit, CommitFree
<1> QED BY <1>5, <1>6, <1>7, <1>8 DEF CommitInv

\* Every step is one of a writer in the section, or leaves the section alone.
LEMMA CommitKinds ==
    ASSUME TypeOK, CommitInv, [Next]_vars
    PROVE  \/ WorkerCommits \/ WorkerDone
           \/ PreserveCommits \/ PreserveWritten \/ PreserveFailed
           \/ WritersKeep /\ OtherCommit
<1>p. TypeEvidence /\ TypeFiles /\ TypeWriters
  BY DEF TypeOK
<1>s. seq + 1 \in Nat
  BY <1>p DEF TypeEvidence
<1>f. UNCHANGED files => OtherCommit
  BY DEF OtherCommit, files
<1>w. UNCHANGED <<wjob, wstate, ppc, pjob>> => WritersKeep
  BY DEF WritersKeep
<1>1. CASE \/ \E p \in Pages : Execute(p)
           \/ \E p \in Pages, c \in Contents : Store(p, c) \/ DmaWords(p, c)
           \/ DmaEnd \/ TickFireFails \/ TickRequest \/ ProviderDone \/ Quit
           \/ UNCHANGED vars
  <2>1. UNCHANGED <<files, wjob, wstate, ppc, pjob>>
    BY <1>1 DEF Execute, Store, DmaWords, DmaEnd, TickFireFails, TickRequest,
       ProviderDone, Quit, vars, worker, preserver
  <2> QED BY <2>1, <1>f, <1>w
<1>2. ASSUME NEW lo \in Pages, NEW hi \in Pages, NEW c \in Contents, DmaBegin(lo, hi, c)
      PROVE  WritersKeep /\ OtherCommit
  <2>1. UNCHANGED <<wjob, wstate>>
    BY <1>2 DEF DmaBegin, worker
  <2>2. CASE DmaUnobserved(lo, hi, c)
    BY <2>1, <2>2, <1>f, <1>w DEF DmaUnobserved, preserver
  <2>3. CASE DmaPreserve(lo, hi, c)
    <3>1. UNCHANGED <<files, pjob>> /\ (ppc = "writing" => ppc' = ppc)
      BY <2>3 DEF DmaPreserve, EnqueueOwned, StartedWriter
    <3> QED BY <2>1, <3>1, <1>f DEF WritersKeep
  <2>4. CASE DmaSyncFallback(lo, hi, c)
    <3>1. OtherCommit
      BY <2>4, <1>p, <1>s, EmuCommit DEF DmaSyncFallback
    <3> QED BY <2>1, <2>4, <3>1, <1>w DEF DmaSyncFallback, preserver
  <2> QED BY <2>2, <2>3, <2>4, <1>2 DEF DmaBegin
<1>3. CASE TickFire \/ TickCollect \/ TickCollectFailed \/ TickRetry
           \/ AutocaptureShutdown
  <2>1. wstate # 1 /\ UNCHANGED <<files, ppc, pjob>>
    BY <1>3 DEF TickFire, TickCollect, TickCollectFailed, TickRetry,
       AutocaptureShutdown, worker, preserver
  <2> QED BY <2>1, <1>f DEF WritersKeep
<1>4. CASE PreserveTake \/ PreserveExit \/ PreserverJoined
  <2>1. ppc # "writing" /\ UNCHANGED <<files, wjob, wstate>>
    BY <1>4 DEF PreserveTake, PreserveExit, PreserverJoined, worker
  <2> QED BY <2>1, <1>f DEF WritersKeep
<1>5. CASE WaitPending
  <2>1. wstate # 1
    BY <1>5 DEF WaitPending, CommitInv, WorkerJoined
  <2>2. UNCHANGED <<files, pjob>> /\ (ppc = "writing" => ppc' = ppc)
    BY <1>5 DEF WaitPending, HandOver, EnqueueOwned, StartedWriter
  <2> QED BY <2>1, <2>2, <1>f DEF WritersKeep
<1>6. CASE FinalWrite
  <2>1. UNCHANGED <<wjob, wstate, ppc, pjob>>
    BY <1>6 DEF FinalWrite, worker, preserver
  <2>2. OtherCommit
    BY <1>6, <1>p, <1>s, <1>f, EmuCommit DEF FinalWrite, files
  <2> QED BY <2>1, <2>2, <1>w
<1> QED BY <1>1, <1>2, <1>3, <1>4, <1>5, <1>6
        DEF Next, Guest, Tick, WorkerWrites, Preserver, ShutdownStep, Down

\* overlay_autocapture_shutdown leaves no worker behind, and none starts after.
LEMMA JoinedInductive ==
    ASSUME TypeOK, WorkerJoined, [Next]_vars
    PROVE  WorkerJoined'
<1>1. CASE Guest
  BY <1>1 DEF Guest, Execute, Store, DmaWords, DmaBegin, DmaEnd, WorkerJoined
<1>2. CASE Tick
  BY <1>2 DEF Tick, TickFire, TickFireFails, TickCollect, TickCollectFailed, TickRetry,
     TickRequest, WorkerJoined
<1>3. CASE WorkerWrites
  BY <1>3 DEF WorkerWrites, WorkerCommits, WorkerDone, WorkerJoined, worker
<1>4. CASE Preserver
  BY <1>4 DEF Preserver, PreserveTake, PreserveCommits, PreserveWritten,
     PreserveFailed, PreserveExit, WorkerJoined, worker
<1>5. CASE ProviderDone \/ Quit \/ Down \/ UNCHANGED vars
  BY <1>5 DEF ProviderDone, Quit, Down, vars, WorkerJoined, worker
<1>6. CASE AutocaptureShutdown
  BY <1>6 DEF AutocaptureShutdown, WorkerJoined, worker
<1>7. CASE WaitPending
  BY <1>7 DEF WaitPending, WorkerJoined
<1>8. CASE PreserverJoined \/ FinalWrite
  BY <1>8 DEF PreserverJoined, FinalWrite, WorkerJoined, worker
<1> QED BY <1>1, <1>2, <1>3, <1>4, <1>5, <1>6, <1>7, <1>8 DEF Next, ShutdownStep

\* The commit section is consistent for ever.
LEMMA CommitInductive == TypeOK /\ CommitInv /\ [Next]_vars => CommitInv'
<1> SUFFICES ASSUME TypeOK, CommitInv, [Next]_vars PROVE CommitInv'
  OBVIOUS
<1>p. TypeFiles /\ TypeWriters
  BY DEF TypeOK
<1>j. WorkerJoined'
  BY JoinedInductive DEF CommitInv
<1>1. CASE WorkerCommits
  <2>1. PICK job \in wjob : EnterCommit("worker", job)
    BY <1>1 DEF WorkerCommits
  <2>2. job \in Jobs /\ JobsOf("worker") = {job}
    BY <1>p DEF TypeWriters, JobsOf
  <2>3. wstate = 1 /\ UNCHANGED <<wjob, wstate, ppc, pjob, epc>>
    BY <1>1 DEF WorkerCommits, worker, preserver
  <2> QED BY <2>1, <2>2, <2>3, <1>p, EnterKeeps
<1>2. CASE WorkerDone
  <2>1. \E job \in wjob, ok \in BOOLEAN :
          LeaveCommit("worker", job, ok) \/ FormatFails("worker")
    BY <1>2 DEF WorkerDone
  <2>2. UNCHANGED <<ppc, pjob>>
    BY <1>2 DEF WorkerDone, preserver
  <2> QED BY <2>1, <2>2, <1>j, <1>p, LeaveKeeps
<1>3. CASE PreserveCommits
  <2>1. PICK job \in pjob : EnterCommit("preserver", job)
    BY <1>3 DEF PreserveCommits
  <2>2. job \in Jobs /\ JobsOf("preserver") = {job}
    BY <1>p DEF TypeWriters, JobsOf
  <2>3. ppc = "writing" /\ UNCHANGED <<wjob, wstate, ppc, pjob, epc>>
    BY <1>3 DEF PreserveCommits, worker, preserver
  <2> QED BY <2>1, <2>2, <2>3, <1>p, EnterKeeps
<1>4. CASE PreserveWritten \/ PreserveFailed
  <2>1. \E job \in pjob, ok \in BOOLEAN :
          LeaveCommit("preserver", job, ok) \/ FormatFails("preserver")
    BY <1>4 DEF PreserveWritten, PreserveFailed
  <2>2. UNCHANGED <<wjob, wstate>>
    BY <1>4 DEF PreserveWritten, PreserveFailed, worker
  <2> QED BY <2>1, <2>2, <1>j, <1>p, LeaveKeeps
<1>5. CASE WritersKeep /\ OtherCommit
  BY <1>5, <1>j, <1>p, OthersKeep
<1> QED BY <1>1, <1>2, <1>3, <1>4, <1>5, CommitKinds

LEMMA CommitInitial == Init => CommitInv
BY DEF Init, CommitInv, WorkerJoined, CommitHolders, CommitSingle, CommitKept,
   CommitNewest

-----------------------------------------------------------------------------
(* Conservation of evidence *)

\* Where an item may be once it has left the bitmaps.
Kept(x) ==
    \/ \E job \in wjob : x \in job.items
    \/ \E job \in Elements(pq) : x \in job.items
    \/ \E job \in pjob : x \in job.items
    \/ \E snap \in history : x \in snap
    \/ x \in forgone \/ x \in released \/ x \in unsaved

Accounted == \A x \in executed : Kept(x) \/ \E p \in live : x = <<p, mem[p]>>

LEMMA ConservedParts == EvidenceConserved <=> Accounted /\ CollectedIsDurable
<1>1. ASSUME NEW x
      PROVE  x \in ItemsOf(live) \union Held \union (UNION history)
                    \union forgone \union released \union unsaved
             <=> Kept(x) \/ \E p \in live : x = <<p, mem[p]>>
  BY DEF Kept, ItemsOf, Held, JobItems, Queued, Elements
<1> QED BY <1>1 DEF EvidenceConserved, Accounted

LEMMA ConservedPartsNext == Accounted' /\ CollectedIsDurable' => EvidenceConserved'
<1>1. ASSUME NEW x
      PROVE  Kept(x)' \/ (\E p \in live' : x = <<p, mem'[p]>>)
             => x \in (ItemsOf(live) \union Held \union (UNION history)
                        \union forgone \union released \union unsaved)'
  BY DEF Kept, ItemsOf, Held, JobItems, Queued, Elements
<1> QED BY <1>1 DEF EvidenceConserved, Accounted

\* A page outside a write keeps its item.
LEMMA WriteMovesEvidence ==
    ASSUME TypeEvidence, NEW p \in Pages, NEW c, NEW kept \in SUBSET live,
           mem' = [mem EXCEPT ![p] = c], live' = kept \ {p},
           NEW q \in kept, q # p
    PROVE  q \in live' /\ <<q, mem[q]>> = <<q, mem'[q]>>
BY DEF TypeEvidence

\* A commit never removes a contribution; a successful one adds its snapshot.
LEMMA CommitAdds ==
    ASSUME NEW items, NEW n, NEW ok \in BOOLEAN, WriteAndCommit(items, n, ok)
    PROVE  history \subseteq history' /\ (ok => items \in history')
BY DEF WriteAndCommit, Archive, files

\* Leaving the section: what it returned is in the history.
LEMMA LeaveAdds ==
    ASSUME CommitInv, NEW writer, NEW job \in JobsOf(writer), NEW ok \in BOOLEAN,
           LeaveCommit(writer, job, ok) \/ (~ok /\ FormatFails(writer))
    PROVE  history' = history /\ (ok => job.items \in history)
BY DEF LeaveCommit, FormatFails, files, CommitInv, CommitKept

\* If nothing that is kept is dropped and live evidence stays live or becomes
\* kept, everything executed stays accounted for.
LEMMA StillAccounted ==
    ASSUME Accounted, executed' = executed,
           \A x : Kept(x) => Kept(x)',
           \A x : \A q \in live :
              x = <<q, mem[q]>> => Kept(x)' \/ \E p \in live' : x = <<p, mem'[p]>>
    PROVE  Accounted'
BY DEF Accounted

LEMMA StillDurable ==
    ASSUME CollectedIsDurable, UNCHANGED worker, history \subseteq history'
    PROVE  CollectedIsDurable'
BY DEF CollectedIsDurable, worker

\* No step of overlay_capture.c forgets evidence.
LEMMA ConservedInductive ==
    TypeOK /\ CommitInv /\ EvidenceConserved /\ [Next]_vars => EvidenceConserved'
<1> SUFFICES ASSUME TypeOK, CommitInv, EvidenceConserved, [Next]_vars PROVE EvidenceConserved'
  OBVIOUS
<1>p. TypeEvidence /\ TypeFiles /\ TypeWriters /\ TypeRequest
  BY DEF TypeOK
<1>a. Accounted /\ CollectedIsDurable
  BY ConservedParts
<1>g. SUFFICES Accounted' /\ CollectedIsDurable'
  BY ConservedPartsNext
<1>s. seq + 1 \in Nat
  BY <1>p DEF TypeEvidence
<1>1. ASSUME NEW p \in Pages, Execute(p) PROVE Accounted' /\ CollectedIsDurable'
  <2>1. UNCHANGED <<mem, files, worker, preserver, released, unsaved>>
        /\ live' = live \union {p} /\ executed' = executed \union {<<p, mem[p]>>}
        /\ forgone' = forgone \ {<<p, mem[p]>>}
    BY <1>1 DEF Execute
  <2>2. ASSUME NEW x, x # <<p, mem[p]>>, Kept(x) PROVE Kept(x)'
    BY <2>1, <2>2 DEF Kept, files, worker, preserver
  <2>3. Accounted'
    BY <2>1, <2>2, <1>a DEF Accounted
  <2> QED BY <2>1, <2>3, <1>a, StillDurable DEF files
<1>2. ASSUME NEW p \in Pages, NEW c \in Contents, Store(p, c) \/ DmaWords(p, c)
      PROVE  Accounted' /\ CollectedIsDurable'
  <2>1. /\ UNCHANGED <<files, worker, preserver, released, unsaved, executed>>
        /\ mem' = [mem EXCEPT ![p] = c] /\ live' = live \ {p}
        /\ forgone' = forgone \union ItemsOf(live \intersect {p})
    BY <1>2 DEF Store, DmaWords, WriteRam, NoteWrite
  <2>2. ASSUME NEW x, Kept(x) PROVE Kept(x)'
    BY <2>1, <2>2 DEF Kept, files, worker, preserver
  <2>3. ASSUME NEW x, NEW q \in live, x = <<q, mem[q]>>
        PROVE  Kept(x)' \/ \E r \in live' : x = <<r, mem'[r]>>
    <3>1. CASE q = p
      <4>1. x \in forgone'
        BY <3>1, <2>1, <2>3 DEF ItemsOf
      <4> QED BY <4>1 DEF Kept
    <3>2. CASE q # p
      BY <3>2, <2>1, <2>3, <1>p, WriteMovesEvidence
    <3> QED BY <3>1, <3>2
  <2> QED BY <2>1, <2>2, <2>3, <1>a, StillAccounted, StillDurable DEF files
<1>3. ASSUME NEW lo \in Pages, NEW hi \in Pages, NEW c \in Contents,
             DmaBegin(lo, hi, c)
      PROVE  Accounted' /\ CollectedIsDurable'
  <2> DEFINE snap == ItemsOf(ExecutedPages(lo, hi, 1))
  <2>1. lo \in lo..hi /\ lo..hi \subseteq Int
    BY <1>3 DEF DmaBegin, Pages
  <2>2. executed' = executed /\ UNCHANGED <<worker, released, unsaved>>
    BY <1>3 DEF DmaBegin
  <2>3. snap \in SUBSET Items
    BY <1>p, SnapshotType, ExecutedPagesLive
  <2>4. ASSUME NEW q \in live, q \in lo..hi PROVE <<q, mem[q]>> \in snap
    <3>1. q \in ExecutedPages(lo, hi, 1)
      BY <2>4, <1>p DEF ExecutedPages, TypeEvidence, Pages
    <3> QED BY <3>1 DEF ItemsOf
  <2>5. CASE DmaUnobserved(lo, hi, c)
    <3>1. /\ UNCHANGED <<files, preserver>>
          /\ mem' = [mem EXCEPT ![lo] = c] /\ live' = live \ {lo}
          /\ forgone' = forgone \union ItemsOf(live \intersect {lo})
      BY <2>5 DEF DmaUnobserved, FirstWords, WriteRam, NoteWrite
    <3>2. ASSUME NEW x, Kept(x) PROVE Kept(x)'
      BY <3>1, <3>2, <2>2 DEF Kept, files, worker, preserver
    <3>3. ASSUME NEW x, NEW q \in live, x = <<q, mem[q]>>
          PROVE  Kept(x)' \/ \E r \in live' : x = <<r, mem'[r]>>
      <4>1. CASE q = lo
        <5>1. x \in forgone'
          BY <4>1, <3>1, <3>3 DEF ItemsOf
        <5> QED BY <5>1 DEF Kept
      <4>2. CASE q # lo
        BY <4>2, <3>1, <3>3, <1>p, WriteMovesEvidence
      <4> QED BY <4>1, <4>2
    <3> QED BY <3>1, <3>2, <3>3, <2>2, <1>a, StillAccounted, StillDurable DEF files
  <2>6. ASSUME mem' = [mem EXCEPT ![lo] = c], live' = ClearScope(lo, hi) \ {lo},
               NEW q \in live, q \notin lo..hi
        PROVE  \E r \in live' : <<q, mem[q]>> = <<r, mem'[r]>>
    <3>1. q \in ClearScope(lo, hi) /\ q # lo /\ ClearScope(lo, hi) \in SUBSET live
      BY <2>6, <2>1 DEF ClearScope
    <3> QED BY <3>1, <2>6, <1>p, WriteMovesEvidence
  <2>7. CASE DmaPreserve(lo, hi, c)
    <3> DEFINE job == Job(snap, seq + 1)
    <3>1. /\ UNCHANGED <<files, forgone, pjob>>
          /\ mem' = [mem EXCEPT ![lo] = c] /\ live' = ClearScope(lo, hi) \ {lo}
      BY <2>7 DEF DmaPreserve, EnqueueOwned, FirstWords, WriteRam, NoteWrite
    <3>2. job \in Jobs /\ job.items = snap /\ pq' = Append(pq, job)
      BY <2>3, <2>7, <1>s, JobType DEF DmaPreserve, EnqueueOwned
    <3>3. Elements(pq') = Elements(pq) \union {job}
      BY <3>2, <1>p, AppendElements DEF TypeWriters
    <3> HIDE DEF job, snap
    <3>4. ASSUME NEW x, Kept(x) PROVE Kept(x)'
      BY <3>1, <3>3, <3>4, <2>2 DEF Kept, files, worker
    <3>5. ASSUME NEW x, NEW q \in live, x = <<q, mem[q]>>
          PROVE  Kept(x)' \/ \E r \in live' : x = <<r, mem'[r]>>
      <4>1. CASE q \in lo..hi
        BY <4>1, <3>2, <3>3, <3>5, <2>4 DEF Kept
      <4>2. CASE q \notin lo..hi
        BY <4>2, <3>1, <3>5, <2>6
      <4> QED BY <4>1, <4>2
    <3> QED BY <3>1, <3>4, <3>5, <2>2, <1>a, StillAccounted, StillDurable DEF files
  <2>8. CASE DmaSyncFallback(lo, hi, c)
    <3>1. PICK ok \in BOOLEAN :
            /\ WriteAndCommit(snap, seq + 1, ok)
            /\ forgone' = IF ok THEN forgone
                          ELSE forgone \union ItemsOf(live \intersect (lo..hi))
      BY <2>8 DEF DmaSyncFallback
    <3>2. /\ UNCHANGED preserver
          /\ mem' = [mem EXCEPT ![lo] = c] /\ live' = ClearScope(lo, hi) \ {lo}
      BY <2>8 DEF DmaSyncFallback, FirstWords, WriteRam, NoteWrite
    <3>3. history \subseteq history' /\ (ok => snap \in history')
      BY <3>1, CommitAdds
    <3>4. forgone \subseteq forgone'
      BY <3>1
    <3> HIDE DEF snap
    <3>5. ASSUME NEW x, Kept(x) PROVE Kept(x)'
      BY <3>2, <3>3, <3>4, <3>5, <2>2 DEF Kept, worker, preserver
    <3>6. ASSUME NEW x, NEW q \in live, x = <<q, mem[q]>>
          PROVE  Kept(x)' \/ \E r \in live' : x = <<r, mem'[r]>>
      <4>1. CASE q \in lo..hi /\ ok
        BY <4>1, <3>3, <3>6, <2>4 DEF Kept
      <4>2. CASE q \in lo..hi /\ ~ok
        <5>1. x \in forgone'
          BY <4>2, <3>1, <3>6 DEF ItemsOf
        <5> QED BY <5>1 DEF Kept
      <4>3. CASE q \notin lo..hi
        BY <4>3, <3>2, <3>6, <2>6
      <4> QED BY <4>1, <4>2, <4>3
    <3> QED BY <3>3, <3>5, <3>6, <2>2, <1>a, StillAccounted, StillDurable
  <2> QED BY <2>5, <2>7, <2>8, <1>3 DEF DmaBegin
<1>4. CASE DmaEnd \/ TickFireFails \/ TickRequest \/ PreserveExit
           \/ ProviderDone \/ Quit \/ PreserverJoined \/ UNCHANGED vars
  <2>1. UNCHANGED <<mem, live, executed, forgone, released, unsaved, files, worker, pq, pjob>>
    BY <1>4 DEF DmaEnd, TickFireFails, TickRequest, PreserveExit, 
       ProviderDone, Quit, PreserverJoined, evidence, preserver, vars
  <2>2. ASSUME NEW x, Kept(x) PROVE Kept(x)'
    BY <2>1, <2>2 DEF Kept, files, worker
  <2> QED BY <2>1, <2>2, <1>a, StillAccounted, StillDurable DEF files
<1>5. CASE TickFire
  <2> DEFINE snap == ItemsOf(ExecutedPages(1, NumPages, 0))
  <2> DEFINE job == Job(snap, seq + 1)
  <2>1. snap \in SUBSET Items
    BY <1>p, SnapshotType, ExecutedPagesLive
  <2>2. job.items = snap
    BY <2>1, <1>s, JobType
  <2>3. /\ wjob = {} /\ wjob' = {job} /\ wsig' = FALSE
        /\ UNCHANGED <<executed, forgone, released, unsaved, files, preserver>>
    BY <1>5 DEF TickFire, Launch
  <2>4. ASSUME NEW q \in live PROVE <<q, mem[q]>> \in snap
    <3>1. q \in ExecutedPages(1, NumPages, 0)
      BY <2>4, <1>p, CaptureAssumption DEF ExecutedPages, TypeEvidence, Pages
    <3> QED BY <3>1 DEF ItemsOf
  <2> HIDE DEF job, snap
  <2>5. ASSUME NEW x, Kept(x) PROVE Kept(x)'
    BY <2>3, <2>5 DEF Kept, files, preserver
  <2>6. ASSUME NEW x, NEW q \in live, x = <<q, mem[q]>> PROVE Kept(x)'
    BY <2>2, <2>3, <2>4, <2>6 DEF Kept
  <2>7. CollectedIsDurable'
    BY <2>3 DEF CollectedIsDurable
  <2> QED BY <2>3, <2>5, <2>6, <2>7, <1>a, StillAccounted
<1>6. CASE WorkerCommits \/ PreserveCommits
  <2>1. UNCHANGED <<mem, live, executed, forgone, released, unsaved, worker, pq, pjob>>
    BY <1>6 DEF WorkerCommits, PreserveCommits, evidence, preserver
  <2>2. history \subseteq history'
    BY <1>6, EnterAdds DEF WorkerCommits, PreserveCommits
  <2>3. ASSUME NEW x, Kept(x) PROVE Kept(x)'
    BY <2>1, <2>2, <2>3 DEF Kept, worker
  <2> QED BY <2>1, <2>2, <2>3, <1>a, StillAccounted, StillDurable
<1>15. CASE WorkerDone
  <2>1. PICK job \in wjob, ok \in BOOLEAN :
          /\ LeaveCommit("worker", job, ok) \/ (~ok /\ FormatFails("worker"))
          /\ wsig' = ok
    BY <1>15 DEF WorkerDone
  <2>2. UNCHANGED <<mem, live, executed, forgone, released, unsaved, wjob, pq, pjob>>
    BY <1>15 DEF WorkerDone, evidence, preserver
  <2>3. history' = history /\ (ok => job.items \in history)
    BY <2>1, LeaveAdds DEF JobsOf
  <2>4. ASSUME NEW x, Kept(x) PROVE Kept(x)'
    BY <2>2, <2>3, <2>4 DEF Kept
  <2>6. wjob = {job}
    BY <1>p DEF TypeWriters
  <2>5. CollectedIsDurable'
    BY <2>1, <2>2, <2>3, <2>6 DEF CollectedIsDurable
  <2> QED BY <2>2, <2>4, <2>5, <1>a, StillAccounted
<1>7. CASE TickCollect
  <2>1. /\ wstate = 2 /\ wsig /\ wjob' = {} /\ wstate' = 0
        /\ UNCHANGED <<mem, live, executed, forgone, released, unsaved, files, preserver>>
    BY <1>7 DEF TickCollect, evidence
  <2>2. \A job \in wjob : job.items \in history
    BY <2>1, <1>a DEF CollectedIsDurable
  <2>3. ASSUME NEW x, Kept(x) PROVE Kept(x)'
    BY <2>1, <2>2, <2>3 DEF Kept, files, preserver
  <2>4. CollectedIsDurable'
    BY <2>1 DEF CollectedIsDurable
  <2> QED BY <2>1, <2>3, <2>4, <1>a, StillAccounted
<1>8. CASE TickCollectFailed \/ TickRetry
  <2>1. UNCHANGED <<mem, live, executed, forgone, released, unsaved, files, preserver>>
    BY <1>8 DEF TickCollectFailed, TickRetry, evidence
  <2>2. wjob' = wjob
    BY <1>8, <1>p DEF TickCollectFailed, TickRetry, Launch, TypeWriters
  <2>3. ASSUME NEW x, Kept(x) PROVE Kept(x)'
    BY <2>1, <2>2, <2>3 DEF Kept, files, preserver
  <2>4. CollectedIsDurable'
    BY <1>8 DEF CollectedIsDurable, TickCollectFailed, TickRetry, Launch
  <2> QED BY <2>1, <2>3, <2>4, <1>a, StillAccounted
<1>9. CASE PreserveTake
  <2>1. UNCHANGED <<mem, live, executed, forgone, released, unsaved, files, worker>>
    BY <1>9 DEF PreserveTake, evidence
  <2>2. Elements(pq) = Elements(pq') \union {Head(pq)} /\ pjob' = {Head(pq)}
    BY <1>9, <1>p, TailElements DEF PreserveTake, TypeWriters
  <2>3. pjob = {}
    BY <1>9, <1>p DEF PreserveTake, TypeWriters
  <2>4. ASSUME NEW x, Kept(x) PROVE Kept(x)'
    BY <2>1, <2>2, <2>3, <2>4 DEF Kept, files, worker
  <2> QED BY <2>1, <2>4, <1>a, StillAccounted, StillDurable DEF files
<1>10. CASE PreserveWritten
  <2>1. PICK job \in pjob : LeaveCommit("preserver", job, TRUE)
    BY <1>10 DEF PreserveWritten
  <2>2. UNCHANGED <<mem, live, executed, forgone, released, unsaved, worker, pq>>
    BY <1>10 DEF PreserveWritten, evidence
  <2>3. history' = history /\ job.items \in history
    BY <2>1, LeaveAdds DEF JobsOf
  <2>4. pjob = {job}
    BY <2>1, <1>p DEF TypeWriters
  <2>5. ASSUME NEW x, Kept(x) PROVE Kept(x)'
    BY <2>2, <2>3, <2>4, <2>5 DEF Kept, worker
  <2> QED BY <2>2, <2>3, <2>5, <1>a, StillAccounted, StillDurable
<1>11. CASE PreserveFailed
  <2> DEFINE again(job) == [job EXCEPT !.attempts = CountAttempt(job.attempts)]
  <2>1. PICK job \in pjob :
          /\ LeaveCommit("preserver", job, FALSE) \/ FormatFails("preserver")
          /\ \/ forgone' = forgone \union job.items /\ pq' = pq
             \/ forgone' = forgone /\ pq' = Append(pq, again(job))
    BY <1>11 DEF PreserveFailed
  <2>2. UNCHANGED <<mem, live, executed, released, unsaved, worker>>
    BY <1>11 DEF PreserveFailed
  <2>3. history' = history /\ pjob = {job}
    BY <2>1, <1>p, LeaveAdds DEF TypeWriters, JobsOf
  <2>4. job \in Jobs /\ job.attempts \in 0..AbandonAfter
    BY <1>p DEF TypeWriters, Jobs
  <2>5. CountAttempt(job.attempts) \in 0..AbandonAfter
    BY <2>4, CaptureAssumption DEF CountAttempt
  <2>6. again(job) \in Jobs /\ again(job).items = job.items
    BY <2>4, <2>5, AttemptType
  <2>7. \/ forgone' = forgone \union job.items /\ pq' = pq
        \/ forgone' = forgone /\ Elements(pq') = Elements(pq) \union {again(job)}
    BY <2>1, <2>6, <1>p, AppendElements DEF TypeWriters
  <2> HIDE DEF again
  <2>8. ASSUME NEW x, Kept(x) PROVE Kept(x)'
    BY <2>2, <2>3, <2>6, <2>7, <2>8 DEF Kept, worker
  <2> QED BY <2>2, <2>3, <2>8, <1>a, StillAccounted, StillDurable
<1>12. CASE AutocaptureShutdown
  <2>1. UNCHANGED <<mem, live, executed, forgone, unsaved, files, preserver>>
    BY <1>12 DEF AutocaptureShutdown, evidence
  <2>2. CASE UNCHANGED <<worker, released, unsaved>>
    <3>1. ASSUME NEW x, Kept(x) PROVE Kept(x)'
      BY <2>1, <2>2, <3>1 DEF Kept, files, worker, preserver
    <3> QED BY <3>1, <2>1, <2>2, <1>a, StillAccounted, StillDurable DEF files
  <2>3. CASE /\ wstate = 2 /\ wstate' = 0
             /\ released' = released \union
                   (IF wsig THEN {} ELSE UNION {job.items : job \in wjob})
    <3>1. ASSUME NEW job \in wjob, NEW x \in job.items PROVE Kept(x)'
      <4>1. CASE wsig
        BY <4>1, <3>1, <2>1, <2>3, <1>a DEF CollectedIsDurable, Kept, files
      <4>2. CASE ~wsig
        <5>1. x \in released'
          BY <4>2, <3>1, <2>3
        <5> QED BY <5>1 DEF Kept
      <4> QED BY <4>1, <4>2
    <3>2. released \subseteq released'
      BY <2>3
    <3>3. ASSUME NEW x, Kept(x) PROVE Kept(x)'
      BY <3>1, <3>2, <3>3, <2>1 DEF Kept, files, preserver
    <3>4. CollectedIsDurable'
      BY <2>3 DEF CollectedIsDurable
    <3> QED BY <3>3, <3>4, <2>1, <1>a, StillAccounted
  <2> QED BY <2>2, <2>3, <1>12 DEF AutocaptureShutdown
<1>13. CASE WaitPending
  <2>1. UNCHANGED <<mem, live, executed, released, unsaved, files>> /\ wjob' = {}
    BY <1>13 DEF WaitPending
  <2>2. CollectedIsDurable'
    BY <2>1 DEF CollectedIsDurable
  <2>3. \A x : Kept(x) => Kept(x)'
    <3>1. CASE wjob = {} /\ UNCHANGED <<forgone, pq, ppc, pjob>>
      BY <3>1, <2>1 DEF Kept, files
    <3>2. ASSUME NEW job \in wjob, HandOver(job) PROVE \A x : Kept(x) => Kept(x)'
      <4> DEFINE again == [job EXCEPT !.attempts = 0]
      <4>1. job \in Jobs /\ wjob = {job}
        BY <3>2, <1>p DEF TypeWriters
      <4>2. again \in Jobs /\ again.items = job.items
        BY <4>1, AttemptType, CaptureAssumption
      <4>3. CASE EnqueueOwned(job) /\ UNCHANGED forgone
        <5>1. Elements(pq') = Elements(pq) \union {again} /\ pjob' = pjob
          BY <4>2, <4>3, <1>p, AppendElements DEF EnqueueOwned, TypeWriters
        <5> HIDE DEF again
        <5> QED BY <5>1, <4>1, <4>2, <4>3, <2>1 DEF Kept, files
      <4>4. CASE forgone' = forgone \union job.items /\ UNCHANGED <<pq, ppc, pjob>>
        BY <4>1, <4>4, <2>1 DEF Kept, files
      <4> QED BY <4>3, <4>4, <3>2 DEF HandOver
    <3> QED BY <3>1, <3>2, <1>13 DEF WaitPending
  <2> QED BY <2>1, <2>2, <2>3, <1>a, StillAccounted
<1>14. CASE FinalWrite
  <2>1. UNCHANGED <<mem, executed, forgone, released, worker, pq, pjob>>
    BY <1>14 DEF FinalWrite, preserver
  <2>2. PICK ok \in BOOLEAN :
          /\ IF active
             THEN WriteAndCommit(ItemsOf(ExecutedPages(1, NumPages, 0)), seq + 1, ok)
             ELSE ~ok /\ UNCHANGED files
          /\ unsaved' = unsaved \union (IF ok THEN {} ELSE ItemsOf(live))
    BY <1>14 DEF FinalWrite
  <2>3. ExecutedPages(1, NumPages, 0) = live
    <3>1. ASSUME NEW q \in live PROVE 1 - 0 <= q /\ q <= NumPages + 0
      BY <3>1, <1>p, CaptureAssumption DEF TypeEvidence, Pages
    <3> QED BY <3>1 DEF ExecutedPages
  <2>4. history \subseteq history' /\ (ok => ItemsOf(live) \in history')
    BY <2>2, <2>3, CommitAdds DEF files
  <2>5. unsaved \subseteq unsaved'
    BY <2>2
  <2>6. ASSUME NEW x, Kept(x) PROVE Kept(x)'
    BY <2>1, <2>4, <2>5, <2>6 DEF Kept, worker
  <2>7. ASSUME NEW x, NEW q \in live, x = <<q, mem[q]>> PROVE Kept(x)'
    <3>1. x \in ItemsOf(live)
      BY <2>7 DEF ItemsOf
    <3>2. CASE ok
      BY <3>1, <3>2, <2>4 DEF Kept
    <3>3. CASE ~ok
      <4>1. x \in unsaved'
        BY <3>1, <3>3, <2>2
      <4> QED BY <4>1 DEF Kept
    <3> QED BY <3>2, <3>3
  <2> QED BY <2>1, <2>4, <2>6, <2>7, <1>a, StillAccounted, StillDurable
<1> QED BY <1>1, <1>2, <1>3, <1>4, <1>5, <1>6, <1>7, <1>8, <1>9, <1>10, <1>11,
      <1>12, <1>13, <1>14, <1>15
      DEF Next, Guest, Tick, WorkerWrites, Preserver, ShutdownStep, Down

\* Every interpreted item is live, held by a writer, in the additive history, or
\* was given up by a store, with a report, or by overlay_autocapture_shutdown.
THEOREM NothingForgotten == Spec => []EvidenceConserved
<1>1. Init => EvidenceConserved
  BY DEF Init, EvidenceConserved, CollectedIsDurable
<1> QED BY <1>1, CommitInitial, CommitInductive, ConservedInductive, TypeCorrect, PTL
        DEF Spec

-----------------------------------------------------------------------------
(* The manifest *)

\* With a mutex, no interleaving of the two writer threads, of retries, requeues
\* and the commits of the emulation thread puts an older snapshot back at
\* s_capture_path: what capture_commit_temp found of the manifest before it
\* replaced it is still true when it does.
THEOREM ManifestMonotone == Spec => ManifestNewest
<1>1. TypeOK /\ CommitInv /\ [Next]_vars
        => [mutex => manifest'.seq >= manifest.seq]_vars
  <2> SUFFICES ASSUME TypeOK, CommitInv, Next, mutex
               PROVE  manifest'.seq >= manifest.seq
    OBVIOUS
  <2>p. TypeFiles /\ TypeWriters
    BY DEF TypeOK
  <2>s. manifest.seq \in Nat
    BY <2>p DEF TypeFiles
  <2>1. CASE manifest' = manifest
    BY <2>1, <2>s
  <2>2. ASSUME NEW writer, NEW job \in JobsOf(writer) \intersect Jobs, NEW ok,
               LeaveCommit(writer, job, ok)
        PROVE  manifest'.seq >= manifest.seq
    <3>1. PICK c \in commit :
            /\ c.by = writer
            /\ \/ c.newest /\ manifest' = [items |-> job.items, seq |-> job.seq]
               \/ UNCHANGED manifest
      BY <2>2 DEF LeaveCommit
    <3>2. c.newest => manifest.seq <= job.seq
      BY <3>1 DEF CommitInv, CommitNewest
    <3>3. job.seq \in Nat
      BY DEF Jobs
    <3> QED BY <3>1, <3>2, <3>3, <2>1, <2>s
  <2>3. CASE WorkerCommits \/ PreserveCommits
    BY <2>1, <2>3, EnterAdds DEF WorkerCommits, PreserveCommits
  <2>4. CASE WorkerDone
    BY <2>1, <2>2, <2>4, <2>p DEF WorkerDone, FormatFails, files, JobsOf, TypeWriters
  <2>5. CASE PreserveWritten \/ PreserveFailed
    BY <2>1, <2>2, <2>5, <2>p DEF PreserveWritten, PreserveFailed, FormatFails, files,
       JobsOf, TypeWriters
  <2>6. CASE OtherCommit
    BY <2>1, <2>6 DEF OtherCommit
  <2> QED BY <2>3, <2>4, <2>5, <2>6, CommitKinds
<1> QED BY <1>1, CommitInitial, CommitInductive, TypeCorrect, PTL DEF Spec, ManifestNewest
-----------------------------------------------------------------------------
(* The request to the code provider *)

\* s_autocap_sig_at_req is the snapshot of the last accepted request, and while
\* a signature is retained no periodic job exists.
OfferInv == asked = sigAtReq /\ (pending # {} => wjob = {})

\* What autocap_provider_request_try does to the snapshot it is called for: it is
\* retained, or a run was accepted for it, now or as the last one.
LEMMA RequestOutcome ==
    ASSUME OfferInv, NEW snapshot, RequestTry(snapshot)
    PROVE  /\ asked' = sigAtReq'
           /\ pending' = snapshot \/ (pending' = {} /\ asked' = snapshot)
<1>1. CASE Refused(snapshot)
  BY <1>1 DEF Refused, OfferInv
<1>2. CASE Dropped(snapshot)
  BY <1>2 DEF Dropped, Futile, OfferInv
<1>3. CASE Accepted(snapshot)
  BY <1>3 DEF Accepted
<1> QED BY <1>1, <1>2, <1>3 DEF RequestTry

\* The steps that leave the request alone, and what they do to the periodic job.
LEMMA OfferKinds ==
    ASSUME TypeOK, [Next]_vars
    PROVE  \/ TickCollect \/ TickRequest
           \/ /\ UNCHANGED <<pending, sigAtReq, asked>>
              /\ \/ UNCHANGED wjob \/ wjob' = {} \/ pending = {}
              /\ epc = "run" /\ epc' = "run" /\ wstate = 2 /\ wsig => UNCHANGED worker
<1>p. TypeWriters
  BY DEF TypeOK
<1>1. CASE Guest
  <2>1. UNCHANGED <<pending, sigAtReq, asked, worker>>
    BY <1>1 DEF Guest, Execute, Store, DmaWords, DmaBegin, DmaEnd, request
  <2> QED BY <2>1 DEF worker
<1>2. CASE TickFire
  BY <1>2 DEF TickFire, request
<1>3. CASE TickFireFails
  BY <1>3 DEF TickFireFails, request, worker
<1>4. CASE TickCollectFailed
  BY <1>4 DEF TickCollectFailed, request
<1>5. CASE TickRetry
  <2>1. UNCHANGED request /\ wstate = 0 /\ wjob' = wjob
    BY <1>5, <1>p DEF TickRetry, Launch, TypeWriters
  <2> QED BY <2>1 DEF request
<1>6. CASE WorkerWrites
  BY <1>6 DEF WorkerWrites, WorkerCommits, WorkerDone, request, worker
<1>7. CASE Preserver
  BY <1>7 DEF Preserver, PreserveTake, PreserveCommits, PreserveWritten, PreserveFailed,
     PreserveExit, request, worker
<1>8. CASE ProviderDone \/ Quit \/ Down \/ UNCHANGED vars
  BY <1>8 DEF ProviderDone, Quit, Down, vars, request, worker
<1>9. CASE AutocaptureShutdown \/ WaitPending
  BY <1>9 DEF AutocaptureShutdown, WaitPending, request, worker
<1>10. CASE PreserverJoined \/ FinalWrite
  BY <1>10 DEF PreserverJoined, FinalWrite, request, worker
<1> QED BY <1>1, <1>2, <1>3, <1>4, <1>5, <1>6, <1>7, <1>8, <1>9, <1>10
        DEF Next, Tick, ShutdownStep

LEMMA OfferInductive == TypeOK /\ OfferInv /\ [Next]_vars => OfferInv'
<1> SUFFICES ASSUME TypeOK, OfferInv, [Next]_vars PROVE OfferInv'
  OBVIOUS
<1>1. CASE TickCollect
  <2>1. PICK job \in wjob : RequestTry({job.items})
    BY <1>1 DEF TickCollect
  <2> QED BY <1>1, <2>1, RequestOutcome DEF TickCollect, OfferInv
<1>2. CASE TickRequest
  BY <1>2, RequestOutcome DEF TickRequest, OfferInv, worker
<1>3. CASE /\ UNCHANGED <<pending, sigAtReq, asked>>
           /\ \/ UNCHANGED wjob \/ wjob' = {} \/ pending = {}
  BY <1>3 DEF OfferInv
<1> QED BY <1>1, <1>2, <1>3, OfferKinds

\* A step that ends an offer is the acceptance of a run for it.
LEMMA OfferStep ==
    ASSUME TypeOK, OfferInv, [Next]_vars, epc = "run", epc' = "run",
           Offered # {}, Offered' = {}
    PROVE  asked' = Offered
<1>p. TypeWriters
  BY DEF TypeOK
<1>0. pending' = {}
  BY DEF Offered
<1>1. CASE TickCollect
  <2>1. PICK job \in wjob : RequestTry({job.items})
    BY <1>1 DEF TickCollect
  <2>2. wjob = {job}
    BY <2>1, <1>p DEF TypeWriters
  <2>3. wstate = 2 /\ wsig /\ pending = {}
    BY <1>1, <2>2 DEF TickCollect, OfferInv
  <2>4. Offered = {job.items}
    BY <2>2, <2>3 DEF Offered
  <2>5. {job.items} # {}
    OBVIOUS
  <2>6. asked' = {job.items}
    BY <1>0, <2>1, <2>5, RequestOutcome
  <2> QED BY <2>4, <2>6
<1>2. CASE TickRequest
  <2>1. pending # {} /\ RequestTry(pending)
    BY <1>2 DEF TickRequest
  <2>2. Offered = pending
    BY <2>1 DEF Offered
  <2>3. asked' = pending
    BY <1>0, <2>1, RequestOutcome
  <2> QED BY <2>2, <2>3
<1>3. CASE /\ UNCHANGED <<pending, sigAtReq, asked>>
           /\ epc = "run" /\ epc' = "run" /\ wstate = 2 /\ wsig => UNCHANGED worker
  <2>1. pending = {}
    BY <1>0, <1>3
  <2>2. wstate = 2 /\ wsig
    BY <2>1 DEF Offered
  <2>3. UNCHANGED worker
    BY <1>3, <2>2
  <2>4. Offered' = Offered
    BY <1>3, <2>3 DEF Offered, worker
  <2> QED BY <2>4
<1> QED BY <1>1, <1>2, <1>3, OfferKinds

\* A written snapshot stops being offered only when a run was accepted for
\* exactly it, now or as the last one (autocap_provider_request_try).
THEOREM OfferIsKept == Spec => OfferedUntilAccepted
<1>1. Init => OfferInv
  BY DEF Init, OfferInv
<1>2. TypeOK /\ OfferInv /\ [Next]_vars =>
        [epc = "run" /\ epc' = "run" /\ Offered # {} /\ Offered' = {}
            => asked' = Offered]_vars
  BY OfferStep
<1> QED BY <1>1, <1>2, OfferInductive, TypeCorrect, PTL DEF Spec, OfferedUntilAccepted
-----------------------------------------------------------------------------
(* Shutdown *)

\* A preserver that never ran or has ended has nothing queued, it ends only when
\* asked to, and from its stop on no periodic job exists.
DrainInv ==
    /\ ppc \in {"none", "exited"} => pq = <<>>
    /\ ppc = "exited" => epc = "join"
    /\ pstop => epc \in {"join", "final", "down"}
    /\ epc \in {"join", "final", "down"} => wjob = {}
    /\ epc \in {"final", "down"} => ppc = "none"

\* What is left when shutdown_runtime is through: everything interpreted is in a
\* file, was given up with a report or by a store, or is one of two silent losses,
\* the periodic job that overlay_autocapture_shutdown freed unwritten and the live
\* evidence of a final snapshot that failed or, without an active capture, was
\* not taken.
LostOnlyTwoWays ==
    epc = "down" =>
        executed \subseteq (UNION history) \union forgone \union released \union unsaved

\* Steps that keep the FIFO, the preserver and the periodic job.
LEMMA DrainKeeps ==
    ASSUME DrainInv, UNCHANGED <<pq, ppc, pstop, epc>>, wjob' = wjob \/ epc = "run"
    PROVE  DrainInv'
BY DEF DrainInv

LEMMA DrainInductive == TypeOK /\ DrainInv /\ [Next]_vars => DrainInv'
<1> SUFFICES ASSUME TypeOK, DrainInv, [Next]_vars PROVE DrainInv'
  OBVIOUS
<1>p. TypeWriters /\ TypeRequest
  BY DEF TypeOK
<1>1. CASE \/ \E p \in Pages : Execute(p)
           \/ \E p \in Pages, c \in Contents : Store(p, c) \/ DmaWords(p, c)
           \/ DmaEnd
  <2>1. UNCHANGED <<pq, ppc, pstop, epc, wjob>>
    BY <1>1 DEF Execute, Store, DmaWords, DmaEnd, preserver, worker
  <2> QED BY <2>1, DrainKeeps
<1>2. ASSUME NEW lo \in Pages, NEW hi \in Pages, NEW c \in Contents, DmaBegin(lo, hi, c)
      PROVE  DrainInv'
  <2>1. epc = "run" /\ epc' = "run" /\ wjob' = wjob
    BY <1>2 DEF DmaBegin, worker
  <2>2. CASE UNCHANGED preserver
    BY <2>1, <2>2, DrainKeeps DEF preserver
  <2>3. CASE ppc' = StartedWriter /\ pstop' = pstop
    <3>1. ppc' \notin {"none", "exited"}
      BY <2>1, <2>3, <1>p DEF StartedWriter, DrainInv, TypeWriters
    <3> QED BY <2>1, <2>3, <3>1 DEF DrainInv
  <2> QED BY <1>2, <2>2, <2>3
          DEF DmaBegin, DmaUnobserved, DmaPreserve, DmaSyncFallback, EnqueueOwned
<1>3. CASE Tick
  <2>1. UNCHANGED <<pq, ppc, pstop, epc>> /\ epc = "run"
    BY <1>3 DEF Tick, TickFire, TickFireFails, TickCollect, TickCollectFailed, TickRetry,
       TickRequest, preserver
  <2> QED BY <2>1, DrainKeeps
<1>4. CASE WorkerWrites \/ ProviderDone \/ Down \/ UNCHANGED vars
  <2>1. UNCHANGED <<pq, ppc, pstop, epc, wjob>>
    BY <1>4 DEF WorkerWrites, WorkerCommits, WorkerDone, ProviderDone, Down, vars,
       preserver, worker
  <2> QED BY <2>1, DrainKeeps
<1>5. CASE PreserveTake \/ PreserveCommits \/ PreserveWritten \/ PreserveFailed
  <2>1. /\ UNCHANGED <<pstop, epc, wjob>> /\ ppc \in {"top", "writing"}
        /\ ppc' \in {"top", "writing"}
    BY <1>5 DEF preserver, PreserveTake, PreserveCommits, PreserveWritten, PreserveFailed, worker
  <2> QED BY <2>1 DEF DrainInv
<1>6. CASE PreserveExit
  <2>1. /\ ppc = "top" /\ ppc' = "exited" /\ pq = <<>> /\ pstop
        /\ UNCHANGED <<pq, pstop, epc, wjob>>
    BY <1>6 DEF PreserveExit, worker
  <2> QED BY <2>1 DEF DrainInv
<1>7. CASE Quit
  <2>1. epc = "run" /\ epc' = "autocap" /\ UNCHANGED <<pq, ppc, pstop>>
    BY <1>7 DEF Quit, preserver
  <2> QED BY <2>1 DEF DrainInv
<1>8. CASE AutocaptureShutdown
  <2>1. epc = "autocap" /\ epc' = "pending" /\ UNCHANGED <<pq, ppc, pstop>>
    BY <1>8 DEF AutocaptureShutdown, preserver
  <2> QED BY <2>1 DEF DrainInv
<1>9. CASE WaitPending
  <2>1. /\ epc = "pending" /\ wjob' = {}
        /\ pstop' = (ppc' # "none")
        /\ epc' = IF ppc' = "none" THEN "final" ELSE "join"
    BY <1>9 DEF WaitPending
  <2>2. ppc # "exited"
    BY <2>1 DEF DrainInv
  <2>3. \/ UNCHANGED <<pq, ppc>>
        \/ ppc' = StartedWriter
    BY <1>9 DEF WaitPending, HandOver, EnqueueOwned
  <2>4. ppc' = StartedWriter => ppc' \notin {"none", "exited"}
    BY <2>2, <1>p DEF StartedWriter, TypeWriters
  <2>5. ppc' \in {"none", "exited"} => pq' = <<>>
    BY <2>3, <2>4 DEF DrainInv
  <2>6. ppc' # "exited"
    BY <2>2, <2>3, <2>4
  <2> QED BY <2>1, <2>5, <2>6 DEF DrainInv
<1>10. CASE PreserverJoined
  <2>1. /\ epc = "join" /\ epc' = "final" /\ ppc = "exited" /\ ppc' = "none"
        /\ UNCHANGED <<pq, pstop, wjob>>
    BY <1>10 DEF PreserverJoined, worker
  <2> QED BY <2>1 DEF DrainInv
<1>11. CASE FinalWrite
  <2>1. epc = "final" /\ epc' = "down" /\ UNCHANGED <<pq, ppc, pstop, wjob>>
    BY <1>11 DEF FinalWrite, preserver, worker
  <2> QED BY <2>1 DEF DrainInv
<1> QED BY <1>1, <1>2, <1>3, <1>4, <1>5, <1>6, <1>7, <1>8, <1>9, <1>10, <1>11
        DEF Next, Guest, Preserver, ShutdownStep

\* The final snapshot ends the live evidence.
LiveAtEnd == epc = "down" => live = {}

LEMMA LiveInductive == LiveAtEnd /\ [Next]_vars => LiveAtEnd'
<1> SUFFICES ASSUME LiveAtEnd, [Next]_vars PROVE LiveAtEnd'
  OBVIOUS
<1>1. CASE Guest
  BY <1>1 DEF Guest, Execute, Store, DmaWords, DmaBegin, DmaEnd, LiveAtEnd
<1>2. CASE Tick
  BY <1>2 DEF Tick, TickFire, TickFireFails, TickCollect, TickCollectFailed, TickRetry,
     TickRequest, LiveAtEnd
<1>3. CASE WorkerWrites \/ Preserver \/ ProviderDone \/ UNCHANGED vars
  <2>1. UNCHANGED <<epc, live>>
    BY <1>3 DEF WorkerWrites, WorkerCommits, WorkerDone, Preserver, PreserveTake,
       PreserveCommits, PreserveWritten, PreserveFailed, PreserveExit, ProviderDone,
       vars, evidence
  <2> QED BY <2>1 DEF LiveAtEnd
<1>4. CASE Quit \/ ShutdownStep
  BY <1>4 DEF Quit, ShutdownStep, AutocaptureShutdown, WaitPending, PreserverJoined,
     FinalWrite, LiveAtEnd
<1> QED BY <1>1, <1>2, <1>3, <1>4 DEF Next, Down

\* At the end no snapshot is left in memory.
LEMMA DrainedState ==
    ASSUME TypeOK, EvidenceConserved, DrainInv, epc = "down", LiveAtEnd
    PROVE  executed \subseteq (UNION history) \union forgone \union released \union unsaved
<1>1. wjob = {} /\ ppc = "none" /\ pq = <<>>
  BY DEF DrainInv
<1>2. pjob = {}
  BY <1>1 DEF TypeOK, TypeWriters
<1>3. Queued = {}
  BY <1>1 DEF Queued
<1>4. Held = {}
  BY <1>1, <1>2, <1>3 DEF Held, JobItems
<1>5. ItemsOf(live) = {}
  BY DEF LiveAtEnd, ItemsOf
<1> QED BY <1>4, <1>5 DEF EvidenceConserved

\* However the two writers, failures, retries and the handing over of the kept job
\* interleave with shutdown_runtime, no snapshot stays behind in memory or in the
\* FIFO: evidence is lost unreported in two ways only, the freed periodic job and
\* the final snapshot whose result is ignored.
THEOREM ShutdownLosesTwoWays == Spec => []LostOnlyTwoWays
<1>1. Init => DrainInv /\ LiveAtEnd
  BY DEF Init, DrainInv, LiveAtEnd
<1>2. TypeOK /\ EvidenceConserved /\ DrainInv /\ LiveAtEnd => LostOnlyTwoWays
  BY DrainedState DEF LostOnlyTwoWays
<1> QED BY <1>1, <1>2, DrainInductive, LiveInductive, TypeCorrect, NothingForgotten, PTL
        DEF Spec

\* Without failures every commit in progress and every collected snapshot is in
\* the history, and nothing is freed or left unwritten.
SavedInv ==
    /\ released = {} /\ (wstate = 2 => wsig) /\ \A c \in commit : c.kept
    /\ active \/ epc # "down" => unsaved = {}

LEMMA SavedInductive ==
    ASSUME Resources = {TRUE}, TypeOK, SavedInv, [Next]_vars
    PROVE  SavedInv'
<1>m. ~MayFail
  BY DEF MayFail
<1>1. CASE Guest
  <2>1. UNCHANGED <<worker, released, unsaved>> /\ epc # "down" /\ epc' # "down"
    BY <1>1 DEF Guest, Execute, Store, DmaWords, DmaBegin, DmaEnd
  <2>2. UNCHANGED commit
    BY <1>1, <1>m DEF Guest, Execute, Store, DmaWords, DmaBegin, DmaEnd, DmaUnobserved,
       DmaPreserve, DmaSyncFallback, files
  <2> QED BY <2>1, <2>2 DEF SavedInv, worker
<1>2. CASE Tick
  <2>1. /\ UNCHANGED <<commit, released, unsaved>> /\ epc # "down" /\ epc' # "down"
        /\ wstate' = 2 => wstate = 2 /\ wsig' = wsig
    BY <1>2, <1>m DEF Tick, TickFire, TickFireFails, TickCollect, TickCollectFailed,
       TickRetry, TickRequest, Launch, files, worker
  <2> QED BY <2>1 DEF SavedInv
<1>3. CASE WorkerCommits \/ PreserveCommits
  <2>1. UNCHANGED <<worker, released, unsaved, epc, active>>
    BY <1>3 DEF WorkerCommits, PreserveCommits, evidence
  <2>2. PICK writer, job, ok :
          /\ Archive(job.items, ok)
          /\ commit' = commit \union
                {[by |-> writer, kept |-> ok, newest |-> job.seq >= manifest.seq]}
    BY <1>3 DEF WorkerCommits, PreserveCommits, EnterCommit
  <2>3. ok
    BY <2>2, <1>m DEF Archive
  <2> QED BY <2>1, <2>2, <2>3 DEF SavedInv, worker
<1>4. CASE WorkerDone
  <2>1. PICK job \in wjob, ok \in BOOLEAN :
          LeaveCommit("worker", job, ok) /\ wsig' = ok
    BY <1>4, <1>m DEF WorkerDone, FormatFails
  <2>2. UNCHANGED <<released, unsaved, epc, active>>
    BY <1>4 DEF WorkerDone, evidence
  <2>3. PICK c \in commit : c.kept = ok /\ commit' = commit \ {c}
    BY <2>1 DEF LeaveCommit
  <2>4. ok = TRUE
    BY <2>3 DEF SavedInv
  <2> QED BY <2>1, <2>2, <2>3, <2>4 DEF SavedInv
<1>5. CASE PreserveTake \/ PreserveWritten \/ PreserveFailed \/ PreserveExit
           \/ ProviderDone \/ Quit \/ PreserverJoined \/ UNCHANGED vars
  <2>1. UNCHANGED <<worker, released, unsaved, active>> /\ commit' \subseteq commit
    BY <1>5, <1>m DEF PreserveTake, PreserveWritten, PreserveFailed, PreserveExit,
       ProviderDone, Quit, PreserverJoined, vars, evidence, files, LeaveCommit, FormatFails
  <2>2. epc' = "down" => epc = "down"
    BY <1>5 DEF PreserveTake, PreserveWritten, PreserveFailed, PreserveExit,
       ProviderDone, Quit, PreserverJoined, vars
  <2>3. \A c \in commit' : c.kept
    BY <2>1 DEF SavedInv
  <2>4. active' \/ epc' # "down" => active \/ epc # "down"
    BY <2>1, <1>5 DEF PreserveTake, PreserveWritten, PreserveFailed, PreserveExit,
       ProviderDone, Quit, PreserverJoined, vars
  <2>5. released' = {} /\ (wstate' = 2 => wsig')
    BY <2>1 DEF SavedInv, worker
  <2>6. active' \/ epc' # "down" => unsaved' = {}
    BY <2>1, <2>4 DEF SavedInv
  <2> QED BY <2>3, <2>5, <2>6 DEF SavedInv
<1>6. CASE AutocaptureShutdown
  <2>1. UNCHANGED <<commit, wsig, unsaved, active>> /\ epc' = "pending" /\ epc # "down"
    BY <1>6 DEF AutocaptureShutdown, files, evidence, worker
  <2>2. released' = released /\ wstate' = 0
    BY <1>6 DEF AutocaptureShutdown, SavedInv, worker
  <2> QED BY <2>1, <2>2 DEF SavedInv
<1>7. CASE WaitPending
  <2>1. /\ UNCHANGED <<commit, wsig, unsaved, active, released>> /\ epc # "down"
        /\ epc' # "down" /\ (wstate' = 2 => wstate = 2)
    BY <1>7 DEF WaitPending, files
  <2> QED BY <2>1 DEF SavedInv
<1>8. CASE FinalWrite
  <2>1. UNCHANGED <<worker, released, active>> /\ unsaved = {} /\ epc' = "down"
    BY <1>8 DEF FinalWrite, SavedInv
  <2>2. UNCHANGED commit
    BY <1>8 DEF FinalWrite, WriteAndCommit, files
  <2>3. active => unsaved' = {}
    <3>1. ASSUME active PROVE unsaved' = {}
      <4>1. PICK ok \in BOOLEAN :
              /\ WriteAndCommit(ItemsOf(ExecutedPages(1, NumPages, 0)), seq + 1, ok)
              /\ unsaved' = unsaved \union (IF ok THEN {} ELSE ItemsOf(live))
        BY <1>8, <3>1 DEF FinalWrite
      <4>2. ok
        BY <4>1, <1>m DEF WriteAndCommit, Archive
      <4> QED BY <4>1, <4>2, <2>1
    <3> QED BY <3>1
  <2> QED BY <2>1, <2>2, <2>3 DEF SavedInv, worker
<1> QED BY <1>1, <1>2, <1>3, <1>4, <1>5, <1>6, <1>7, <1>8
        DEF Next, WorkerWrites, Preserver, ShutdownStep, Down

\* "Normal shutdown drains them": if nothing fails and capture was activated, every
\* item interpreted and not dropped by a store is in the additive history when
\* shutdown_runtime returns, wherever it was when the user quit.
THEOREM ShutdownSavesAll ==
    ASSUME Resources = {TRUE}
    PROVE  Spec => [](epc = "down" /\ active => executed \subseteq (UNION history) \union forgone)
<1>1. Init => DrainInv /\ LiveAtEnd /\ SavedInv
  BY DEF Init, DrainInv, LiveAtEnd, SavedInv
<1>2. TypeOK /\ SavedInv /\ [Next]_vars => SavedInv'
  BY SavedInductive
<1>3. TypeOK /\ EvidenceConserved /\ DrainInv /\ LiveAtEnd /\ SavedInv
        => (epc = "down" /\ active => executed \subseteq (UNION history) \union forgone)
  BY DrainedState DEF SavedInv
<1> QED BY <1>1, <1>2, <1>3, DrainInductive, LiveInductive, TypeCorrect, NothingForgotten,
        PTL DEF Spec
=============================================================================
