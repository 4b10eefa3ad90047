---------------------- MODULE PublicationQueueProofs -----------------------
(***************************************************************************)
(* What the queue of PublicationQueue means for a compile run of any       *)
(* length: shards are committed in the order of publication and none       *)
(* twice, also in a run that fails or is torn down, and a run that settles *)
(* as "ok" has committed all of them.                                      *)
(***************************************************************************)
EXTENDS PublicationQueue, TLAPS

Increasing(s) == \A i, j \in 1 .. Len(s) : i < j => s[i] < s[j]

\* A commit takes over a shard published after all those committed before it.
InOrder == Increasing(committed)

QueueTypes ==
    /\ published \in Nat
    /\ queue \in Seq(Nat)
    /\ committed \in Seq(Nat)
    /\ aborted \in BOOLEAN
    /\ faulted \in BOOLEAN

\* Committed, then queued, then still to be published.
Ordered ==
    /\ Increasing(committed)
    /\ Increasing(queue)
    /\ \A i \in 1 .. Len(committed), j \in 1 .. Len(queue) : committed[i] < queue[j]
    /\ \A i \in 1 .. Len(committed) : committed[i] <= published
    /\ \A j \in 1 .. Len(queue) : queue[j] <= published

\* As long as nothing was lost, what is committed and what is queued are
\* together all that was published.
Complete ==
    ~faulted /\ ~aborted =>
        /\ published = Len(committed) + Len(queue)
        /\ \A i \in 1 .. Len(committed) : committed[i] = i
        /\ \A j \in 1 .. Len(queue) : queue[j] = Len(committed) + j

QInv == QueueTypes /\ Ordered /\ Complete

-----------------------------------------------------------------------------
(* Sequences *)

LEMMA NoShard == <<>> \in Seq(Nat) /\ Len(<<>>) = 0 /\ 1 .. 0 = {}
OBVIOUS

LEMMA ShardAt ==
    ASSUME NEW s \in Seq(Nat)
    PROVE  Len(s) \in Nat /\ \A i \in 1 .. Len(s) : s[i] \in Nat
OBVIOUS

\* A place of a sequence one longer is an old place or the new one.
LEMMA Places ==
    ASSUME NEW n \in Nat, NEW i \in 1 .. n + 1
    PROVE  i \in Nat /\ (i \in 1 .. n \/ i = n + 1)
OBVIOUS

LEMMA AppendAt ==
    ASSUME NEW s \in Seq(Nat), NEW x \in Nat
    PROVE  /\ Append(s, x) \in Seq(Nat)
           /\ Len(Append(s, x)) = Len(s) + 1
           /\ \A i \in 1 .. Len(s) : Append(s, x)[i] = s[i]
           /\ Append(s, x)[Len(s) + 1] = x
OBVIOUS

LEMMA TailAt ==
    ASSUME NEW s \in Seq(Nat), s # <<>>
    PROVE  /\ Tail(s) \in Seq(Nat)
           /\ Len(s) \in Nat /\ Len(s) >= 1
           /\ Len(Tail(s)) = Len(s) - 1
           /\ \A i \in 1 .. Len(s) - 1 : Tail(s)[i] = s[i + 1]
           /\ Head(s) = s[1] /\ Head(s) \in Nat
OBVIOUS

LEMMA AppendIncreasing ==
    ASSUME NEW s \in Seq(Nat), NEW x \in Nat, Increasing(s),
           \A i \in 1 .. Len(s) : s[i] < x
    PROVE  Increasing(Append(s, x))
<1> DEFINE q == Append(s, x)
<1> SUFFICES ASSUME NEW i \in 1 .. Len(q), NEW j \in 1 .. Len(q), i < j
             PROVE  q[i] < q[j]
  BY DEF Increasing
<1>1. /\ Len(q) = Len(s) + 1 /\ Len(s) \in Nat
      /\ \A k \in 1 .. Len(s) : q[k] = s[k]
      /\ q[Len(s) + 1] = x
  BY AppendAt
<1> HIDE DEF q
<1>2. /\ i \in Nat /\ (i \in 1 .. Len(s) \/ i = Len(s) + 1)
      /\ j \in Nat /\ (j \in 1 .. Len(s) \/ j = Len(s) + 1)
  BY <1>1, Places
<1>3. i \in 1 .. Len(s)
  BY <1>1, <1>2
<1> QED BY <1>1, <1>2, <1>3 DEF Increasing

LEMMA TailIncreasing ==
    ASSUME NEW s \in Seq(Nat), s # <<>>, Increasing(s)
    PROVE  /\ Increasing(Tail(s))
           /\ \A j \in 1 .. Len(Tail(s)) : Head(s) < Tail(s)[j]
<1> DEFINE q == Tail(s)
<1>1. /\ Len(q) = Len(s) - 1 /\ Len(s) \in Nat /\ Len(s) >= 1
      /\ \A k \in 1 .. Len(s) - 1 : q[k] = s[k + 1]
      /\ Head(s) = s[1]
  BY TailAt
<1> HIDE DEF q
<1>2. ASSUME NEW i \in 1 .. Len(q), NEW j \in 1 .. Len(q), i < j PROVE q[i] < q[j]
  <2>1. i + 1 \in 1 .. Len(s) /\ j + 1 \in 1 .. Len(s) /\ i + 1 < j + 1
    BY <1>1, <1>2
  <2> QED BY <1>1, <2>1 DEF Increasing
<1>3. ASSUME NEW j \in 1 .. Len(q) PROVE Head(s) < q[j]
  <2>1. 1 \in 1 .. Len(s) /\ j + 1 \in 1 .. Len(s) /\ 1 < j + 1
    BY <1>1
  <2> QED BY <1>1, <2>1 DEF Increasing
<1> QED BY <1>2, <1>3 DEF Increasing, q

-----------------------------------------------------------------------------
(* The queue in every step *)

\* Steps that publish, commit and lose nothing.
LEMMA SameQueue ==
    ASSUME QInv, UNCHANGED <<queue, committed, published>>, aborted' \in BOOLEAN,
           faulted' \in BOOLEAN, faulted \/ aborted => faulted' \/ aborted'
    PROVE  QInv'
BY DEF QInv, QueueTypes, Ordered, Complete, Increasing

\* Steps after which the run has nothing queued or committed, or only nothing
\* queued because it is being torn down.
LEMMA EmptyQueue ==
    ASSUME QInv, queue' = <<>>, published' \in Nat, aborted' \in BOOLEAN, faulted' \in BOOLEAN,
           \/ committed' = <<>> /\ published' = 0
           \/ UNCHANGED <<committed, published>> /\ aborted'
    PROVE  QInv'
<1>1. QueueTypes'
  BY NoShard DEF QInv, QueueTypes
<1>2. Len(queue') = 0 /\ 1 .. 0 = {}
  BY NoShard
<1>3. CASE committed' = <<>> /\ published' = 0
  <2>1. Len(committed') = 0
    BY <1>3
  <2>2. Ordered'
    BY <1>2, <2>1 DEF Ordered, Increasing
  <2>3. Complete'
    BY <1>2, <1>3, <2>1 DEF Complete
  <2> QED BY <1>1, <2>2, <2>3 DEF QInv
<1>4. CASE UNCHANGED <<committed, published>> /\ aborted'
  <2>1. Ordered'
    BY <1>2, <1>4 DEF QInv, Ordered, Increasing
  <2>2. Complete'
    BY <1>4 DEF Complete
  <2> QED BY <1>1, <2>1, <2>2 DEF QInv
<1> QED BY <1>3, <1>4

LEMMA PublishInv ==
    ASSUME QInv, Publish
    PROVE  QInv'
<1> DEFINE n == published + 1
<1>1. QueueTypes /\ Ordered /\ Complete
  BY DEF QInv
<1>2. published \in Nat /\ queue \in Seq(Nat) /\ committed \in Seq(Nat) /\ n \in Nat
      /\ Len(queue) \in Nat /\ Len(committed) \in Nat
  BY <1>1 DEF QueueTypes
<1>3. /\ queue' = Append(queue, n) /\ published' = n
      /\ UNCHANGED <<aborted, committed, faulted>>
  BY DEF Publish
<1>4. /\ queue' \in Seq(Nat) /\ Len(queue') = Len(queue) + 1
      /\ \A i \in 1 .. Len(queue) : queue'[i] = queue[i]
      /\ queue'[Len(queue) + 1] = n
  BY <1>2, <1>3, AppendAt
<1>5. QueueTypes'
  BY <1>1, <1>2, <1>3, <1>4 DEF QueueTypes
<1>6. /\ \A i \in 1 .. Len(queue) : queue[i] \in Nat /\ queue[i] <= published
      /\ \A i \in 1 .. Len(committed) : committed[i] \in Nat /\ committed[i] <= published
  BY <1>1, <1>2, ShardAt DEF Ordered
<1>7. \A j \in 1 .. Len(queue') : j \in 1 .. Len(queue) \/ j = Len(queue) + 1
  BY <1>2, <1>4
<1>8. Ordered'
  <2>1. \A i \in 1 .. Len(queue) : queue[i] < n
    BY <1>2, <1>6
  <2>2. Increasing(queue')
    BY <1>1, <1>2, <1>3, <2>1, AppendIncreasing DEF Ordered
  <2>3. ASSUME NEW i \in 1 .. Len(committed), NEW j \in 1 .. Len(queue')
        PROVE  committed[i] < queue'[j]
    <3>1. CASE j \in 1 .. Len(queue)
      BY <1>1, <1>4, <3>1 DEF Ordered
    <3>2. CASE j = Len(queue) + 1
      BY <1>2, <1>4, <1>6, <3>2
    <3> QED BY <1>7, <3>1, <3>2
  <2>4. \A i \in 1 .. Len(committed) : committed[i] <= n
    BY <1>2, <1>6
  <2>5. ASSUME NEW j \in 1 .. Len(queue') PROVE queue'[j] <= n
    <3>1. CASE j \in 1 .. Len(queue)
      <4>1. queue'[j] = queue[j] /\ queue[j] \in Nat /\ queue[j] <= published
        BY <1>4, <1>6, <3>1
      <4> QED BY <1>2, <4>1
    <3>2. CASE j = Len(queue) + 1
      BY <1>2, <1>4, <3>2
    <3> QED BY <1>7, <3>1, <3>2
  <2>6. Increasing(committed)
    BY <1>1 DEF Ordered
  <2> QED BY <1>3, <2>2, <2>3, <2>4, <2>5, <2>6 DEF Ordered
<1>9. Complete'
  <2> SUFFICES ASSUME ~faulted, ~aborted
               PROVE  /\ n = Len(committed) + Len(queue')
                      /\ \A i \in 1 .. Len(committed) : committed[i] = i
                      /\ \A j \in 1 .. Len(queue') : queue'[j] = Len(committed) + j
    BY <1>3 DEF Complete
  <2>1. /\ published = Len(committed) + Len(queue)
        /\ \A i \in 1 .. Len(committed) : committed[i] = i
        /\ \A j \in 1 .. Len(queue) : queue[j] = Len(committed) + j
    BY <1>1 DEF Complete
  <2>2. n = Len(committed) + Len(queue')
    BY <1>2, <1>4, <2>1
  <2>3. ASSUME NEW j \in 1 .. Len(queue') PROVE queue'[j] = Len(committed) + j
    <3>1. CASE j \in 1 .. Len(queue)
      BY <1>4, <2>1, <3>1
    <3>2. CASE j = Len(queue) + 1
      BY <1>2, <1>4, <2>1, <3>2
    <3> QED BY <1>7, <3>1, <3>2
  <2> QED BY <2>1, <2>2, <2>3
<1> QED BY <1>5, <1>8, <1>9 DEF QInv

\* The head of the queue leaves it.
LEMMA TakeHead ==
    ASSUME QInv, queue # <<>>, queue' = Tail(queue)
    PROVE  /\ queue' \in Seq(Nat) /\ Increasing(queue')
           /\ Head(queue) \in Nat /\ Head(queue) <= published
           /\ Len(queue) \in Nat /\ Len(queue) >= 1
           /\ Len(queue') = Len(queue) - 1
           /\ Head(queue) = queue[1]
           /\ \A j \in 1 .. Len(queue') : /\ j + 1 \in 1 .. Len(queue)
                                          /\ queue'[j] = queue[j + 1]
                                          /\ Head(queue) < queue'[j]
           /\ \A i \in 1 .. Len(committed) : committed[i] < Head(queue)
<1>1. queue \in Seq(Nat) /\ committed \in Seq(Nat) /\ Ordered
  BY DEF QInv, QueueTypes
<1>2. /\ queue' \in Seq(Nat) /\ Len(queue) \in Nat /\ Len(queue) >= 1
      /\ Len(queue') = Len(queue) - 1
      /\ \A i \in 1 .. Len(queue) - 1 : queue'[i] = queue[i + 1]
      /\ Head(queue) = queue[1] /\ Head(queue) \in Nat
  BY <1>1, TailAt
<1>3. Increasing(queue') /\ \A j \in 1 .. Len(queue') : Head(queue) < queue'[j]
  BY <1>1, TailIncreasing DEF Ordered
<1>4. 1 \in 1 .. Len(queue)
  BY <1>2
<1>5. Head(queue) <= published /\ \A i \in 1 .. Len(committed) : committed[i] < Head(queue)
  BY <1>1, <1>2, <1>4 DEF Ordered
<1>6. \A j \in 1 .. Len(queue') : j + 1 \in 1 .. Len(queue) /\ queue'[j] = queue[j + 1]
  BY <1>2
<1> QED BY <1>2, <1>3, <1>5, <1>6

LEMMA CommitInv ==
    ASSUME QInv, Commit
    PROVE  QInv'
<1> DEFINE h == Head(queue)
<1>1. /\ QueueTypes /\ Ordered /\ Complete
      /\ published \in Nat /\ committed \in Seq(Nat) /\ Len(committed) \in Nat
  BY DEF QInv, QueueTypes
<1>2. /\ queue # <<>> /\ queue' = Tail(queue) /\ committed' = Append(committed, h)
      /\ UNCHANGED <<aborted, published, faulted>>
  BY DEF Commit
<1>3. /\ queue' \in Seq(Nat) /\ Increasing(queue')
      /\ h \in Nat /\ h <= published
      /\ Len(queue) \in Nat /\ Len(queue) >= 1
      /\ Len(queue') = Len(queue) - 1
      /\ h = queue[1]
      /\ \A j \in 1 .. Len(queue') : /\ j + 1 \in 1 .. Len(queue)
                                     /\ queue'[j] = queue[j + 1]
                                     /\ h < queue'[j]
      /\ \A i \in 1 .. Len(committed) : committed[i] < h
  BY <1>2, TakeHead
<1> HIDE DEF h
<1>4. /\ committed' \in Seq(Nat) /\ Len(committed') = Len(committed) + 1
      /\ \A i \in 1 .. Len(committed) : committed'[i] = committed[i]
      /\ committed'[Len(committed) + 1] = h
  BY <1>1, <1>2, <1>3, AppendAt
<1>5. QueueTypes'
  BY <1>1, <1>2, <1>3, <1>4 DEF QueueTypes
<1>6. \A i \in 1 .. Len(committed') : i \in 1 .. Len(committed) \/ i = Len(committed) + 1
  BY <1>1, <1>4
<1>7. Ordered'
  <2>1. Increasing(committed')
    BY <1>1, <1>2, <1>3, AppendIncreasing DEF Ordered
  <2>2. ASSUME NEW i \in 1 .. Len(committed'), NEW j \in 1 .. Len(queue')
        PROVE  committed'[i] < queue'[j]
    <3>1. CASE i \in 1 .. Len(committed)
      BY <1>1, <1>3, <1>4, <3>1 DEF Ordered
    <3>2. CASE i = Len(committed) + 1
      BY <1>3, <1>4, <3>2
    <3> QED BY <1>6, <3>1, <3>2
  <2>3. ASSUME NEW i \in 1 .. Len(committed') PROVE committed'[i] <= published
    <3>1. CASE i \in 1 .. Len(committed)
      BY <1>1, <1>4, <3>1 DEF Ordered
    <3>2. CASE i = Len(committed) + 1
      BY <1>3, <1>4, <3>2
    <3> QED BY <1>6, <3>1, <3>2
  <2>4. \A j \in 1 .. Len(queue') : queue'[j] <= published
    BY <1>1, <1>3 DEF Ordered
  <2> QED BY <1>2, <1>3, <2>1, <2>2, <2>3, <2>4 DEF Ordered
<1>8. Complete'
  <2> SUFFICES ASSUME ~faulted, ~aborted
               PROVE  /\ published = Len(committed') + Len(queue')
                      /\ \A i \in 1 .. Len(committed') : committed'[i] = i
                      /\ \A j \in 1 .. Len(queue') : queue'[j] = Len(committed') + j
    BY <1>2 DEF Complete
  <2>1. /\ published = Len(committed) + Len(queue)
        /\ \A i \in 1 .. Len(committed) : committed[i] = i
        /\ \A j \in 1 .. Len(queue) : queue[j] = Len(committed) + j
    BY <1>1 DEF Complete
  <2>2. published = Len(committed') + Len(queue')
    BY <1>1, <1>3, <1>4, <2>1
  <2>3. ASSUME NEW i \in 1 .. Len(committed') PROVE committed'[i] = i
    <3>1. CASE i \in 1 .. Len(committed)
      BY <1>4, <2>1, <3>1
    <3>2. CASE i = Len(committed) + 1
      <4>1. 1 \in 1 .. Len(queue)
        BY <1>3
      <4> QED BY <1>3, <1>4, <2>1, <3>2, <4>1
    <3> QED BY <1>6, <3>1, <3>2
  <2>4. ASSUME NEW j \in 1 .. Len(queue') PROVE queue'[j] = Len(committed') + j
    <3>1. queue'[j] = Len(committed) + (j + 1)
      BY <1>3, <2>1
    <3>2. j \in Nat
      BY <1>3
    <3> QED BY <1>1, <1>4, <3>1, <3>2
  <2> QED BY <2>2, <2>3, <2>4
<1> QED BY <1>5, <1>7, <1>8 DEF QInv

LEMMA LoseInv ==
    ASSUME QInv, Lose
    PROVE  QInv'
<1>1. QueueTypes /\ Ordered
  BY DEF QInv
<1>2. /\ queue # <<>> /\ queue' = Tail(queue) /\ UNCHANGED <<aborted, published, committed>>
      /\ faulted' \in BOOLEAN /\ (faulted' \/ aborted')
  BY <1>1 DEF Lose, QueueTypes
<1>3. /\ queue' \in Seq(Nat) /\ Increasing(queue')
      /\ \A j \in 1 .. Len(queue') : j + 1 \in 1 .. Len(queue) /\ queue'[j] = queue[j + 1]
  BY <1>2, TakeHead
<1>4. QueueTypes'
  BY <1>1, <1>2, <1>3 DEF QueueTypes
<1>5. Ordered'
  BY <1>1, <1>2, <1>3 DEF Ordered
<1>6. Complete'
  BY <1>2 DEF Complete
<1> QED BY <1>4, <1>5, <1>6 DEF QInv

LEMMA RefuseInv ==
    ASSUME QInv, Refuse
    PROVE  QInv'
<1>1. QueueTypes /\ Ordered /\ published \in Nat
  BY DEF QInv, QueueTypes
<1>2. /\ published' \in Nat /\ published <= published'
      /\ faulted' = TRUE /\ UNCHANGED <<aborted, queue, committed>>
  BY <1>1 DEF Refuse
<1>3. /\ \A i \in 1 .. Len(queue) : queue[i] \in Nat /\ queue[i] <= published
      /\ \A i \in 1 .. Len(committed) : committed[i] \in Nat /\ committed[i] <= published
  BY <1>1, ShardAt DEF Ordered, QueueTypes
<1>4. /\ \A i \in 1 .. Len(queue) : queue[i] <= published'
      /\ \A i \in 1 .. Len(committed) : committed[i] <= published'
  BY <1>1, <1>2, <1>3
<1>5. Ordered'
  BY <1>1, <1>2, <1>4 DEF Ordered
<1>6. QueueTypes' /\ Complete'
  BY <1>1, <1>2 DEF QueueTypes, Complete
<1> QED BY <1>5, <1>6 DEF QInv

LEMMA QueueStep ==
    ASSUME QInv, [Next]_vars
    PROVE  QInv'
<1>1. aborted \in BOOLEAN /\ faulted \in BOOLEAN /\ published \in Nat
  BY DEF QInv, QueueTypes
<1>2. CASE Begin
  BY <1>2, EmptyQueue DEF Begin
<1>3. CASE Abort
  BY <1>1, <1>3, SameQueue DEF Abort
<1>4. CASE Close
  BY <1>1, <1>4, EmptyQueue DEF Close
<1>5. CASE Settle
  BY <1>1, <1>5, SameQueue DEF Settle
<1>6. CASE UNCHANGED vars
  BY <1>1, <1>6, SameQueue DEF vars
<1> QED BY <1>2, <1>3, <1>4, <1>5, <1>6, PublishInv, CommitInv, LoseInv, RefuseInv DEF Next

LEMMA QueueInit == Init => QInv
<1> SUFFICES ASSUME Init PROVE QInv
  OBVIOUS
<1>1. Len(queue) = 0 /\ Len(committed) = 0 /\ 1 .. 0 = {}
  BY DEF Init
<1>2. QueueTypes
  BY NoShard DEF Init, QueueTypes
<1>3. Ordered
  BY <1>1 DEF Ordered, Increasing
<1>4. Complete
  BY <1>1 DEF Init, Complete
<1> QED BY <1>2, <1>3, <1>4 DEF QInv

LEMMA QueueInvariance == Spec => []QInv
BY QueueInit, QueueStep, PTL DEF Spec
-----------------------------------------------------------------------------
(* The theorems *)

\* publish_ready_pop and the preparer's single list: shards are committed in the
\* order of their publication, and none twice, whether or not the run succeeds.
THEOREM CommitsInOrder == Spec => []InOrder
<1>1. QInv => InOrder
  BY DEF QInv, Ordered, InOrder
<1> QED BY <1>1, QueueInvariance, PTL

\* A run that is not torn down settles as "ok" only with every publication
\* committed.
THEOREM OkIsComplete ==
    Spec => [][Settle /\ ~aborted /\ verdict' = "ok" =>
                 committed = [i \in 1 .. published |-> i]]_vars
<1>1. QInv /\ [Next]_vars =>
        [Settle /\ ~aborted /\ verdict' = "ok" => committed = [i \in 1 .. published |-> i]]_vars
  <2> SUFFICES ASSUME QInv, Settle, ~aborted, verdict' = "ok"
               PROVE  committed = [i \in 1 .. published |-> i]
    OBVIOUS
  <2>1. ~faulted /\ queue = <<>>
    BY DEF Settle
  <2>2. committed \in Seq(Nat) /\ Len(committed) \in Nat /\ Len(queue) = 0
    BY <2>1 DEF QInv, QueueTypes
  <2>3. published = Len(committed) /\ \A i \in 1 .. Len(committed) : committed[i] = i
    BY <2>1, <2>2 DEF QInv, Complete
  <2> QED BY <2>2, <2>3
<1> QED BY <1>1, QueueInvariance, PTL DEF Spec
=============================================================================
