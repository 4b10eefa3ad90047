------------------------- MODULE AutocompileProofs -------------------------
(***************************************************************************)
(* Theorems about Autocompile, for every number of lines, every pipe       *)
(* capacity and every retry limit.  IInv is the inductive invariant: the   *)
(* program points that go together (ThreadInv), the counters they imply    *)
(* (CountInv), the numbering of the publications (OrderInv) and the one    *)
(* mapping that may begin after a stop (LateInv).  QueueStep maps every    *)
(* step to one of PublicationQueue.                                        *)
(***************************************************************************)
EXTENDS Autocompile, TLAPS

-----------------------------------------------------------------------------
(* The lists and the retry delay *)

\* What appending a publication number to a list does.
LEMMA AppendNat ==
    ASSUME NEW s \in Seq(Nat), NEW n \in Nat
    PROVE  /\ Append(s, n) \in Seq(Nat)
           /\ Len(Append(s, n)) = Len(s) + 1
           /\ \A i \in 1..Len(s) : Append(s, n)[i] = s[i]
           /\ Append(s, n)[Len(s) + 1] = n
  OBVIOUS

\* What taking the oldest publication number off a list does.
LEMMA PopNat ==
    ASSUME NEW s \in Seq(Nat), s # <<>>
    PROVE  /\ Head(s) \in Nat /\ Head(s) = s[1]
           /\ Tail(s) \in Seq(Nat)
           /\ Len(s) \in Nat \ {0} /\ Len(Tail(s)) = Len(s) - 1
           /\ \A i \in 1..Len(Tail(s)) : Tail(s)[i] = s[i + 1]
  OBVIOUS

\* The retry delay is a number no larger than AC_RETRY_MAX_MS.
LEMMA RetryDelayType ==
    ASSUME NEW n \in Nat \ {0}
    PROVE  RetryDelay(n) \in Int /\ RetryDelay(n) <= RetryMax
<1> DEFINE k == Min2(n - 1, ShiftCap)
<1>1. k \in Nat
  BY RetryAssumption DEF Min2
<1>2. 2^k \in Int
  <2> HIDE DEF k
  <2> QED
    BY <1>1
<1>3. RetryInitial * 2^k \in Int
  <2> HIDE DEF k
  <2> QED
    BY <1>2, RetryAssumption
<1> QED
  BY <1>3, RetryAssumption DEF RetryDelay, Min2

\* autocompile_note_failure keeps the failure count and the delay in bounds.
LEMMA NoteFailureType ==
    ASSUME TypeCounts, NoteFailure
    PROVE  /\ consecutive_fails' \in 0..FailCap
           /\ retry' \in Int /\ retry' <= RetryMax
<1>1. consecutive_fails' \in 0..FailCap /\ consecutive_fails' # 0
  BY RetryAssumption DEF TypeCounts, NoteFailure, Min2
<1>2. consecutive_fails' \in Nat \ {0}
  BY <1>1, RetryAssumption
<1> QED
  BY <1>1, <1>2, RetryDelayType DEF NoteFailure

\* At most one publication is between the raw list and its commit.
LEMMA OneInFlight ==
    ASSUME TypeOK, CountInv
    PROVE  /\ Len(ready) \in 0..1
           /\ Holding => ready = <<>> /\ epc # "commit" /\ preparing = 1
           /\ epc = "commit" => ready = <<>> /\ commit_active = 1
           /\ ready # <<>> => ~Holding /\ epc # "commit" /\ Len(ready) = 1
           /\ ~Holding => preparing = 0
           /\ epc # "commit" => commit_active = 0
<1>1. Len(ready) + commit_active + preparing <= 1
  BY DEF CountInv
<1>2. preparing \in 0..1 /\ commit_active \in 0..1 /\ ready \in Seq(Nat)
  BY DEF TypeOK, TypeCounts
<1>3. preparing = IF Holding THEN 1 ELSE 0
  BY DEF CountInv
<1>4. commit_active = IF epc = "commit" THEN 1 ELSE 0
  BY DEF CountInv
<1>5. Len(ready) \in Nat /\ (Len(ready) = 0 <=> ready = <<>>)
  BY <1>2
<1>6. CASE Holding
  BY <1>1, <1>2, <1>3, <1>4, <1>5, <1>6
<1>7. CASE ~Holding
  <2>1. preparing = 0 /\ Len(ready) + commit_active <= 1
    BY <1>1, <1>2, <1>3, <1>5, <1>7
  <2>2. CASE epc = "commit"
    BY <1>4, <1>5, <1>7, <2>1, <2>2
  <2>3. CASE epc # "commit"
    <3>1. commit_active = 0
      BY <1>4, <2>3
    <3>2. Len(ready) \in 0..1
      <4>1. Len(ready) \in Nat
        BY <1>5
      <4>2. Len(ready) + 0 <= 1
        BY <2>1, <3>1
      <4> QED
        BY <4>1, <4>2
    <3> QED
      BY <1>5, <1>7, <2>1, <2>3, <3>1, <3>2
  <2> QED
    BY <2>2, <2>3
<1> QED
  BY <1>6, <1>7

\* Where the preparer pops, the list is not empty and nothing is in flight.
LEMMA PopsFromNonempty ==
    ASSUME TypeOK, ThreadInv, CountInv, PreparePop
    PROVE  /\ raw # <<>> /\ raw \in Seq(Nat) /\ preparing = 0
           /\ ready = <<>> /\ epc # "commit"
<1>1. raw # <<>> /\ ~stop
  BY DEF ThreadInv, PreparePop, PastWaits, NoMoreInput, WaitsForInput,
         WaitsForTurn
<1>2. ready = <<>> /\ commit_active = 0
  BY <1>1 DEF PreparePop, PastWaits, WaitsForTurn
<1>3. ppc \in {"wait1", "wait2"}
  BY DEF PreparePop, PastWaits
<1> QED
  BY <1>1, <1>2, <1>3 DEF TypeOK, TypeCounts, CountInv, Holding

-----------------------------------------------------------------------------
(* Every step preserves each part *)

\* Every action moves the program points within their sets.
LEMMA ControlStep ==
    ASSUME TypeControl, [Next]_vars
    PROVE  TypeControl'
<1> USE DEF emuVars, childVars, watchVars, prepVars, pubVars
<1>0. CASE Configure
  BY <1>0 DEF TypeControl, Configure
<1>1. CASE RequestNoPipe
  BY <1>1 DEF TypeControl, RequestNoPipe, MayRequest, ResetRun, DiscardAll
<1>2. CASE RequestNoProcess
  BY <1>2 DEF TypeControl, RequestNoProcess, MayRequest, ResetRun, DiscardAll
<1>3. CASE RequestCancelled
  BY <1>3 DEF TypeControl, RequestCancelled, MayRequest, ResetRun, DiscardAll
<1>4. CASE RequestStart
  BY <1>4 DEF TypeControl, RequestStart, MayRequest, ResetRun, DiscardAll
<1>5. CASE StartWatcher
  BY <1>5 DEF TypeControl, StartWatcher
<1>6. CASE FailWatcher
  BY <1>6 DEF TypeControl, FailWatcher, Woken
<1>7. CASE CancelJoined
  BY <1>7 DEF TypeControl, CancelJoined
<1>8. CASE ChildPrint
  BY <1>8 DEF TypeControl, ChildPrint
<1>9. CASE ChildExit
  BY <1>9 DEF TypeControl, ChildExit
<1>10. CASE StrayExit
  BY <1>10 DEF TypeControl, StrayExit
<1>11. CASE WatchRead
  BY <1>11 DEF TypeControl, WatchRead, QueuePublished, Woken
<1>12. CASE WatchEof
  BY <1>12 DEF TypeControl, WatchEof
<1>13. CASE WatchDone
  BY <1>13 DEF TypeControl, WatchDone, Woken
<1>14. CASE PrepareSleepInput
  BY <1>14 DEF TypeControl, PrepareSleepInput, WaitsForInput
<1>15. CASE PrepareSleepTurn
  BY <1>15 DEF TypeControl, PrepareSleepTurn, WaitsForInput, WaitsForTurn
<1>16. CASE PreparePop
  BY <1>16 DEF TypeControl, PreparePop, PastWaits, NoMoreInput, WaitsForInput,
     WaitsForTurn
<1>17. CASE PrepareMapped
  BY <1>17 DEF TypeControl, PrepareMapped
<1>18. CASE PrepareFailed
  BY <1>18 DEF TypeControl, PrepareFailed
<1>19. CASE PrepareRetry
  BY <1>19 DEF TypeControl, PrepareRetry
<1>37. CASE PrepareAgain
  BY <1>37 DEF TypeControl, PrepareAgain, MapBegins
<1>20. CASE PrepareGiveUp
  BY <1>20 DEF TypeControl, PrepareGiveUp
<1>21. CASE PrepareHandoff
  BY <1>21 DEF TypeControl, PrepareHandoff
<1>22. CASE PrepareDiscard
  BY <1>22 DEF TypeControl, PrepareDiscard
<1>23. CASE PrepareLeave
  BY <1>23 DEF TypeControl, PrepareLeave, PastWaits, NoMoreInput,
     WaitsForInput, WaitsForTurn
<1>24. CASE PrepareReadStop
  BY <1>24 DEF TypeControl, PrepareReadStop
<1>25. CASE PrepareStoreDone
  BY <1>25 DEF TypeControl, PrepareStoreDone
<1>26. CASE PollPop
  BY <1>26 DEF TypeControl, PollPop
<1>27. CASE PollCommit
  BY <1>27 DEF TypeControl, PollCommit, Woken
<1>28. CASE PollDone
  BY <1>28 DEF TypeControl, PollDone, Pending
<1>29. CASE PollFinish
  BY <1>29 DEF TypeControl, PollFinish
<1>30. CASE Shutdown
  BY <1>30 DEF TypeControl, Shutdown, Woken
<1>31. CASE ShutdownJoinPreparer
  BY <1>31 DEF TypeControl, ShutdownJoinPreparer
<1>32. CASE ShutdownFinish
  BY <1>32 DEF TypeControl, ShutdownFinish, DiscardAll
<1>33. CASE Tick
  BY <1>33 DEF TypeControl, Tick
<1>34. CASE SpuriousWake
  BY <1>34 DEF TypeControl, SpuriousWake, Woken
<1>35. CASE Down
  BY <1>35 DEF TypeControl, Down, vars
<1>36. CASE UNCHANGED vars
  BY <1>36 DEF TypeControl, vars
<1> QED BY <1>0, <1>1, <1>2, <1>3, <1>4, <1>5, <1>6, <1>7, <1>8, <1>9, <1>10, <1>11,
   <1>12, <1>13, <1>14, <1>15, <1>16, <1>17, <1>18, <1>19, <1>20, <1>21,
   <1>22, <1>23, <1>24, <1>25, <1>26, <1>27, <1>28, <1>29, <1>30, <1>31,
   <1>32, <1>33, <1>34, <1>35, <1>36, <1>37 DEF Next, Request, Child, Watcher,
   Preparer, Emu

\* The flags stay Boolean.
LEMMA FlagsStep ==
    ASSUME TypeFlags, [Next]_vars
    PROVE  TypeFlags'
<1> USE DEF emuVars, childVars, watchVars, prepVars, pubVars
<1>0. CASE Configure
  BY <1>0, JobsAssumption DEF TypeFlags, Configure
<1>1. CASE RequestNoPipe
  BY <1>1, JobsAssumption DEF TypeFlags, RequestNoPipe, MayRequest, ResetRun,
     DiscardAll, NoteNothing
<1>2. CASE RequestNoProcess
  BY <1>2, JobsAssumption DEF TypeFlags, RequestNoProcess, MayRequest,
     ResetRun, DiscardAll, NoteFailure
<1>3. CASE RequestCancelled
  BY <1>3, JobsAssumption DEF TypeFlags, RequestCancelled, MayRequest,
     ResetRun, DiscardAll, NoteFailure
<1>4. CASE RequestStart
  BY <1>4, JobsAssumption DEF TypeFlags, RequestStart, MayRequest, ResetRun,
     DiscardAll, NoteNothing
<1>5. CASE StartWatcher
  BY <1>5, JobsAssumption DEF TypeFlags, StartWatcher
<1>6. CASE FailWatcher
  BY <1>6, JobsAssumption DEF TypeFlags, FailWatcher, Woken
<1>7. CASE CancelJoined
  BY <1>7, JobsAssumption DEF TypeFlags, CancelJoined, NoteFailure
<1>8. CASE ChildPrint
  BY <1>8, JobsAssumption DEF TypeFlags, ChildPrint
<1>9. CASE ChildExit
  BY <1>9, JobsAssumption DEF TypeFlags, ChildExit
<1>10. CASE StrayExit
  BY <1>10, JobsAssumption DEF TypeFlags, StrayExit
<1>11. CASE WatchRead
  BY <1>11, JobsAssumption DEF TypeFlags, WatchRead, QueuePublished, Woken
<1>12. CASE WatchEof
  BY <1>12, JobsAssumption DEF TypeFlags, WatchEof
<1>13. CASE WatchDone
  BY <1>13, JobsAssumption DEF TypeFlags, WatchDone, Woken
<1>14. CASE PrepareSleepInput
  BY <1>14, JobsAssumption DEF TypeFlags, PrepareSleepInput, WaitsForInput
<1>15. CASE PrepareSleepTurn
  BY <1>15, JobsAssumption DEF TypeFlags, PrepareSleepTurn, WaitsForInput,
     WaitsForTurn
<1>16. CASE PreparePop
  BY <1>16, JobsAssumption DEF TypeFlags, PreparePop, PastWaits, NoMoreInput,
     WaitsForInput, WaitsForTurn
<1>17. CASE PrepareMapped
  BY <1>17, JobsAssumption DEF TypeFlags, PrepareMapped
<1>18. CASE PrepareFailed
  BY <1>18, JobsAssumption DEF TypeFlags, PrepareFailed
<1>19. CASE PrepareRetry
  BY <1>19, JobsAssumption DEF TypeFlags, PrepareRetry
<1>37. CASE PrepareAgain
  BY <1>37, JobsAssumption DEF TypeFlags, PrepareAgain, MapBegins
<1>20. CASE PrepareGiveUp
  BY <1>20, JobsAssumption DEF TypeFlags, PrepareGiveUp
<1>21. CASE PrepareHandoff
  BY <1>21, JobsAssumption DEF TypeFlags, PrepareHandoff
<1>22. CASE PrepareDiscard
  BY <1>22, JobsAssumption DEF TypeFlags, PrepareDiscard
<1>23. CASE PrepareLeave
  BY <1>23, JobsAssumption DEF TypeFlags, PrepareLeave, PastWaits,
     NoMoreInput, WaitsForInput, WaitsForTurn
<1>24. CASE PrepareReadStop
  BY <1>24, JobsAssumption DEF TypeFlags, PrepareReadStop
<1>25. CASE PrepareStoreDone
  BY <1>25, JobsAssumption DEF TypeFlags, PrepareStoreDone
<1>26. CASE PollPop
  BY <1>26, JobsAssumption DEF TypeFlags, PollPop
<1>27. CASE PollCommit
  BY <1>27, JobsAssumption DEF TypeFlags, PollCommit, Woken
<1>28. CASE PollDone
  BY <1>28, JobsAssumption DEF TypeFlags, PollDone, Pending
<1>29. CASE PollFinish
  BY <1>29, JobsAssumption DEF TypeFlags, PollFinish, NoteFailure, NoteSuccess
<1>30. CASE Shutdown
  BY <1>30, JobsAssumption DEF TypeFlags, Shutdown, Woken
<1>31. CASE ShutdownJoinPreparer
  BY <1>31, JobsAssumption DEF TypeFlags, ShutdownJoinPreparer
<1>32. CASE ShutdownFinish
  BY <1>32, JobsAssumption DEF TypeFlags, ShutdownFinish, DiscardAll
<1>33. CASE Tick
  BY <1>33, JobsAssumption DEF TypeFlags, Tick
<1>34. CASE SpuriousWake
  BY <1>34, JobsAssumption DEF TypeFlags, SpuriousWake, Woken
<1>35. CASE Down
  BY <1>35, JobsAssumption DEF TypeFlags, Down, vars
<1>36. CASE UNCHANGED vars
  BY <1>36 DEF TypeFlags, vars
<1> QED BY <1>0, <1>1, <1>2, <1>3, <1>4, <1>5, <1>6, <1>7, <1>8, <1>9, <1>10, <1>11,
   <1>12, <1>13, <1>14, <1>15, <1>16, <1>17, <1>18, <1>19, <1>20, <1>21,
   <1>22, <1>23, <1>24, <1>25, <1>26, <1>27, <1>28, <1>29, <1>30, <1>31,
   <1>32, <1>33, <1>34, <1>35, <1>36, <1>37 DEF Next, Request, Child, Watcher,
   Preparer, Emu

\* The child's output and what is parsed from it.
LEMMA OutputStep ==
    ASSUME TypeOutput, [Next]_vars
    PROVE  TypeOutput'
<1> USE DEF emuVars, childVars, watchVars, prepVars, pubVars
<1>0. CASE Configure
  BY <1>0 DEF TypeOutput, Configure
<1>1. CASE RequestNoPipe
  BY <1>1, BoundsAssumption DEF TypeOutput, RequestNoPipe, MayRequest,
     ResetRun, DiscardAll, LineKinds, Results, Faults
<1>2. CASE RequestNoProcess
  BY <1>2, BoundsAssumption DEF TypeOutput, RequestNoProcess, MayRequest,
     ResetRun, DiscardAll, LineKinds, Results, Faults
<1>3. CASE RequestCancelled
  BY <1>3, BoundsAssumption DEF TypeOutput, RequestCancelled, MayRequest,
     ResetRun, DiscardAll, LineKinds, Results, Faults
<1>4. CASE RequestStart
  BY <1>4, BoundsAssumption DEF TypeOutput, RequestStart, MayRequest,
     ResetRun, DiscardAll, LineKinds, Results, Faults
<1>5. CASE StartWatcher
  BY <1>5, BoundsAssumption DEF TypeOutput, StartWatcher, LineKinds, Results,
     Faults
<1>6. CASE FailWatcher
  BY <1>6, BoundsAssumption DEF TypeOutput, FailWatcher, Woken, LineKinds,
     Results, Faults
<1>7. CASE CancelJoined
  BY <1>7, BoundsAssumption DEF TypeOutput, CancelJoined, LineKinds, Results,
     Faults
<1>8. CASE ChildPrint
  BY <1>8, BoundsAssumption DEF TypeOutput, ChildPrint, LineKinds, Results,
     Faults
<1>9. CASE ChildExit
  BY <1>9, BoundsAssumption DEF TypeOutput, ChildExit, LineKinds, Results,
     Faults
<1>10. CASE StrayExit
  BY <1>10, BoundsAssumption DEF TypeOutput, StrayExit, LineKinds, Results,
     Faults
<1>11. CASE WatchRead
  <2>1. pipe' \in Seq(LineKinds) /\ Head(pipe) \in LineKinds
    BY <1>11 DEF TypeOutput, WatchRead
  <2>2. tail' \in Results /\ result' \in Results
    BY <1>11, <2>1 DEF TypeOutput, WatchRead, TailAfter, Results
  <2>3. faults' \subseteq Faults
    BY <1>11 DEF TypeOutput, WatchRead, QueuePublished, Faults
  <2> QED
    BY <1>11, <2>1, <2>2, <2>3 DEF TypeOutput, WatchRead
<1>12. CASE WatchEof
  BY <1>12, BoundsAssumption DEF TypeOutput, WatchEof, LineKinds, Results,
     Faults
<1>13. CASE WatchDone
  BY <1>13, BoundsAssumption DEF TypeOutput, WatchDone, Woken, LineKinds,
     Results, Faults
<1>14. CASE PrepareSleepInput
  BY <1>14, BoundsAssumption DEF TypeOutput, PrepareSleepInput, WaitsForInput,
     LineKinds, Results, Faults
<1>15. CASE PrepareSleepTurn
  BY <1>15, BoundsAssumption DEF TypeOutput, PrepareSleepTurn, WaitsForInput,
     WaitsForTurn, LineKinds, Results, Faults
<1>16. CASE PreparePop
  BY <1>16, BoundsAssumption DEF TypeOutput, PreparePop, PastWaits,
     NoMoreInput, WaitsForInput, WaitsForTurn, LineKinds, Results, Faults
<1>17. CASE PrepareMapped
  BY <1>17, BoundsAssumption DEF TypeOutput, PrepareMapped, LineKinds,
     Results, Faults
<1>18. CASE PrepareFailed
  BY <1>18, BoundsAssumption DEF TypeOutput, PrepareFailed, LineKinds,
     Results, Faults
<1>19. CASE PrepareRetry
  BY <1>19, BoundsAssumption DEF TypeOutput, PrepareRetry, LineKinds, Results,
     Faults
<1>37. CASE PrepareAgain
  BY <1>37, BoundsAssumption DEF TypeOutput, PrepareAgain, MapBegins, LineKinds, Results,
     Faults
<1>20. CASE PrepareGiveUp
  BY <1>20, BoundsAssumption DEF TypeOutput, PrepareGiveUp, LineKinds,
     Results, Faults
<1>21. CASE PrepareHandoff
  BY <1>21, BoundsAssumption DEF TypeOutput, PrepareHandoff, LineKinds,
     Results, Faults
<1>22. CASE PrepareDiscard
  BY <1>22, BoundsAssumption DEF TypeOutput, PrepareDiscard, LineKinds,
     Results, Faults
<1>23. CASE PrepareLeave
  BY <1>23, BoundsAssumption DEF TypeOutput, PrepareLeave, PastWaits,
     NoMoreInput, WaitsForInput, WaitsForTurn, LineKinds, Results, Faults
<1>24. CASE PrepareReadStop
  BY <1>24, BoundsAssumption DEF TypeOutput, PrepareReadStop, LineKinds,
     Results, Faults
<1>25. CASE PrepareStoreDone
  BY <1>25, BoundsAssumption DEF TypeOutput, PrepareStoreDone, LineKinds,
     Results, Faults
<1>26. CASE PollPop
  BY <1>26, BoundsAssumption DEF TypeOutput, PollPop, LineKinds, Results,
     Faults
<1>27. CASE PollCommit
  BY <1>27, BoundsAssumption DEF TypeOutput, PollCommit, Woken, LineKinds,
     Results, Faults
<1>28. CASE PollDone
  BY <1>28, BoundsAssumption DEF TypeOutput, PollDone, Pending, LineKinds,
     Results, Faults
<1>29. CASE PollFinish
  BY <1>29, BoundsAssumption DEF TypeOutput, PollFinish, LineKinds, Results,
     Faults, FinalResult
<1>30. CASE Shutdown
  BY <1>30, BoundsAssumption DEF TypeOutput, Shutdown, Woken, LineKinds,
     Results, Faults
<1>31. CASE ShutdownJoinPreparer
  BY <1>31, BoundsAssumption DEF TypeOutput, ShutdownJoinPreparer, LineKinds,
     Results, Faults
<1>32. CASE ShutdownFinish
  BY <1>32, BoundsAssumption DEF TypeOutput, ShutdownFinish, DiscardAll,
     LineKinds, Results, Faults
<1>33. CASE Tick
  BY <1>33, BoundsAssumption DEF TypeOutput, Tick, LineKinds, Results, Faults
<1>34. CASE SpuriousWake
  BY <1>34, BoundsAssumption DEF TypeOutput, SpuriousWake, Woken, LineKinds,
     Results, Faults
<1>35. CASE Down
  BY <1>35, BoundsAssumption DEF TypeOutput, Down, vars, LineKinds, Results,
     Faults
<1>36. CASE UNCHANGED vars
  BY <1>36 DEF TypeOutput, vars
<1> QED BY <1>0, <1>1, <1>2, <1>3, <1>4, <1>5, <1>6, <1>7, <1>8, <1>9, <1>10, <1>11,
   <1>12, <1>13, <1>14, <1>15, <1>16, <1>17, <1>18, <1>19, <1>20, <1>21,
   <1>22, <1>23, <1>24, <1>25, <1>26, <1>27, <1>28, <1>29, <1>30, <1>31,
   <1>32, <1>33, <1>34, <1>35, <1>36, <1>37 DEF Next, Request, Child, Watcher,
   Preparer, Emu

\* The counters stay within their limits, the lists hold publication numbers.
LEMMA CountsStep ==
    ASSUME TypeOK, ThreadInv, CountInv, CountInv', [Next]_vars
    PROVE  TypeCounts'
<1> USE DEF Holding, Stopping, emuVars, childVars, watchVars, prepVars,
   pubVars
<1>0. CASE Configure
  BY <1>0 DEF TypeOK, TypeCounts, Configure
<1>1. CASE RequestNoPipe
  BY <1>1, BoundsAssumption DEF TypeOK, TypeCounts, ThreadInv, CountInv,
     RequestNoPipe, MayRequest, ResetRun, DiscardAll, NoteNothing
<1>2. CASE RequestNoProcess
  <2>1. consecutive_fails' \in 0..FailCap /\ retry' \in Int /\ retry' <= RetryMax
    BY <1>2, NoteFailureType DEF RequestNoProcess, TypeOK
  <2> QED
    BY <1>2, <2>1 DEF TypeOK, TypeCounts, CountInv, ThreadInv, RequestNoProcess, MayRequest,
       ResetRun, DiscardAll
<1>3. CASE RequestCancelled
  <2>1. consecutive_fails' \in 0..FailCap /\ retry' \in Int /\ retry' <= RetryMax
    BY <1>3, NoteFailureType DEF RequestCancelled, TypeOK
  <2> QED
    BY <1>3, <2>1 DEF TypeOK, TypeCounts, CountInv, ThreadInv, RequestCancelled, MayRequest,
       ResetRun, DiscardAll
<1>4. CASE RequestStart
  BY <1>4, BoundsAssumption DEF TypeOK, TypeCounts, ThreadInv, CountInv,
     RequestStart, MayRequest, ResetRun, DiscardAll, NoteNothing
<1>5. CASE StartWatcher
  BY <1>5, BoundsAssumption DEF TypeOK, TypeCounts, ThreadInv, CountInv,
     StartWatcher
<1>6. CASE FailWatcher
  BY <1>6, BoundsAssumption DEF TypeOK, TypeCounts, ThreadInv, CountInv,
     FailWatcher, Woken
<1>7. CASE CancelJoined
  <2>1. consecutive_fails' \in 0..FailCap /\ retry' \in Int /\ retry' <= RetryMax
    BY <1>7, NoteFailureType DEF CancelJoined, TypeOK
  <2> QED
    BY <1>7, <2>1 DEF TypeOK, TypeCounts, CancelJoined
<1>8. CASE ChildPrint
  BY <1>8, BoundsAssumption DEF TypeOK, TypeCounts, ThreadInv, CountInv,
     ChildPrint
<1>9. CASE ChildExit
  BY <1>9, BoundsAssumption DEF TypeOK, TypeCounts, ThreadInv, CountInv,
     ChildExit
<1>10. CASE StrayExit
  BY <1>10, BoundsAssumption DEF TypeOK, TypeCounts, ThreadInv, CountInv,
     StrayExit
<1>11. CASE WatchRead
  <2>1. published' \in Nat
    <3>1. published' = published + 1 \/ published' = published + 0
      BY <1>11 DEF WatchRead
    <3> QED
      BY <3>1 DEF TypeOK, TypeCounts
  <2>2. raw' \in Seq(Nat)
    <3>1. published + 1 \in Nat /\ raw \in Seq(Nat)
      BY DEF TypeOK, TypeCounts
    <3>2. raw' = raw \/ raw' = Append(raw, published + 1)
      BY <1>11 DEF WatchRead, QueuePublished
    <3> QED
      BY <3>1, <3>2, AppendNat
  <2> QED
    BY <1>11, <2>1, <2>2 DEF TypeOK, TypeCounts, WatchRead
<1>12. CASE WatchEof
  BY <1>12, BoundsAssumption DEF TypeOK, TypeCounts, ThreadInv, CountInv,
     WatchEof
<1>13. CASE WatchDone
  BY <1>13, BoundsAssumption DEF TypeOK, TypeCounts, ThreadInv, CountInv,
     WatchDone, Woken
<1>14. CASE PrepareSleepInput
  BY <1>14, BoundsAssumption DEF TypeOK, TypeCounts, ThreadInv, CountInv,
     PrepareSleepInput, WaitsForInput
<1>15. CASE PrepareSleepTurn
  BY <1>15, BoundsAssumption DEF TypeOK, TypeCounts, ThreadInv, CountInv,
     PrepareSleepTurn, WaitsForInput, WaitsForTurn
<1>16. CASE PreparePop
  <2>1. raw # <<>> /\ raw \in Seq(Nat) /\ preparing = 0
    BY <1>16, PopsFromNonempty
  <2>2. item' \in Nat /\ raw' \in Seq(Nat)
    BY <1>16, <2>1, PopNat DEF PreparePop
  <2>3. preparing' \in 0..1
    BY <1>16, <2>1 DEF PreparePop
  <2> QED
    BY <1>16, <2>2, <2>3, BoundsAssumption DEF TypeOK, TypeCounts, PreparePop, MapBegins
<1>17. CASE PrepareMapped
  BY <1>17, BoundsAssumption DEF TypeOK, TypeCounts, ThreadInv, CountInv,
     PrepareMapped
<1>18. CASE PrepareFailed
  BY <1>18, BoundsAssumption DEF TypeOK, TypeCounts, ThreadInv, CountInv,
     PrepareFailed
<1>19. CASE PrepareRetry
  BY <1>19, BoundsAssumption DEF TypeOK, TypeCounts, ThreadInv, CountInv,
     PrepareRetry
<1>37. CASE PrepareAgain
  BY <1>37, BoundsAssumption DEF TypeOK, TypeCounts, ThreadInv, CountInv,
     PrepareAgain, MapBegins
<1>20. CASE PrepareGiveUp
  BY <1>20, BoundsAssumption DEF TypeOK, TypeCounts, ThreadInv, CountInv,
     PrepareGiveUp
<1>21. CASE PrepareHandoff
  BY <1>21, BoundsAssumption DEF TypeOK, TypeCounts, ThreadInv, CountInv,
     PrepareHandoff
<1>22. CASE PrepareDiscard
  BY <1>22, BoundsAssumption DEF TypeOK, TypeCounts, ThreadInv, CountInv,
     PrepareDiscard
<1>23. CASE PrepareLeave
  BY <1>23, BoundsAssumption DEF TypeOK, TypeCounts, ThreadInv, CountInv,
     PrepareLeave, PastWaits, NoMoreInput, WaitsForInput, WaitsForTurn
<1>24. CASE PrepareReadStop
  BY <1>24, BoundsAssumption DEF TypeOK, TypeCounts, ThreadInv, CountInv,
     PrepareReadStop
<1>25. CASE PrepareStoreDone
  BY <1>25, BoundsAssumption DEF TypeOK, TypeCounts, ThreadInv, CountInv,
     PrepareStoreDone
<1>26. CASE PollPop
  BY <1>26, BoundsAssumption DEF TypeOK, TypeCounts, ThreadInv, CountInv,
     PollPop
<1>27. CASE PollCommit
  <2>1. committed' \in Seq(Nat)
    <3>1. committed \in Seq(Nat) /\ committing \in Nat
      BY DEF TypeOK, TypeCounts
    <3>2. committed' = committed \/ committed' = Append(committed, committing)
      BY <1>27 DEF PollCommit
    <3> QED
      BY <3>1, <3>2, AppendNat
  <2>2. commit_active = 1 /\ mapped - 1 \in Nat
    BY <1>27 DEF TypeOK, TypeCounts, PollCommit, CountInv
  <2> QED
    BY <1>27, <2>1, <2>2 DEF TypeOK, TypeCounts, PollCommit
<1>28. CASE PollDone
  BY <1>28, BoundsAssumption DEF TypeOK, TypeCounts, ThreadInv, CountInv,
     PollDone, Pending
<1>29. CASE PollFinish
  <2>1. NoteFailure \/ NoteSuccess
    BY <1>29 DEF PollFinish
  <2>2. consecutive_fails' \in 0..FailCap /\ retry' \in Int /\ retry' <= RetryMax
    BY <2>1, NoteFailureType, RetryAssumption DEF NoteSuccess, TypeOK
  <2> QED
    BY <1>29, <2>2 DEF TypeOK, TypeCounts, PollFinish
<1>30. CASE Shutdown
  BY <1>30, BoundsAssumption DEF TypeOK, TypeCounts, ThreadInv, CountInv,
     Shutdown, Woken
<1>31. CASE ShutdownJoinPreparer
  BY <1>31, BoundsAssumption DEF TypeOK, TypeCounts, ThreadInv, CountInv,
     ShutdownJoinPreparer
<1>32. CASE ShutdownFinish
  BY <1>32, BoundsAssumption DEF TypeOK, TypeCounts, ThreadInv, CountInv,
     ShutdownFinish, DiscardAll
<1>33. CASE Tick
  <2>1. retry' \in Int /\ retry' <= RetryMax
    BY <1>33, RetryAssumption DEF TypeOK, TypeCounts, Tick
  <2> QED
    BY <1>33, <2>1 DEF TypeOK, TypeCounts, Tick
<1>34. CASE SpuriousWake
  BY <1>34, BoundsAssumption DEF TypeOK, TypeCounts, ThreadInv, CountInv,
     SpuriousWake, Woken
<1>35. CASE Down
  BY <1>35, BoundsAssumption DEF TypeOK, TypeCounts, ThreadInv, CountInv,
     Down, vars
<1>36. CASE UNCHANGED vars
  BY <1>36 DEF TypeOK, TypeCounts, vars
<1> QED BY <1>0, <1>1, <1>2, <1>3, <1>4, <1>5, <1>6, <1>7, <1>8, <1>9, <1>10, <1>11,
   <1>12, <1>13, <1>14, <1>15, <1>16, <1>17, <1>18, <1>19, <1>20, <1>21,
   <1>22, <1>23, <1>24, <1>25, <1>26, <1>27, <1>28, <1>29, <1>30, <1>31,
   <1>32, <1>33, <1>34, <1>35, <1>36, <1>37 DEF Next, Request, Child, Watcher,
   Preparer, Emu

\* The relation between the program points is preserved.
LEMMA ThreadStep ==
    ASSUME TypeOK, ThreadInv, CountInv, [Next]_vars
    PROVE  ThreadInv'
<1> USE DEF Holding, Stopping, emuVars, childVars, watchVars, prepVars,
   pubVars
<1>0. CASE Configure
  BY <1>0 DEF ThreadInv, Configure
<1>1. CASE RequestNoPipe
  BY <1>1 DEF TypeOK, TypeControl, TypeCounts, TypeFlags, ThreadInv, CountInv,
     RequestNoPipe, MayRequest, ResetRun, DiscardAll
<1>2. CASE RequestNoProcess
  BY <1>2 DEF TypeOK, TypeControl, TypeCounts, TypeFlags, ThreadInv, CountInv,
     RequestNoProcess, MayRequest, ResetRun, DiscardAll
<1>3. CASE RequestCancelled
  BY <1>3 DEF TypeOK, TypeControl, TypeCounts, TypeFlags, ThreadInv, CountInv,
     RequestCancelled, MayRequest, ResetRun, DiscardAll
<1>4. CASE RequestStart
  BY <1>4 DEF TypeOK, TypeControl, TypeCounts, TypeFlags, ThreadInv, CountInv,
     RequestStart, MayRequest, ResetRun, DiscardAll
<1>5. CASE StartWatcher
  BY <1>5 DEF TypeOK, TypeControl, TypeCounts, TypeFlags, ThreadInv, CountInv,
     StartWatcher
<1>6. CASE FailWatcher
  BY <1>6 DEF TypeOK, TypeControl, TypeCounts, TypeFlags, ThreadInv, CountInv,
     FailWatcher, Woken
<1>7. CASE CancelJoined
  BY <1>7 DEF TypeOK, TypeControl, TypeCounts, TypeFlags, ThreadInv, CountInv,
     CancelJoined
<1>8. CASE ChildPrint
  BY <1>8 DEF TypeOK, TypeControl, TypeCounts, TypeFlags, ThreadInv, CountInv,
     ChildPrint
<1>9. CASE ChildExit
  BY <1>9 DEF TypeOK, TypeControl, TypeCounts, TypeFlags, ThreadInv, CountInv,
     ChildExit
<1>10. CASE StrayExit
  BY <1>10 DEF TypeOK, TypeControl, TypeCounts, TypeFlags, ThreadInv,
     CountInv, StrayExit
<1>11. CASE WatchRead
  BY <1>11 DEF TypeOK, TypeControl, TypeCounts, TypeFlags, ThreadInv,
     CountInv, WatchRead, QueuePublished, Woken
<1>12. CASE WatchEof
  BY <1>12 DEF TypeOK, TypeControl, TypeCounts, TypeFlags, ThreadInv,
     CountInv, WatchEof
<1>13. CASE WatchDone
  BY <1>13 DEF TypeOK, TypeControl, TypeCounts, TypeFlags, ThreadInv,
     CountInv, WatchDone, Woken
<1>14. CASE PrepareSleepInput
  BY <1>14 DEF TypeOK, TypeControl, TypeCounts, TypeFlags, ThreadInv,
     CountInv, PrepareSleepInput, WaitsForInput
<1>15. CASE PrepareSleepTurn
  BY <1>15 DEF TypeOK, TypeControl, TypeCounts, TypeFlags, ThreadInv,
     CountInv, PrepareSleepTurn, WaitsForInput, WaitsForTurn
<1>16. CASE PreparePop
  BY <1>16 DEF TypeOK, TypeControl, TypeCounts, TypeFlags, ThreadInv,
     CountInv, PreparePop, PastWaits, NoMoreInput, WaitsForInput, WaitsForTurn
<1>17. CASE PrepareMapped
  BY <1>17 DEF TypeOK, TypeControl, TypeCounts, TypeFlags, ThreadInv,
     CountInv, PrepareMapped
<1>18. CASE PrepareFailed
  BY <1>18 DEF TypeOK, TypeControl, TypeCounts, TypeFlags, ThreadInv,
     CountInv, PrepareFailed
<1>19. CASE PrepareRetry
  BY <1>19 DEF TypeOK, TypeControl, TypeCounts, TypeFlags, ThreadInv,
     CountInv, PrepareRetry
<1>37. CASE PrepareAgain
  BY <1>37 DEF TypeOK, TypeControl, TypeCounts, TypeFlags, ThreadInv,
     CountInv, PrepareAgain, MapBegins
<1>20. CASE PrepareGiveUp
  BY <1>20 DEF TypeOK, TypeControl, TypeCounts, TypeFlags, ThreadInv,
     CountInv, PrepareGiveUp
<1>21. CASE PrepareHandoff
  BY <1>21 DEF TypeOK, TypeControl, TypeCounts, TypeFlags, ThreadInv,
     CountInv, PrepareHandoff
<1>22. CASE PrepareDiscard
  BY <1>22 DEF TypeOK, TypeControl, TypeCounts, TypeFlags, ThreadInv,
     CountInv, PrepareDiscard
<1>23. CASE PrepareLeave
  BY <1>23 DEF TypeOK, TypeControl, TypeCounts, TypeFlags, ThreadInv,
     CountInv, PrepareLeave, PastWaits, NoMoreInput, WaitsForInput,
     WaitsForTurn
<1>24. CASE PrepareReadStop
  BY <1>24 DEF TypeOK, TypeControl, TypeCounts, TypeFlags, ThreadInv,
     CountInv, PrepareReadStop
<1>25. CASE PrepareStoreDone
  BY <1>25 DEF TypeOK, TypeControl, TypeCounts, TypeFlags, ThreadInv,
     CountInv, PrepareStoreDone
<1>26. CASE PollPop
  BY <1>26 DEF TypeOK, TypeControl, TypeCounts, TypeFlags, ThreadInv,
     CountInv, PollPop
<1>27. CASE PollCommit
  BY <1>27 DEF TypeOK, TypeControl, TypeCounts, TypeFlags, ThreadInv,
     CountInv, PollCommit, Woken
<1>28. CASE PollDone
  BY <1>28 DEF TypeOK, TypeControl, TypeCounts, TypeFlags, ThreadInv,
     CountInv, PollDone, Pending
<1>29. CASE PollFinish
  BY <1>29 DEF TypeOK, TypeControl, TypeCounts, TypeFlags, ThreadInv,
     CountInv, PollFinish
<1>30. CASE Shutdown
  BY <1>30 DEF TypeOK, TypeControl, TypeCounts, TypeFlags, ThreadInv,
     CountInv, Shutdown, Woken
<1>31. CASE ShutdownJoinPreparer
  BY <1>31 DEF TypeOK, TypeControl, TypeCounts, TypeFlags, ThreadInv,
     CountInv, ShutdownJoinPreparer
<1>32. CASE ShutdownFinish
  BY <1>32 DEF TypeOK, TypeControl, TypeCounts, TypeFlags, ThreadInv,
     CountInv, ShutdownFinish, DiscardAll
<1>33. CASE Tick
  BY <1>33 DEF TypeOK, TypeControl, TypeCounts, TypeFlags, ThreadInv,
     CountInv, Tick
<1>34. CASE SpuriousWake
  BY <1>34 DEF TypeOK, TypeControl, TypeCounts, TypeFlags, ThreadInv,
     CountInv, SpuriousWake, Woken
<1>35. CASE Down
  BY <1>35 DEF TypeOK, TypeControl, TypeCounts, TypeFlags, ThreadInv,
     CountInv, Down, vars
<1>36. CASE UNCHANGED vars
  BY <1>36 DEF ThreadInv, vars
<1> QED BY <1>0, <1>1, <1>2, <1>3, <1>4, <1>5, <1>6, <1>7, <1>8, <1>9, <1>10, <1>11,
   <1>12, <1>13, <1>14, <1>15, <1>16, <1>17, <1>18, <1>19, <1>20, <1>21,
   <1>22, <1>23, <1>24, <1>25, <1>26, <1>27, <1>28, <1>29, <1>30, <1>31,
   <1>32, <1>33, <1>34, <1>35, <1>36, <1>37 DEF Next, Request, Child, Watcher,
   Preparer, Emu

\* The counters keep agreeing with the program points.
LEMMA CountStep ==
    ASSUME TypeOK, ThreadInv, CountInv, [Next]_vars
    PROVE  CountInv'
<1> USE DEF Holding, Stopping, emuVars, childVars, watchVars, prepVars,
   pubVars
<1>0. CASE Configure
  BY <1>0 DEF CountInv, Configure
<1>1. CASE RequestNoPipe
  BY <1>1, BoundsAssumption DEF TypeOK, TypeControl, TypeCounts, TypeFlags,
     ThreadInv, CountInv, RequestNoPipe, MayRequest, ResetRun, DiscardAll
<1>2. CASE RequestNoProcess
  BY <1>2, BoundsAssumption DEF TypeOK, TypeControl, TypeCounts, TypeFlags,
     ThreadInv, CountInv, RequestNoProcess, MayRequest, ResetRun, DiscardAll
<1>3. CASE RequestCancelled
  BY <1>3, BoundsAssumption DEF TypeOK, TypeControl, TypeCounts, TypeFlags,
     ThreadInv, CountInv, RequestCancelled, MayRequest, ResetRun, DiscardAll
<1>4. CASE RequestStart
  BY <1>4, BoundsAssumption DEF TypeOK, TypeControl, TypeCounts, TypeFlags,
     ThreadInv, CountInv, RequestStart, MayRequest, ResetRun, DiscardAll
<1>5. CASE StartWatcher
  BY <1>5, BoundsAssumption DEF TypeOK, TypeControl, TypeCounts, TypeFlags,
     ThreadInv, CountInv, StartWatcher
<1>6. CASE FailWatcher
  BY <1>6, BoundsAssumption DEF TypeOK, TypeControl, TypeCounts, TypeFlags,
     ThreadInv, CountInv, FailWatcher, Woken
<1>7. CASE CancelJoined
  BY <1>7, BoundsAssumption DEF TypeOK, TypeControl, TypeCounts, TypeFlags,
     ThreadInv, CountInv, CancelJoined
<1>8. CASE ChildPrint
  BY <1>8, BoundsAssumption DEF TypeOK, TypeControl, TypeCounts, TypeFlags,
     ThreadInv, CountInv, ChildPrint
<1>9. CASE ChildExit
  BY <1>9, BoundsAssumption DEF TypeOK, TypeControl, TypeCounts, TypeFlags,
     ThreadInv, CountInv, ChildExit
<1>10. CASE StrayExit
  BY <1>10, BoundsAssumption DEF TypeOK, TypeControl, TypeCounts, TypeFlags,
     ThreadInv, CountInv, StrayExit
<1>11. CASE WatchRead
  BY <1>11, BoundsAssumption DEF TypeOK, TypeControl, TypeCounts, TypeFlags,
     ThreadInv, CountInv, WatchRead, QueuePublished, Woken
<1>12. CASE WatchEof
  BY <1>12, BoundsAssumption DEF TypeOK, TypeControl, TypeCounts, TypeFlags,
     ThreadInv, CountInv, WatchEof
<1>13. CASE WatchDone
  BY <1>13, BoundsAssumption DEF TypeOK, TypeControl, TypeCounts, TypeFlags,
     ThreadInv, CountInv, WatchDone, Woken
<1>14. CASE PrepareSleepInput
  BY <1>14, BoundsAssumption DEF TypeOK, TypeControl, TypeCounts, TypeFlags,
     ThreadInv, CountInv, PrepareSleepInput, WaitsForInput
<1>15. CASE PrepareSleepTurn
  BY <1>15, BoundsAssumption DEF TypeOK, TypeControl, TypeCounts, TypeFlags,
     ThreadInv, CountInv, PrepareSleepTurn, WaitsForInput, WaitsForTurn
<1>16. CASE PreparePop
  <2>1. raw # <<>> /\ preparing = 0 /\ ready = <<>> /\ epc # "commit"
    BY <1>16, PopsFromNonempty
  <2>2. ppc' = "mapping" /\ preparing' = 1 /\ attempts' = 0
    BY <1>16, <2>1 DEF PreparePop
  <2> QED
    BY <1>16, <2>1, <2>2, BoundsAssumption DEF CountInv, PreparePop, PastWaits
<1>17. CASE PrepareMapped
  BY <1>17, BoundsAssumption DEF TypeOK, TypeControl, TypeCounts, TypeFlags,
     ThreadInv, CountInv, PrepareMapped
<1>18. CASE PrepareFailed
  BY <1>18, BoundsAssumption DEF TypeOK, TypeControl, TypeCounts, TypeFlags,
     ThreadInv, CountInv, PrepareFailed
<1>19. CASE PrepareRetry
  BY <1>19, BoundsAssumption DEF TypeOK, TypeControl, TypeCounts, TypeFlags,
     ThreadInv, CountInv, PrepareRetry
<1>37. CASE PrepareAgain
  BY <1>37, BoundsAssumption DEF TypeOK, TypeControl, TypeCounts, TypeFlags,
     ThreadInv, CountInv, PrepareAgain, MapBegins
<1>20. CASE PrepareGiveUp
  BY <1>20, BoundsAssumption DEF TypeOK, TypeControl, TypeCounts, TypeFlags,
     ThreadInv, CountInv, PrepareGiveUp
<1>21. CASE PrepareHandoff
  BY <1>21, BoundsAssumption DEF TypeOK, TypeControl, TypeCounts, TypeFlags,
     ThreadInv, CountInv, PrepareHandoff
<1>22. CASE PrepareDiscard
  BY <1>22, BoundsAssumption DEF TypeOK, TypeControl, TypeCounts, TypeFlags,
     ThreadInv, CountInv, PrepareDiscard
<1>23. CASE PrepareLeave
  BY <1>23, BoundsAssumption DEF TypeOK, TypeControl, TypeCounts, TypeFlags,
     ThreadInv, CountInv, PrepareLeave, PastWaits, NoMoreInput, WaitsForInput,
     WaitsForTurn
<1>24. CASE PrepareReadStop
  BY <1>24, BoundsAssumption DEF TypeOK, TypeControl, TypeCounts, TypeFlags,
     ThreadInv, CountInv, PrepareReadStop
<1>25. CASE PrepareStoreDone
  BY <1>25, BoundsAssumption DEF TypeOK, TypeControl, TypeCounts, TypeFlags,
     ThreadInv, CountInv, PrepareStoreDone
<1>26. CASE PollPop
  BY <1>26, BoundsAssumption DEF TypeOK, TypeControl, TypeCounts, TypeFlags,
     ThreadInv, CountInv, PollPop
<1>27. CASE PollCommit
  BY <1>27, BoundsAssumption DEF TypeOK, TypeControl, TypeCounts, TypeFlags,
     ThreadInv, CountInv, PollCommit, Woken
<1>28. CASE PollDone
  BY <1>28, BoundsAssumption DEF TypeOK, TypeControl, TypeCounts, TypeFlags,
     ThreadInv, CountInv, PollDone, Pending
<1>29. CASE PollFinish
  BY <1>29, BoundsAssumption DEF TypeOK, TypeControl, TypeCounts, TypeFlags,
     ThreadInv, CountInv, PollFinish
<1>30. CASE Shutdown
  BY <1>30, BoundsAssumption DEF TypeOK, TypeControl, TypeCounts, TypeFlags,
     ThreadInv, CountInv, Shutdown, Woken
<1>31. CASE ShutdownJoinPreparer
  BY <1>31, BoundsAssumption DEF TypeOK, TypeControl, TypeCounts, TypeFlags,
     ThreadInv, CountInv, ShutdownJoinPreparer
<1>32. CASE ShutdownFinish
  BY <1>32, BoundsAssumption DEF TypeOK, TypeControl, TypeCounts, TypeFlags,
     ThreadInv, CountInv, ShutdownFinish, DiscardAll
<1>33. CASE Tick
  BY <1>33, BoundsAssumption DEF TypeOK, TypeControl, TypeCounts, TypeFlags,
     ThreadInv, CountInv, Tick
<1>34. CASE SpuriousWake
  BY <1>34, BoundsAssumption DEF TypeOK, TypeControl, TypeCounts, TypeFlags,
     ThreadInv, CountInv, SpuriousWake, Woken
<1>35. CASE Down
  BY <1>35, BoundsAssumption DEF TypeOK, TypeControl, TypeCounts, TypeFlags,
     ThreadInv, CountInv, Down, vars
<1>36. CASE UNCHANGED vars
  BY <1>36 DEF CountInv, vars
<1> QED BY <1>0, <1>1, <1>2, <1>3, <1>4, <1>5, <1>6, <1>7, <1>8, <1>9, <1>10, <1>11,
   <1>12, <1>13, <1>14, <1>15, <1>16, <1>17, <1>18, <1>19, <1>20, <1>21,
   <1>22, <1>23, <1>24, <1>25, <1>26, <1>27, <1>28, <1>29, <1>30, <1>31,
   <1>32, <1>33, <1>34, <1>35, <1>36, <1>37 DEF Next, Request, Child, Watcher,
   Preparer, Emu

\* The numbering of the publications is preserved.
LEMMA OrderStep ==
    ASSUME TypeOK, ThreadInv, CountInv, OrderInv, [Next]_vars
    PROVE  OrderInv'
<1> USE DEF Holding, Stopping, emuVars, childVars, watchVars, prepVars,
   pubVars
<1>0. CASE Configure
  BY <1>0 DEF OrderInv, Numbered, Configure
<1>1. CASE RequestNoPipe
  BY <1>1 DEF TypeOK, TypeControl, TypeCounts, TypeFlags, ThreadInv, CountInv,
     OrderInv, Numbered, RequestNoPipe, MayRequest, ResetRun, DiscardAll
<1>2. CASE RequestNoProcess
  BY <1>2 DEF TypeOK, TypeControl, TypeCounts, TypeFlags, ThreadInv, CountInv,
     OrderInv, Numbered, RequestNoProcess, MayRequest, ResetRun, DiscardAll
<1>3. CASE RequestCancelled
  BY <1>3 DEF TypeOK, TypeControl, TypeCounts, TypeFlags, ThreadInv, CountInv,
     OrderInv, Numbered, RequestCancelled, MayRequest, ResetRun, DiscardAll
<1>4. CASE RequestStart
  BY <1>4 DEF TypeOK, TypeControl, TypeCounts, TypeFlags, ThreadInv, CountInv,
     OrderInv, Numbered, RequestStart, MayRequest, ResetRun, DiscardAll
<1>5. CASE StartWatcher
  BY <1>5 DEF TypeOK, TypeControl, TypeCounts, TypeFlags, ThreadInv, CountInv,
     OrderInv, Numbered, StartWatcher
<1>6. CASE FailWatcher
  BY <1>6 DEF TypeOK, TypeControl, TypeCounts, TypeFlags, ThreadInv, CountInv,
     OrderInv, Numbered, FailWatcher, Woken
<1>7. CASE CancelJoined
  BY <1>7 DEF TypeOK, TypeControl, TypeCounts, TypeFlags, ThreadInv, CountInv,
     OrderInv, Numbered, CancelJoined
<1>8. CASE ChildPrint
  BY <1>8 DEF TypeOK, TypeControl, TypeCounts, TypeFlags, ThreadInv, CountInv,
     OrderInv, Numbered, ChildPrint
<1>9. CASE ChildExit
  BY <1>9 DEF TypeOK, TypeControl, TypeCounts, TypeFlags, ThreadInv, CountInv,
     OrderInv, Numbered, ChildExit
<1>10. CASE StrayExit
  BY <1>10 DEF TypeOK, TypeControl, TypeCounts, TypeFlags, ThreadInv,
     CountInv, OrderInv, Numbered, StrayExit
<1>11. CASE WatchRead
  <2>1. wpc = "reading" /\ state # "IDLE" /\ verdict # "ok" /\ verdict' = verdict
    BY <1>11 DEF WatchRead, ThreadInv, OrderInv
  <2>2. SUFFICES ASSUME faults' = {}, ~stop' PROVE Numbered'
    BY <2>1 DEF OrderInv
  <2>3. Numbered /\ stop' = stop
    BY <1>11, <2>2 DEF WatchRead, QueuePublished, OrderInv
  <2>4. raw \in Seq(Nat) /\ published \in Nat
    BY DEF TypeOK, TypeCounts
  <2>5. CASE raw' = raw /\ published' = published + 0 /\ ppc' = ppc
    BY <1>11, <2>3, <2>4, <2>5 DEF Numbered, WatchRead
  <2>6. CASE /\ raw' = Append(raw, published + 1) /\ published' = published + 1
             /\ ppc' = Woken(ppc)
    <3>1. Len(raw') = Len(raw) + 1
      BY <2>4, <2>6, AppendNat
    <3>2. \A i \in 1..Len(raw') : raw'[i] = published' - Len(raw') + i
      <4> SUFFICES ASSUME NEW i \in 1..Len(raw')
                   PROVE  raw'[i] = published' - Len(raw') + i
        OBVIOUS
      <4>1. CASE i \in 1..Len(raw)
        BY <2>3, <2>4, <2>6, <3>1, <4>1, AppendNat DEF Numbered
      <4>2. CASE i = Len(raw) + 1
        BY <2>4, <2>6, <3>1, <4>2, AppendNat
      <4> QED
        BY <2>4, <3>1, <4>1, <4>2
    <3>3. Holding' <=> Holding
      BY <2>6 DEF Woken
    <3>4. UNCHANGED <<committed, ready, commit_active, preparing, epc,
                      committing, item>>
      BY <1>11 DEF WatchRead
    <3>5. Len(committed') + Len(ready') + commit_active' + preparing' + Len(raw')
             = published'
      <4>1. /\ Len(committed) \in Nat /\ Len(ready) \in Nat /\ Len(raw) \in Nat
            /\ commit_active \in Nat /\ preparing \in Nat
        BY <2>4 DEF TypeOK, TypeCounts
      <4>2. Len(committed) + Len(ready) + commit_active + preparing + Len(raw)
               = published
        BY <2>3 DEF Numbered
      <4> QED
        BY <2>4, <2>6, <3>1, <3>4, <4>1, <4>2
    <3>6. published' - Len(raw') = published - Len(raw)
      BY <2>4, <2>6, <3>1
    <3> QED
      BY <2>3, <3>2, <3>3, <3>4, <3>5, <3>6 DEF Numbered
  <2> QED
    BY <1>11, <2>2, <2>5, <2>6 DEF WatchRead, QueuePublished
<1>12. CASE WatchEof
  BY <1>12 DEF TypeOK, TypeControl, TypeCounts, TypeFlags, ThreadInv,
     CountInv, OrderInv, Numbered, WatchEof
<1>13. CASE WatchDone
  BY <1>13 DEF TypeOK, TypeControl, TypeCounts, TypeFlags, ThreadInv,
     CountInv, OrderInv, Numbered, WatchDone, Woken
<1>14. CASE PrepareSleepInput
  BY <1>14 DEF TypeOK, TypeControl, TypeCounts, TypeFlags, ThreadInv,
     CountInv, OrderInv, Numbered, PrepareSleepInput, WaitsForInput
<1>15. CASE PrepareSleepTurn
  BY <1>15 DEF TypeOK, TypeControl, TypeCounts, TypeFlags, ThreadInv,
     CountInv, OrderInv, Numbered, PrepareSleepTurn, WaitsForInput,
     WaitsForTurn
<1>16. CASE PreparePop
  <2>1. raw # <<>> /\ raw \in Seq(Nat) /\ preparing = 0
    BY <1>16, PopsFromNonempty
  <2>2. raw' = Tail(raw) /\ item' = Head(raw) /\ ppc' = "mapping"
    BY <1>16, <2>1 DEF PreparePop
  <2>3. Numbered => Numbered'
    <3> SUFFICES ASSUME Numbered PROVE Numbered'
      OBVIOUS
    <3>1. Len(raw') = Len(raw) - 1 /\ Len(raw) \in Nat
      BY <2>1, <2>2, PopNat
    <3>2. \A i \in 1..Len(raw') : raw'[i] = published' - Len(raw') + i
      <4> SUFFICES ASSUME NEW i \in 1..Len(raw')
                   PROVE  raw'[i] = published' - Len(raw') + i
        OBVIOUS
      <4>1. raw'[i] = raw[i + 1] /\ i + 1 \in 1..Len(raw)
        BY <2>1, <2>2, <3>1, PopNat
      <4> QED
        BY <1>16, <3>1, <4>1 DEF Numbered, PreparePop, TypeOK, TypeCounts
    <3>3. item' = published - Len(raw) + 1
      BY <2>1, <2>2, <3>1, PopNat DEF Numbered
    <3>4. UNCHANGED <<committed, ready, commit_active, published, epc>>
          /\ preparing' = 1 /\ ready = <<>> /\ epc # "commit"
      BY <1>16, <2>1, PopsFromNonempty DEF PreparePop
    <3>5. Len(committed') + Len(ready') + commit_active' + preparing' + Len(raw')
             = published'
      BY <2>1, <3>1, <3>4 DEF Numbered, TypeOK, TypeCounts
    <3>6. Holding' => item' = published' - Len(raw')
      BY <3>1, <3>3, <3>4 DEF TypeOK, TypeCounts
    <3> QED
      BY <3>2, <3>4, <3>5, <3>6 DEF Numbered
  <2>4. state # "IDLE"
    BY <1>16 DEF PreparePop, PastWaits, ThreadInv
  <2> QED
    BY <1>16, <2>3, <2>4 DEF OrderInv, PreparePop
<1>17. CASE PrepareMapped
  BY <1>17 DEF TypeOK, TypeControl, TypeCounts, TypeFlags, ThreadInv,
     CountInv, OrderInv, Numbered, PrepareMapped
<1>18. CASE PrepareFailed
  BY <1>18 DEF TypeOK, TypeControl, TypeCounts, TypeFlags, ThreadInv,
     CountInv, OrderInv, Numbered, PrepareFailed
<1>19. CASE PrepareRetry
  BY <1>19 DEF TypeOK, TypeControl, TypeCounts, TypeFlags, ThreadInv,
     CountInv, OrderInv, Numbered, PrepareRetry
<1>37. CASE PrepareAgain
  BY <1>37 DEF TypeOK, TypeControl, TypeCounts, TypeFlags, ThreadInv,
     CountInv, OrderInv, Numbered, PrepareAgain, MapBegins
<1>20. CASE PrepareGiveUp
  BY <1>20 DEF TypeOK, TypeControl, TypeCounts, TypeFlags, ThreadInv,
     CountInv, OrderInv, Numbered, PrepareGiveUp
<1>21. CASE PrepareHandoff
  <2>1. Holding /\ Len(ready) = 0 /\ epc # "commit" /\ commit_active = 0 /\ preparing = 1
    BY <1>21, OneInFlight DEF PrepareHandoff
  <2>2. ready \in Seq(Nat) /\ item \in Nat /\ ready' = Append(ready, item)
    BY <1>21 DEF PrepareHandoff, TypeOK, TypeCounts
  <2>3. Len(ready') = 1 /\ Head(ready') = item
    BY <2>1, <2>2
  <2>4. /\ UNCHANGED <<committed, commit_active, published, raw, epc, stop, faults,
                       verdict, state>>
        /\ preparing' = 0 /\ ~Holding'
    BY <1>21, <2>1 DEF PrepareHandoff
  <2>5. Numbered => Numbered'
    BY <2>1, <2>3, <2>4 DEF Numbered, TypeOK, TypeCounts
  <2> QED
    BY <2>4, <2>5 DEF OrderInv
<1>22. CASE PrepareDiscard
  BY <1>22 DEF TypeOK, TypeControl, TypeCounts, TypeFlags, ThreadInv,
     CountInv, OrderInv, Numbered, PrepareDiscard
<1>23. CASE PrepareLeave
  BY <1>23 DEF TypeOK, TypeControl, TypeCounts, TypeFlags, ThreadInv,
     CountInv, OrderInv, Numbered, PrepareLeave, PastWaits, NoMoreInput,
     WaitsForInput, WaitsForTurn
<1>24. CASE PrepareReadStop
  BY <1>24 DEF TypeOK, TypeControl, TypeCounts, TypeFlags, ThreadInv,
     CountInv, OrderInv, Numbered, PrepareReadStop
<1>25. CASE PrepareStoreDone
  BY <1>25 DEF TypeOK, TypeControl, TypeCounts, TypeFlags, ThreadInv,
     CountInv, OrderInv, Numbered, PrepareStoreDone
<1>26. CASE PollPop
  <2>1. ready \in Seq(Nat) /\ ready # <<>> /\ Len(ready) = 1 /\ Len(ready') = 0
    <3>1. ready \in Seq(Nat) /\ ready # <<>> /\ ready' = Tail(ready)
      BY <1>26 DEF TypeOK, TypeCounts, PollPop
    <3>2. Len(ready) \in Nat \ {0} /\ Len(ready') = Len(ready) - 1
      BY <3>1, PopNat
    <3>3. Len(ready) \in 0..1
      BY OneInFlight
    <3> QED
      BY <3>1, <3>2, <3>3
  <2>2. Numbered => Numbered'
    <3> SUFFICES ASSUME Numbered PROVE Numbered'
      OBVIOUS
    <3>0. commit_active = 0 /\ preparing = 0 /\ ~Holding /\ ppc' = ppc
      BY <1>26, <2>1, OneInFlight DEF PollPop
    <3>a. committing' = published - Len(raw)
      BY <1>26, <2>1 DEF Numbered, PollPop
    <3>1. /\ committing' = published - Len(raw) /\ ~Holding'
          /\ ready' = <<>> /\ commit_active' = 1 /\ commit_active = 0
          /\ preparing' = 0
      BY <1>26, <2>1, <3>0, <3>a DEF PollPop
    <3>2. UNCHANGED <<committed, raw, published>> /\ preparing = 0
      BY <1>26, <2>1, OneInFlight DEF PollPop
    <3> QED
      BY <2>1, <3>1, <3>2 DEF Numbered, TypeOK, TypeCounts
  <2>3. state # "IDLE"
    BY <1>26 DEF PollPop, ThreadInv
  <2> QED
    BY <1>26, <2>2, <2>3 DEF OrderInv, PollPop
<1>27. CASE PollCommit
  <2>1. state # "IDLE" /\ state' = state /\ verdict' = verdict
    BY <1>27 DEF PollCommit, ThreadInv
  <2>2. SUFFICES ASSUME faults' = {}, ~stop' PROVE Numbered'
    BY <2>1 DEF OrderInv
  <2>3. Numbered /\ committed' = Append(committed, committing)
    BY <1>27, <2>2 DEF PollCommit, OrderInv
  <2>4. /\ committed \in Seq(Nat) /\ committing \in Nat /\ ready = <<>>
        /\ commit_active = 1 /\ preparing = 0
    BY <1>27 DEF PollCommit, TypeOK, TypeCounts, CountInv
  <2>5. Len(committed') = Len(committed) + 1
    BY <2>3, <2>4, AppendNat
  <2>6. committing = Len(committed) + 1
    BY <1>27, <2>3, <2>4 DEF Numbered, PollCommit, TypeOK, TypeCounts
  <2>7. \A i \in 1..Len(committed') : committed'[i] = i
    <3> SUFFICES ASSUME NEW i \in 1..Len(committed') PROVE committed'[i] = i
      OBVIOUS
    <3>1. CASE i \in 1..Len(committed)
      BY <2>3, <2>4, <3>1, AppendNat DEF Numbered
    <3>2. CASE i = Len(committed) + 1
      BY <2>3, <2>4, <2>6, <3>2, AppendNat
    <3> QED
      BY <2>4, <2>5, <3>1, <3>2
  <2>8. ~Holding' /\ epc' # "commit"
    BY <1>27, <2>4 DEF PollCommit, CountInv, Woken
  <2> QED
    BY <1>27, <2>3, <2>4, <2>5, <2>7, <2>8
    DEF Numbered, PollCommit, TypeOK, TypeCounts
<1>28. CASE PollDone
  BY <1>28 DEF TypeOK, TypeControl, TypeCounts, TypeFlags, ThreadInv,
     CountInv, OrderInv, Numbered, PollDone, Pending
<1>29. CASE PollFinish
  <2>1. CASE RunSucceeded
    <3>1. faults = {} /\ ~stop /\ raw = <<>> /\ ready = <<>> /\ epc = "join"
          /\ ~Holding
      BY <1>29, <2>1 DEF PollFinish, RunSucceeded, ThreadInv
    <3>2. Numbered
      BY <3>1 DEF OrderInv
    <3>3. committed \in Seq(Nat) /\ Len(committed) = published
      BY <3>1, <3>2 DEF Numbered, TypeOK, TypeCounts, CountInv
    <3>4. committed = [i \in 1..published |-> i]
      BY <3>2, <3>3 DEF Numbered
    <3>5. Numbered'
      BY <1>29, <3>1, <3>2 DEF Numbered, PollFinish
    <3> QED
      BY <1>29, <3>4, <3>5 DEF OrderInv, PollFinish
  <2>2. CASE ~RunSucceeded
    <3>1. epc = "join" /\ ppc = "exited"
      BY <1>29 DEF PollFinish
    <3>2. Numbered => Numbered'
      BY <1>29, <3>1 DEF Numbered, PollFinish
    <3> QED
      BY <1>29, <2>2, <3>2 DEF OrderInv, PollFinish
  <2> QED
    BY <2>1, <2>2
<1>30. CASE Shutdown
  BY <1>30 DEF TypeOK, TypeControl, TypeCounts, TypeFlags, ThreadInv,
     CountInv, OrderInv, Numbered, Shutdown, Woken
<1>31. CASE ShutdownJoinPreparer
  BY <1>31 DEF TypeOK, TypeControl, TypeCounts, TypeFlags, ThreadInv,
     CountInv, OrderInv, Numbered, ShutdownJoinPreparer
<1>32. CASE ShutdownFinish
  BY <1>32 DEF TypeOK, TypeControl, TypeCounts, TypeFlags, ThreadInv,
     CountInv, OrderInv, Numbered, ShutdownFinish, DiscardAll
<1>33. CASE Tick
  BY <1>33 DEF TypeOK, TypeControl, TypeCounts, TypeFlags, ThreadInv,
     CountInv, OrderInv, Numbered, Tick
<1>34. CASE SpuriousWake
  BY <1>34 DEF TypeOK, TypeControl, TypeCounts, TypeFlags, ThreadInv,
     CountInv, OrderInv, Numbered, SpuriousWake, Woken
<1>35. CASE Down
  BY <1>35 DEF TypeOK, TypeControl, TypeCounts, TypeFlags, ThreadInv,
     CountInv, OrderInv, Numbered, Down, vars
<1>36. CASE UNCHANGED vars
  BY <1>36 DEF OrderInv, Numbered, vars
<1> QED BY <1>0, <1>1, <1>2, <1>3, <1>4, <1>5, <1>6, <1>7, <1>8, <1>9, <1>10, <1>11,
   <1>12, <1>13, <1>14, <1>15, <1>16, <1>17, <1>18, <1>19, <1>20, <1>21,
   <1>22, <1>23, <1>24, <1>25, <1>26, <1>27, <1>28, <1>29, <1>30, <1>31,
   <1>32, <1>33, <1>34, <1>35, <1>36, <1>37 DEF Next, Request, Child, Watcher,
   Preparer, Emu
-----------------------------------------------------------------------------
(* The refinement of PublicationQueue *)

\* A list of publications with another one in front of it.
LEMMA FrontNat ==
    ASSUME NEW n \in Nat, NEW s \in Seq(Nat)
    PROVE  /\ <<n>> \o s \in Seq(Nat) /\ <<n>> \o s # <<>>
           /\ Head(<<n>> \o s) = n /\ Tail(<<n>> \o s) = s
  OBVIOUS

\* A list of publications is its oldest one and the others.
LEMMA SplitNat ==
    ASSUME NEW s \in Seq(Nat), s # <<>>
    PROVE  <<Head(s)>> \o Tail(s) = s
  OBVIOUS

\* A publication appended behind another one.
LEMMA FrontAppend ==
    ASSUME NEW n \in Nat, NEW s \in Seq(Nat), NEW m \in Nat
    PROVE  <<n>> \o Append(s, m) = Append(<<n>> \o s, m)
  OBVIOUS

\* A list of one publication.
LEMMA SingleNat ==
    ASSUME NEW s \in Seq(Nat), s # <<>>, Len(s) = 1
    PROVE  \E n \in Nat : s = <<n>>
<1>1. Head(s) \in Nat /\ Head(s) = s[1]
  BY PopNat
<1>2. s = <<Head(s)>>
  BY <1>1
<1> QED
  BY <1>1, <1>2

\* A step that moves no publication leaves the queue alone.
LEMMA QueueKept ==
    ASSUME UNCHANGED <<committing, ready, item, raw>>,
           epc' = "commit" <=> epc = "commit", Holding' <=> Holding
    PROVE  Outstanding' = Outstanding
<1>1. CASE epc = "commit" /\ Holding
  BY <1>1 DEF Outstanding, Holding
<1>2. CASE epc = "commit" /\ ~Holding
  BY <1>2 DEF Outstanding, Holding
<1>3. CASE epc # "commit" /\ Holding
  BY <1>3 DEF Outstanding, Holding
<1>4. CASE epc # "commit" /\ ~Holding
  BY <1>4 DEF Outstanding, Holding
<1> QED
  BY <1>1, <1>2, <1>3, <1>4

\* Waking the preparer does not make it hold or drop a publication.
LEMMA WokenHolds ==
    ASSUME ppc' = Woken(ppc)
    PROVE  Holding' <=> Holding
  BY DEF Woken, Holding

\* Every step of the threads is a step of the queue, or leaves it unchanged.
LEMMA QueueStep ==
    ASSUME IInv, [Next]_vars
    PROVE  [Fifo!Next]_(Fifo!vars)
<1> DEFINE kept == UNCHANGED <<committing, ready, item, raw>>
           rest == UNCHANGED <<state, stop, published, committed, faults, verdict>>
<1>a. /\ raw \in Seq(Nat) /\ ready \in Seq(Nat) /\ committed \in Seq(Nat)
      /\ committing \in Nat /\ item \in Nat /\ published \in Nat
  BY DEF IInv, TypeOK, TypeCounts
<1>b. /\ Holding => ready = <<>> /\ epc # "commit"
      /\ epc = "commit" => ready = <<>> /\ ~Holding
      /\ ready # <<>> => ~Holding /\ epc # "commit" /\ Len(ready) = 1
      /\ preparing = (IF Holding THEN 1 ELSE 0)
      /\ commit_active = (IF epc = "commit" THEN 1 ELSE 0)
  BY OneInFlight DEF IInv, CountInv
<1>c. /\ epc # "commit" /\ ready = <<>> /\ ~Holding => Outstanding = raw
      /\ epc = "commit" /\ ready = <<>> /\ ~Holding => Outstanding = <<committing>> \o raw
      /\ epc # "commit" /\ ready = <<>> /\ Holding => Outstanding = <<item>> \o raw
  <2>1. ASSUME epc # "commit", ready = <<>>, ~Holding PROVE Outstanding = raw
    BY <1>a, <2>1 DEF Outstanding, Holding
  <2>2. ASSUME epc = "commit", ready = <<>>, ~Holding PROVE Outstanding = <<committing>> \o raw
    BY <1>a, <2>2 DEF Outstanding, Holding
  <2>3. ASSUME epc # "commit", ready = <<>>, Holding PROVE Outstanding = <<item>> \o raw
    BY <1>a, <2>3 DEF Outstanding, Holding
  <2> QED
    BY <2>1, <2>2, <2>3
<1>f. ASSUME NEW n \in Nat, ready = <<n>>, epc # "commit", ~Holding
      PROVE  Outstanding = <<n>> \o raw
  BY <1>a, <1>f DEF Outstanding, Holding
<1>g. ASSUME raw' \in Seq(Nat), epc' # "commit", ready' = <<>>, ~Holding'
      PROVE  Outstanding' = raw'
  BY <1>g DEF Outstanding, Holding
<1>h. ASSUME raw' \in Seq(Nat), committing' \in Nat, epc' = "commit", ready' = <<>>, ~Holding'
      PROVE  Outstanding' = <<committing'>> \o raw'
  BY <1>h DEF Outstanding, Holding
<1>i. ASSUME raw' \in Seq(Nat), item' \in Nat, epc' # "commit", ready' = <<>>, Holding'
      PROVE  Outstanding' = <<item'>> \o raw'
  BY <1>i DEF Outstanding, Holding
<1>j. ASSUME raw' \in Seq(Nat), NEW n \in Nat, ready' = <<n>>, epc' # "commit", ~Holding'
      PROVE  Outstanding' = <<n>> \o raw'
  BY <1>j DEF Outstanding, Holding
<1>d. ASSUME kept, epc' = "commit" <=> epc = "commit", Holding' <=> Holding, rest
      PROVE  UNCHANGED Fifo!vars
  BY <1>d, QueueKept DEF Fifo!vars
<1>e. /\ state = "IDLE" => /\ ppc = "none" /\ wpc = "none" /\ raw = <<>> /\ ready = <<>>
                           /\ epc \in {"boot", "run", "stopP", "stopW", "down"}
      /\ Stopping => stop
      /\ epc \in {"starting", "cancel"} => raw = <<>> /\ ready = <<>>
  BY DEF IInv, ThreadInv
<1> USE DEF emuVars, childVars, watchVars, prepVars, pubVars
<1>0. CASE Configure
  BY <1>0, <1>d DEF Configure, Holding
<1>1. CASE RequestNoPipe
  <2>1. state = "IDLE" /\ epc = "run"
    BY <1>1 DEF RequestNoPipe, MayRequest
  <2>2. Outstanding = <<>>
    BY <1>c, <1>e, <2>1 DEF Holding
  <2>3. /\ raw' = <<>> /\ ready' = <<>> /\ ~Holding' /\ epc' # "commit"
        /\ ~stop' /\ published' = 0 /\ committed' = <<>> /\ faults' = {} /\ verdict' = "none"
    BY <1>1, <1>e, <2>1 DEF RequestNoPipe, ResetRun, DiscardAll, Holding
  <2>4. Outstanding' = <<>>
    BY <2>3, <1>g DEF Holding
  <2>5. Fifo!Begin
    BY <2>1, <2>2, <2>3, <2>4 DEF Fifo!Begin
  <2> QED
    BY <2>5 DEF Fifo!Next
<1>2. CASE RequestNoProcess
  <2>1. state = "IDLE" /\ epc = "run"
    BY <1>2 DEF RequestNoProcess, MayRequest
  <2>2. Outstanding = <<>>
    BY <1>c, <1>e, <2>1 DEF Holding
  <2>3. /\ raw' = <<>> /\ ready' = <<>> /\ ~Holding' /\ epc' # "commit"
        /\ ~stop' /\ published' = 0 /\ committed' = <<>> /\ faults' = {} /\ verdict' = "none"
    BY <1>2, <1>e, <2>1 DEF RequestNoProcess, ResetRun, DiscardAll, Holding
  <2>4. Outstanding' = <<>>
    BY <2>3, <1>g DEF Holding
  <2>5. Fifo!Begin
    BY <2>1, <2>2, <2>3, <2>4 DEF Fifo!Begin
  <2> QED
    BY <2>5 DEF Fifo!Next
<1>3. CASE RequestCancelled
  <2>1. state = "IDLE" /\ epc = "run"
    BY <1>3 DEF RequestCancelled, MayRequest
  <2>2. Outstanding = <<>>
    BY <1>c, <1>e, <2>1 DEF Holding
  <2>3. /\ raw' = <<>> /\ ready' = <<>> /\ ~Holding' /\ epc' # "commit"
        /\ ~stop' /\ published' = 0 /\ committed' = <<>> /\ faults' = {} /\ verdict' = "none"
    BY <1>3, <1>e, <2>1 DEF RequestCancelled, ResetRun, DiscardAll, Holding
  <2>4. Outstanding' = <<>>
    BY <2>3, <1>g DEF Holding
  <2>5. Fifo!Begin
    BY <2>1, <2>2, <2>3, <2>4 DEF Fifo!Begin
  <2> QED
    BY <2>5 DEF Fifo!Next
<1>4. CASE RequestStart
  <2>1. state = "IDLE" /\ epc = "run"
    BY <1>4 DEF RequestStart, MayRequest
  <2>2. Outstanding = <<>>
    BY <1>c, <1>e, <2>1 DEF Holding
  <2>3. /\ raw' = <<>> /\ ready' = <<>> /\ ~Holding' /\ epc' # "commit"
        /\ ~stop' /\ published' = 0 /\ committed' = <<>> /\ faults' = {} /\ verdict' = "none"
    BY <1>4, <1>e, <2>1 DEF RequestStart, ResetRun, DiscardAll, Holding
  <2>4. Outstanding' = <<>>
    BY <2>3, <1>g DEF Holding
  <2>5. Fifo!Begin
    BY <2>1, <2>2, <2>3, <2>4 DEF Fifo!Begin
  <2> QED
    BY <2>5 DEF Fifo!Next
<1>5. CASE StartWatcher
  BY <1>5, <1>d DEF StartWatcher, Holding
<1>6. CASE FailWatcher
  <2>1. /\ kept /\ epc # "commit" /\ epc' # "commit" /\ stop' /\ (Holding' <=> Holding)
        /\ UNCHANGED <<state, published, committed, faults, verdict>>
    BY <1>6, WokenHolds DEF FailWatcher
  <2>2. Outstanding' = Outstanding
    BY <2>1, QueueKept
  <2>3. Fifo!Abort
    BY <1>6, <2>1, <2>2 DEF Fifo!Abort, FailWatcher
  <2> QED
    BY <2>3 DEF Fifo!Next
<1>7. CASE CancelJoined
  <2>1. /\ state' = "IDLE" /\ epc' # "commit" /\ ~Holding' /\ raw' = <<>> /\ ready' = <<>>
        /\ stop /\ UNCHANGED <<stop, published, committed, faults, verdict>>
    BY <1>7, <1>e DEF CancelJoined, Holding, Stopping
  <2>2. Outstanding' = <<>>
    BY <2>1, <1>g DEF Holding
  <2>3. Fifo!Close
    BY <2>1, <2>2 DEF Fifo!Close
  <2> QED
    BY <2>3 DEF Fifo!Next
<1>8. CASE ChildPrint
  BY <1>8, <1>d DEF ChildPrint, Holding
<1>9. CASE ChildExit
  BY <1>9, <1>d DEF ChildExit, Holding
<1>10. CASE StrayExit
  BY <1>10, <1>d DEF StrayExit, Holding
<1>11. CASE WatchRead
  <2>1. /\ state # "IDLE"
        /\ UNCHANGED <<committing, ready, item, epc, state, stop, committed, verdict>>
    BY <1>11, <1>e DEF WatchRead
  <2>2. CASE Head(pipe) = "published" /\ raw' = Append(raw, published + 1)
    <3>1. /\ ppc' = Woken(ppc) \/ ppc' = ppc
          /\ published' = published + 1
      BY <1>11, <2>2 DEF WatchRead, QueuePublished
    <3>2. Holding' <=> Holding
      BY <3>1, WokenHolds DEF Holding
    <3>3. Outstanding' = Append(Outstanding, published + 1)
      <4>0. published + 1 \in Nat /\ raw' \in Seq(Nat)
        BY <1>a, <2>2, AppendNat
      <4>1. CASE epc = "commit"
        <5>1. Outstanding = <<committing>> \o raw /\ Outstanding' = <<committing>> \o raw'
          BY <1>a, <1>b, <2>1, <3>2, <4>0, <4>1, <1>c, <1>h DEF Holding
        <5> QED
          BY <1>a, <2>2, <4>0, <5>1, FrontAppend
      <4>2. CASE Holding
        <5>1. Outstanding = <<item>> \o raw /\ Outstanding' = <<item>> \o raw'
          BY <1>a, <1>b, <2>1, <3>2, <4>0, <4>2, <1>c, <1>i DEF Holding
        <5> QED
          BY <1>a, <2>2, <4>0, <5>1, FrontAppend
      <4>3. CASE ready # <<>>
        <5>1. PICK n \in Nat : ready = <<n>>
          BY <1>a, <1>b, <4>3, SingleNat
        <5>2. Outstanding = <<n>> \o raw /\ Outstanding' = <<n>> \o raw'
          BY <1>a, <1>b, <2>1, <3>2, <4>0, <4>3, <5>1, <1>f, <1>j DEF Holding
        <5> QED
          BY <1>a, <2>2, <4>0, <5>2, FrontAppend
      <4>4. CASE epc # "commit" /\ ~Holding /\ ready = <<>>
        BY <1>a, <2>1, <2>2, <3>2, <4>0, <4>4, <1>c, <1>g DEF Holding
      <4> QED
        BY <4>1, <4>2, <4>3, <4>4
    <3>4. CASE faults' = faults
      <4>1. Fifo!Publish
        BY <2>1, <3>1, <3>3, <3>4 DEF Fifo!Publish
      <4> QED
        BY <4>1 DEF Fifo!Next
    <3> QED
      BY <1>11, <2>2, <3>4, <1>a, AppendNat DEF WatchRead, QueuePublished
  <2>3. CASE Head(pipe) = "published" /\ ~(raw' = Append(raw, published + 1))
    <3>1. kept /\ faults' # {} /\ published' = published + 1 /\ ppc' = ppc
      BY <1>11, <2>1, <2>3 DEF WatchRead, QueuePublished
    <3>2. Outstanding' = Outstanding
      BY <2>1, <3>1, QueueKept DEF Holding
    <3>3. Fifo!Refuse
      BY <2>1, <3>1, <3>2 DEF Fifo!Refuse
    <3> QED
      BY <3>3 DEF Fifo!Next
  <2>4. CASE Head(pipe) # "published"
    <3>1. kept /\ published' = published /\ ppc' = ppc
      BY <1>11, <1>a, <2>1, <2>4 DEF WatchRead
    <3>2. Outstanding' = Outstanding
      BY <2>1, <3>1, QueueKept DEF Holding
    <3>3. CASE Head(pipe) = "overlong"
      <4>1. faults' # {}
        BY <1>11, <2>4, <3>3 DEF WatchRead
      <4>2. Fifo!Refuse
        BY <2>1, <3>1, <3>2, <4>1 DEF Fifo!Refuse
      <4> QED
        BY <4>2 DEF Fifo!Next
    <3>4. CASE Head(pipe) # "overlong"
      <4>1. faults' = faults
        BY <1>11, <2>4, <3>4 DEF WatchRead
      <4> QED
        BY <2>1, <3>1, <3>2, <4>1 DEF Fifo!vars
    <3> QED
      BY <3>3, <3>4
  <2> QED
    BY <2>2, <2>3, <2>4
<1>12. CASE WatchEof
  <2>1. /\ state # "IDLE" /\ kept /\ ppc' = ppc /\ epc' = epc
        /\ UNCHANGED <<state, stop, published, committed, verdict>>
    BY <1>12, <1>e DEF WatchEof
  <2>2. Outstanding' = Outstanding
    BY <2>1, QueueKept DEF Holding
  <2>3. CASE partial
    <3>1. faults' # {}
      BY <1>12, <2>3 DEF WatchEof
    <3>2. Fifo!Refuse
      BY <2>1, <2>2, <3>1 DEF Fifo!Refuse
    <3> QED
      BY <3>2 DEF Fifo!Next
  <2>4. CASE ~partial
    <3>1. faults' = faults
      BY <1>12, <2>4 DEF WatchEof
    <3> QED
      BY <2>1, <2>2, <3>1 DEF Fifo!vars
  <2> QED
    BY <2>3, <2>4
<1>13. CASE WatchDone
  BY <1>13, <1>d, WokenHolds DEF WatchDone
<1>14. CASE PrepareSleepInput
  BY <1>14, <1>d DEF PrepareSleepInput, Holding
<1>15. CASE PrepareSleepTurn
  BY <1>15, <1>d DEF PrepareSleepTurn, Holding
<1>16. CASE PreparePop
  <2>1. raw # <<>> /\ ready = <<>> /\ epc # "commit" /\ ~Holding
    BY <1>16, PopsFromNonempty DEF IInv, PreparePop, PastWaits, Holding
  <2>2. /\ raw' = Tail(raw) /\ item' = Head(raw) /\ ppc' = "mapping"
        /\ UNCHANGED <<epc, committing, ready>> /\ rest
    BY <1>16, <2>1 DEF PreparePop
  <2>3. item' \in Nat /\ raw' \in Seq(Nat)
    BY <1>a, <2>1, <2>2, PopNat
  <2>4. Outstanding = raw
    BY <1>a, <2>1, <1>c DEF Holding
  <2>5. Outstanding' = <<item'>> \o raw'
    BY <1>i, <2>1, <2>2, <2>3 DEF Holding
  <2>6. Outstanding' = Outstanding
    BY <1>a, <2>1, <2>2, <2>4, <2>5, SplitNat
  <2> QED
    BY <2>2, <2>6 DEF Fifo!vars
<1>17. CASE PrepareMapped
  BY <1>17, <1>d DEF PrepareMapped, Holding
<1>18. CASE PrepareFailed
  BY <1>18, <1>d DEF PrepareFailed, Holding
<1>19. CASE PrepareRetry
  BY <1>19, <1>d DEF PrepareRetry, Holding
<1>37. CASE PrepareAgain
  BY <1>37, <1>d DEF PrepareAgain, MapBegins, Holding
<1>20. CASE PrepareGiveUp
  <2>1. /\ Holding /\ ~Holding' /\ faults' # {}
        /\ UNCHANGED <<epc, committing, ready, raw, state, stop, published, committed, verdict>>
    BY <1>20 DEF PrepareGiveUp, Holding
  <2>2. Outstanding = <<item>> \o raw
    BY <1>a, <1>b, <2>1, <1>c DEF Holding
  <2>3. Outstanding' = raw
    BY <1>a, <1>b, <2>1, <1>g DEF Holding
  <2>4. Outstanding # <<>> /\ Outstanding' = Tail(Outstanding)
    BY <1>a, <2>2, <2>3, FrontNat
  <2>5. Fifo!Lose
    BY <2>1, <2>4 DEF Fifo!Lose
  <2> QED
    BY <2>5 DEF Fifo!Next
<1>21. CASE PrepareHandoff
  <2>1. /\ Holding /\ ~Holding' /\ ready = <<>> /\ epc # "commit" /\ rest
        /\ ready' = Append(ready, item) /\ UNCHANGED <<epc, committing, raw>>
    BY <1>21, <1>b DEF PrepareHandoff, Holding
  <2>2. ready' = <<item>>
    BY <1>a, <2>1
  <2>3. Outstanding = <<item>> \o raw
    BY <1>a, <2>1, <1>c DEF Holding
  <2>4. Outstanding' = <<item>> \o raw
    BY <1>a, <2>1, <2>2, <1>j DEF Holding
  <2> QED
    BY <2>1, <2>3, <2>4 DEF Fifo!vars
<1>22. CASE PrepareDiscard
  <2>1. /\ Holding /\ ~Holding' /\ stop /\ rest
        /\ UNCHANGED <<epc, committing, ready, raw>>
    BY <1>22 DEF PrepareDiscard, Holding
  <2>2. Outstanding = <<item>> \o raw
    BY <1>a, <1>b, <2>1, <1>c DEF Holding
  <2>3. Outstanding' = raw
    BY <1>a, <1>b, <2>1, <1>g DEF Holding
  <2>4. Outstanding # <<>> /\ Outstanding' = Tail(Outstanding)
    BY <1>a, <2>2, <2>3, FrontNat
  <2>5. Fifo!Lose
    BY <2>1, <2>4 DEF Fifo!Lose
  <2> QED
    BY <2>5 DEF Fifo!Next
<1>23. CASE PrepareLeave
  BY <1>23, <1>d DEF PrepareLeave, Holding, PastWaits
<1>24. CASE PrepareReadStop
  BY <1>24, <1>d DEF PrepareReadStop, Holding
<1>25. CASE PrepareStoreDone
  <2>1. /\ state # "IDLE" /\ state' # "IDLE" /\ kept /\ epc' = epc /\ ~Holding /\ ~Holding'
        /\ UNCHANGED <<stop, published, committed, faults, verdict>>
    BY <1>25, <1>e DEF PrepareStoreDone, Holding
  <2>2. Outstanding' = Outstanding
    BY <2>1, QueueKept
  <2> QED
    BY <2>1, <2>2 DEF Fifo!vars
<1>26. CASE PollPop
  <2>1. /\ ready # <<>> /\ epc # "commit" /\ ~Holding /\ ~Holding' /\ rest
        /\ epc' = "commit" /\ committing' = Head(ready) /\ ready' = Tail(ready)
        /\ UNCHANGED <<ppc, item, raw>>
    BY <1>26, <1>b DEF PollPop, Holding
  <2>2. PICK n \in Nat : ready = <<n>>
    BY <1>a, <1>b, <2>1, SingleNat
  <2>3. committing' = n /\ ready' = <<>>
    BY <2>1, <2>2
  <2>4. Outstanding = <<n>> \o raw
    BY <1>a, <2>1, <2>2, <1>f DEF Holding
  <2>5. Outstanding' = <<n>> \o raw
    BY <1>a, <2>1, <2>3, <1>h DEF Holding
  <2> QED
    BY <2>1, <2>4, <2>5 DEF Fifo!vars
<1>27. CASE PollCommit
  <2>1. /\ epc = "commit" /\ ready = <<>> /\ ~Holding /\ epc' = "run"
        /\ UNCHANGED <<ready, raw, state, stop, published, verdict>>
    BY <1>27, <1>b DEF PollCommit
  <2>2. ~Holding'
    BY <1>27, <2>1, WokenHolds DEF PollCommit
  <2>3. Outstanding = <<committing>> \o raw
    BY <1>a, <2>1, <1>c DEF Holding
  <2>4. Outstanding' = raw
    BY <1>a, <2>1, <2>2, <1>g DEF Holding
  <2>5. Outstanding # <<>> /\ Outstanding' = Tail(Outstanding) /\ Head(Outstanding) = committing
    BY <1>a, <2>3, <2>4, FrontNat
  <2>6. CASE committed' = Append(committed, committing) /\ faults' = faults
    <3>1. Fifo!Commit
      BY <2>1, <2>5, <2>6 DEF Fifo!Commit
    <3> QED
      BY <3>1 DEF Fifo!Next
  <2>7. CASE faults' # {} /\ committed' = committed
    <3>1. Fifo!Lose
      BY <2>1, <2>5, <2>7 DEF Fifo!Lose
    <3> QED
      BY <3>1 DEF Fifo!Next
  <2> QED
    BY <1>27, <2>6, <2>7 DEF PollCommit
<1>28. CASE PollDone
  BY <1>28, <1>d DEF PollDone, Holding
<1>29. CASE PollFinish
  <2>1. /\ state = "DONE" /\ raw = <<>> /\ ready = <<>> /\ epc # "commit" /\ ~Holding
        /\ state' = "IDLE" /\ epc' # "commit" /\ ~Holding'
        /\ UNCHANGED <<ready, raw, stop, published, committed, faults>>
    BY <1>29 DEF IInv, ThreadInv, PollFinish, Holding
  <2>2. Outstanding = <<>> /\ Outstanding' = <<>>
    BY <1>a, <2>1, <1>c, <1>g DEF Holding
  <2>3. verdict' \in (IF faults # {} THEN {"failed"} ELSE {"ok", "failed"})
    BY <1>29 DEF PollFinish, RunSucceeded
  <2>4. Fifo!Settle
    BY <2>1, <2>2, <2>3 DEF Fifo!Settle
  <2> QED
    BY <2>4 DEF Fifo!Next
<1>30. CASE Shutdown
  <2>1. /\ kept /\ epc # "commit" /\ epc' # "commit" /\ stop' /\ (Holding' <=> Holding)
        /\ UNCHANGED <<state, published, committed, faults, verdict>>
    BY <1>30, WokenHolds DEF Shutdown
  <2>2. Outstanding' = Outstanding
    BY <2>1, QueueKept
  <2>3. Fifo!Abort
    BY <1>30, <2>1, <2>2 DEF Fifo!Abort, Shutdown
  <2> QED
    BY <2>3 DEF Fifo!Next
<1>31. CASE ShutdownJoinPreparer
  BY <1>31, <1>d DEF ShutdownJoinPreparer, Holding
<1>32. CASE ShutdownFinish
  <2>1. epc = "stopW" /\ ppc = "none" /\ stop
    BY <1>32 DEF IInv, ThreadInv, Stopping, ShutdownFinish
  <2>2. preparing = 0 /\ commit_active = 0
    BY <1>b, <2>1 DEF Holding
  <2>3. /\ raw' = <<>> /\ ready' = <<>> /\ state' = "IDLE" /\ epc' # "commit" /\ ~Holding'
        /\ UNCHANGED <<stop, published, committed, faults, verdict>>
    BY <1>32, <2>1, <2>2 DEF ShutdownFinish, DiscardAll, Holding
  <2>4. Outstanding' = <<>>
    BY <2>3, <1>g DEF Holding
  <2>5. Fifo!Close
    BY <2>1, <2>3, <2>4 DEF Fifo!Close
  <2> QED
    BY <2>5 DEF Fifo!Next
<1>33. CASE Tick
  BY <1>33, <1>d DEF Tick, Holding
<1>34. CASE SpuriousWake
  BY <1>34, <1>d, WokenHolds DEF SpuriousWake
<1>35. CASE Down
  BY <1>35, <1>d DEF Down, Holding, vars
<1>36. CASE UNCHANGED vars
  BY <1>36, <1>d DEF vars, Holding
<1> QED BY <1>0, <1>1, <1>2, <1>3, <1>4, <1>5, <1>6, <1>7, <1>8, <1>9, <1>10, <1>11,
   <1>12, <1>13, <1>14, <1>15, <1>16, <1>17, <1>18, <1>19, <1>20, <1>21, <1>22, <1>23,
   <1>24, <1>25, <1>26, <1>27, <1>28, <1>29, <1>30, <1>31, <1>32, <1>33, <1>34, <1>35,
   <1>36, <1>37 DEF Next, Request, Child, Watcher, Preparer, Emu

\* s_publish_stop is only cleared with the count of late mappings, and once it
\* is set the preparer is granted no further retry.
LEMMA LateStep ==
    ASSUME TypeOK, LateInv, [Next]_vars
    PROVE  LateInv'
<1> USE DEF emuVars, childVars, watchVars, prepVars, pubVars
<1>1. late \in Nat
  BY DEF TypeOK, TypeCounts
<1>2. CASE Request
  BY <1>2 DEF LateInv, Request, RequestNoPipe, RequestNoProcess, RequestCancelled,
     RequestStart, ResetRun
<1>3. CASE Child
  BY <1>3 DEF LateInv, Child, ChildPrint, ChildExit, StrayExit
<1>4. CASE Watcher
  BY <1>4 DEF LateInv, Watcher, WatchRead, QueuePublished, WatchEof, WatchDone, Woken
<1>5. CASE PreparePop
  BY <1>5 DEF LateInv, PreparePop, PastWaits, NoMoreInput, MapBegins
<1>6. CASE PrepareRetry
  BY <1>6 DEF LateInv, PrepareRetry
<1>7. CASE PrepareAgain
  BY <1>1, <1>7 DEF LateInv, PrepareAgain, MapBegins
<1>8. CASE Preparer /\ ~(PreparePop \/ PrepareRetry \/ PrepareAgain)
  BY <1>8 DEF LateInv, Preparer, PrepareSleepInput, PrepareSleepTurn, PrepareMapped,
     PrepareFailed, PrepareGiveUp, PrepareHandoff, PrepareDiscard, PrepareLeave,
     PrepareReadStop, PrepareStoreDone
<1>9. CASE Emu
  BY <1>9 DEF LateInv, Emu, Configure, StartWatcher, FailWatcher, CancelJoined, PollPop,
     PollCommit, PollDone, PollFinish, ShutdownJoinPreparer, ShutdownFinish, Woken
<1>10. CASE Shutdown \/ Tick \/ SpuriousWake \/ Down \/ UNCHANGED vars
  BY <1>10 DEF LateInv, Shutdown, Tick, SpuriousWake, Down, Woken, vars
<1> QED
  BY <1>2, <1>3, <1>4, <1>5, <1>6, <1>7, <1>8, <1>9, <1>10 DEF Next

-----------------------------------------------------------------------------
(* The theorems *)

\* The inductive invariant holds initially and is preserved by every step.
THEOREM Invariance == Spec => []IInv
<1>1. Init => IInv
  <2> SUFFICES ASSUME Init PROVE IInv
    OBVIOUS
  <2>1. TypeControl /\ TypeFlags
    BY DEF Init, TypeControl, TypeFlags
  <2>2. TypeOutput
    BY BoundsAssumption DEF Init, TypeOutput, Results, LineKinds, Faults
  <2>3. TypeCounts
    BY BoundsAssumption, RetryAssumption DEF Init, TypeCounts
  <2>4. ThreadInv
    BY DEF Init, ThreadInv, Stopping
  <2>5. CountInv
    BY DEF Init, CountInv, Holding
  <2>6. OrderInv
    BY DEF Init, OrderInv, Numbered, Holding
  <2>7. LateInv
    BY DEF Init, LateInv
  <2> QED
    BY <2>1, <2>2, <2>3, <2>4, <2>5, <2>6, <2>7 DEF IInv, TypeOK
<1>2. IInv /\ [Next]_vars => IInv'
  <2> SUFFICES ASSUME IInv, [Next]_vars PROVE IInv'
    OBVIOUS
  <2> USE DEF IInv
  <2>1. TypeControl' /\ TypeFlags' /\ TypeOutput'
    BY ControlStep, FlagsStep, OutputStep DEF TypeOK
  <2>2. ThreadInv' /\ CountInv' /\ OrderInv' /\ LateInv'
    BY ThreadStep, CountStep, OrderStep, LateStep
  <2>3. TypeCounts'
    BY <2>2, CountsStep
  <2> QED
    BY <2>1, <2>2, <2>3 DEF TypeOK
<1> QED
  BY <1>1, <1>2, PTL DEF Spec

\* Type correctness: among others, the failure count saturates and the
\* preparing and committing counters never leave 0..1.
THEOREM TypeCorrect == Spec => []TypeOK
<1>1. IInv => TypeOK
  BY DEF IInv
<1> QED
  BY <1>1, Invariance, PTL

\* There is one mapped handoff at a time, the preparer is never inside the
\* loader together with a commit, and its defensive wait is never taken.
THEOREM OneHandoff == Spec => []OneMappedHandoff
<1>1. IInv => OneMappedHandoff
  <2> SUFFICES ASSUME IInv PROVE OneMappedHandoff
    OBVIOUS
  <2>1. TypeOK /\ CountInv
    BY DEF IInv
  <2>2. mapped = Len(ready) + commit_active
                  + (IF ppc = "handoff" THEN 1 ELSE 0) /\ mapped <= 1
    <3>1. mapped = Len(ready) + commit_active
                    + (IF ppc = "handoff" THEN 1 ELSE 0)
      BY <2>1 DEF CountInv
    <3>2. ppc = "handoff" => Len(ready) = 0 /\ commit_active = 0
      BY <2>1, OneInFlight DEF Holding
    <3>3. Len(ready) + commit_active <= 1
      <4>1. Len(ready) \in 0..1 /\ (epc = "commit" => Len(ready) = 0)
        BY <2>1, OneInFlight
      <4>2. CASE epc = "commit"
        BY <2>1, <4>1, <4>2, OneInFlight
      <4>3. CASE epc # "commit"
        <5>1. commit_active = 0
          BY <2>1, <4>3, OneInFlight
        <5> QED
          BY <4>1, <5>1
      <4> QED
        BY <4>2, <4>3
    <3>4. mapped <= 1
      BY <2>1, <3>1, <3>2, <3>3, OneInFlight
    <3> QED
      BY <3>1, <3>4
  <2>3. LoaderExclusive
    BY <2>1, OneInFlight DEF Holding, LoaderExclusive
  <2>4. HandoffNeverWaits
    BY <2>1, OneInFlight, BoundsAssumption DEF Holding, HandoffNeverWaits
  <2> QED
    BY <2>2, <2>3, <2>4 DEF OneMappedHandoff
<1> QED
  BY <1>1, Invariance, PTL

\* The preparer never dereferences an empty list.
THEOREM PopIsSafe == Spec => []NoNullItem
<1>1. IInv => NoNullItem
  BY DEF IInv, ThreadInv, NoNullItem
<1> QED
  BY <1>1, Invariance, PTL

\* A provider that reports IDLE has no worker and no publication left, and
\* shutdown leaves nothing mapped.
THEOREM Quiescence == Spec => []Quiescent
<1>1. IInv => Quiescent
  <2> SUFFICES ASSUME IInv PROVE IdleQuiescent /\ ShutdownClean
    BY DEF Quiescent
  <2>1. ASSUME ppc = "none", epc # "commit"
        PROVE  preparing = 0 /\ commit_active = 0 /\ mapped = Len(ready)
    BY <2>1 DEF IInv, TypeOK, TypeCounts, CountInv, Holding
  <2>2. IdleQuiescent
    BY <2>1 DEF IInv, ThreadInv, IdleQuiescent
  <2>3. ShutdownClean
    BY <2>1 DEF IInv, ThreadInv, ShutdownClean
  <2> QED
    BY <2>2, <2>3
<1> QED
  BY <1>1, Invariance, PTL

\* A run reported as successful has committed every published shard in order.
THEOREM SuccessIsComplete == Spec => []NoSilentLoss
<1>1. IInv => NoSilentLoss
  BY DEF IInv, OrderInv, NoSilentLoss
<1> QED
  BY <1>1, Invariance, PTL

\* autocompile_shutdown and the cancelling of a run wait for one LoadLibrary at
\* most: of the mappings the preparer may still begin after s_publish_stop is set
\* there is only the retry it was already sleeping towards, however many attempts
\* are left and publications queued.
THEOREM StopLeavesOneMapping == Spec => []OneMapAfterStop
<1>1. IInv => OneMapAfterStop
  BY DEF IInv, LateInv, OneMapAfterStop
<1> QED
  BY <1>1, Invariance, PTL

\* The threads, the two lists and the items held in between implement the single
\* queue of PublicationQueue: in the order of publication every shard is
\* committed or its loss is on record before the run is accounted.
THEOREM QueueImplemented == Spec => ImplementsQueue
<1>1. Init => Fifo!Init
  <2> SUFFICES ASSUME Init PROVE Fifo!Init
    OBVIOUS
  <2>1. Outstanding = <<>>
    BY DEF Init, Outstanding
  <2> QED
    BY <2>1 DEF Init, Fifo!Init
<1>2. IInv /\ [Next]_vars => [Fifo!Next]_(Fifo!vars)
  BY QueueStep
<1> QED
  BY <1>1, <1>2, Invariance, PTL DEF Spec, ImplementsQueue, Fifo!Spec

\* The proofs about the abstract queue, for the queue the threads implement.
FifoProofs == INSTANCE PublicationQueueProofs WITH
                 open <- state # "IDLE", aborted <- stop, queue <- Outstanding,
                 faulted <- faults # {}

\* autocompile_poll: at any time, in a run that succeeds, fails or is torn down,
\* the shards committed so far are in the order of their publication and none is
\* there twice.  It holds of the abstract queue and is inherited.
THEOREM CommitOrder ==
    Spec => [](\A i, j \in 1 .. Len(committed) : i < j => committed[i] < committed[j])
<1>1. Fifo!Init => FifoProofs!Init
  BY DEF Fifo!Init, FifoProofs!Init
<1>2. [Fifo!Next]_(Fifo!vars) => [FifoProofs!Next]_(FifoProofs!vars)
  BY DEF Fifo!Next, Fifo!Begin, Fifo!Publish, Fifo!Refuse, Fifo!Commit, Fifo!Lose,
     Fifo!Abort, Fifo!Close, Fifo!Settle, Fifo!vars,
     FifoProofs!Next, FifoProofs!Begin, FifoProofs!Publish, FifoProofs!Refuse,
     FifoProofs!Commit, FifoProofs!Lose, FifoProofs!Abort, FifoProofs!Close,
     FifoProofs!Settle, FifoProofs!vars
<1>3. FifoProofs!Spec => []FifoProofs!InOrder
  BY FifoProofs!CommitsInOrder
<1>4. FifoProofs!InOrder =>
        \A i, j \in 1 .. Len(committed) : i < j => committed[i] < committed[j]
  BY DEF FifoProofs!InOrder, FifoProofs!Increasing
<1> QED
  BY <1>1, <1>2, <1>3, <1>4, QueueImplemented, PTL
     DEF ImplementsQueue, Fifo!Spec, FifoProofs!Spec
=============================================================================
