------------------------ MODULE SolverSchedulerProofs ------------------------
(***************************************************************************)
(* What is proved of SolverScheduler for every number of jobs, pool size,  *)
(* provider limit, budget, retry policy, fault and interrupt: the types,   *)
(* that permits are conserved and provider limits kept, that the global    *)
(* semaphore never makes a pool thread wait, and that the ledgers follow   *)
(* JobLifecycle.                                                           *)
(***************************************************************************)
EXTENDS SolverScheduler, FiniteSetTheorems, TLAPS

(***************************************************************************)
(* The type invariant, made inductive and split by the variables it types. *)
(***************************************************************************)
MainTypes ==
  /\ main \in MainStates /\ failure \in Failures
  /\ submitted \in 0 .. NumJobs /\ cursor \in 1 .. (NumJobs + 1)
  /\ results \in [Jobs -> RowType]
  /\ main = "submitting" => submitted < NumJobs
  /\ main = "closing" => cursor <= submitted

\* An attempt's status is coerced before it can become a row.
ThreadTypes ==
  /\ thread \in [Jobs -> ThreadStates]
  /\ attempts \in [Jobs -> Nat]
  /\ outcome \in [Jobs -> Reported \cup AttemptStates \cup {"queued"}]
  /\ \A j \in Jobs : thread[j] \in {"decide", "close", "done"} => outcome[j] \in AttemptStates

PermitTypes == globalFree \in Nat /\ providerFree \in [Semaphores -> Nat]

FileTypes ==
  /\ row \in [Jobs -> RowType]
  /\ log \in [Jobs -> Seq(AttemptStates)]
  /\ buffer \in [Jobs -> Nat] /\ parquet \in [Jobs -> Nat]

BoundTypes == faults \in 0 .. MaxFaults /\ interrupts \in 0 .. MaxInterrupts

TypeInv == MainTypes /\ ThreadTypes /\ PermitTypes /\ FileTypes /\ BoundTypes

LEMMA TypeInvImpliesTypeOK == TypeInv => TypeOK
BY DEF TypeInv, MainTypes, ThreadTypes, PermitTypes, FileTypes, BoundTypes, TypeOK

LEMMA JobsFinite == IsFiniteSet(Jobs)
BY SchedulerAssumption, FS_Interval DEF Jobs

LEMMA SemaphoreTypes ==
  /\ \A j \in Jobs : SemaphoreOf(j) \in Semaphores
  /\ \A s \in Semaphores : Limit(s) \in Nat
BY SchedulerAssumption DEF SemaphoreOf, Semaphores, Limit

LEMMA RowTypes ==
  ASSUME NEW s \in JobStates, NEW n \in Nat PROVE Row(s, n) \in RowType
BY DEF Row, RowType

LEMMA InitTypes == Init => TypeInv
<1>. SUFFICES ASSUME Init PROVE TypeInv
  OBVIOUS
<1>1. NoRow \in RowType
  BY RowTypes DEF NoRow, JobStates
<1>2. MainTypes
  BY <1>1, SchedulerAssumption DEF Init, MainTypes, MainStates, Failures, Cut
<1>3. ThreadTypes
  BY DEF Init, ThreadTypes, ThreadStates
<1>4. PermitTypes
  BY SchedulerAssumption, SemaphoreTypes DEF Init, PermitTypes
<1>5. FileTypes
  BY <1>1 DEF Init, FileTypes
<1>6. BoundTypes
  BY SchedulerAssumption DEF Init, BoundTypes
<1>. QED BY <1>2, <1>3, <1>4, <1>5, <1>6 DEF TypeInv

\* Which actions change what.
LEMMA MainFrame ==
  ASSUME [Next]_vars
  PROVE  \/ UNCHANGED mainVars
         \/ Submit \/ CollectedAll \/ Join \/ Settle \/ CloseInterrupted
         \/ SettledAll \/ SettleFault \/ Flush \/ FlushFault \/ Interrupt
         \/ \E j \in Jobs : Collect(j)
<1>1. ASSUME NEW j \in Jobs, Thread(j) \/ Raise(j) PROVE UNCHANGED mainVars
  BY <1>1 DEF Thread, Start, Open, Preflight, RecordSkip, BeginAttempt,
     EnterWorkspace, AcquireGlobal, AcquireProvider, Throttle, CallAdapter,
     ReleaseProvider, ReleaseGlobal, LeaveWorkspace, RecordAttempt, Decide, Close,
     Raise
<1>2. UNCHANGED vars \/ Terminated => UNCHANGED mainVars
  BY DEF vars, Terminated
<1>. QED BY <1>1, <1>2, Zenon DEF Next, Main

LEMMA ThreadFrame ==
  ASSUME [Next]_vars
  PROVE  \/ UNCHANGED threadVars
         \/ Submit
         \/ \E j \in Jobs : Thread(j) \/ Raise(j)
<1>1. ASSUME NEW j \in Jobs, Collect(j) PROVE UNCHANGED threadVars
  BY <1>1 DEF Collect
<1>2. CollectedAll \/ Join \/ Settle \/ CloseInterrupted \/ SettledAll \/ Flush
        \/ SettleFault \/ FlushFault \/ Interrupt => UNCHANGED threadVars
  BY DEF CollectedAll, Join, Settle, CloseInterrupted, SettledAll, Flush,
         SettleFault, FlushFault, Interrupt
<1>3. UNCHANGED vars \/ Terminated => UNCHANGED threadVars
  BY DEF vars, Terminated
<1>. QED BY <1>1, <1>2, <1>3, Zenon DEF Next, Main

LEMMA PermitFrame ==
  ASSUME [Next]_vars
  PROVE  \/ UNCHANGED semaVars
         \/ \E j \in Jobs : \/ AcquireGlobal(j) \/ AcquireProvider(j)
                            \/ ReleaseProvider(j) \/ ReleaseGlobal(j)
<1>1. ASSUME NEW j \in Jobs, Thread(j) \/ Raise(j)
      PROVE  \/ UNCHANGED semaVars
             \/ AcquireGlobal(j) \/ AcquireProvider(j)
             \/ ReleaseProvider(j) \/ ReleaseGlobal(j)
  BY <1>1 DEF Thread, Start, Open, Preflight, RecordSkip, BeginAttempt,
     EnterWorkspace, Throttle, CallAdapter, LeaveWorkspace, RecordAttempt, Decide,
     Close, Raise
<1>2. ASSUME NEW j \in Jobs, Collect(j) PROVE UNCHANGED semaVars
  BY <1>2 DEF Collect
<1>3. Submit \/ CollectedAll \/ Join \/ Settle \/ CloseInterrupted \/ SettledAll
        \/ Flush \/ SettleFault \/ FlushFault \/ Interrupt => UNCHANGED semaVars
  BY DEF Submit, CollectedAll, Join, Settle, CloseInterrupted, SettledAll, Flush,
         SettleFault, FlushFault, Interrupt
<1>4. UNCHANGED vars \/ Terminated => UNCHANGED semaVars
  BY DEF vars, Terminated
<1>. QED BY <1>1, <1>2, <1>3, <1>4, Zenon DEF Next, Main

LEMMA FileFrame ==
  ASSUME [Next]_vars
  PROVE  \/ UNCHANGED fileVars
         \/ CloseInterrupted \/ Flush \/ FlushFault \/ Interrupt
         \/ \E j \in Jobs : \/ Open(j) \/ RecordSkip(j) \/ BeginAttempt(j)
                            \/ RecordAttempt(j) \/ Decide(j) \/ Close(j)
<1>1. ASSUME NEW j \in Jobs, Thread(j) \/ Raise(j)
      PROVE  \/ UNCHANGED fileVars
             \/ Open(j) \/ RecordSkip(j) \/ BeginAttempt(j)
             \/ RecordAttempt(j) \/ Decide(j) \/ Close(j)
  BY <1>1 DEF Thread, Start, Preflight, EnterWorkspace, AcquireGlobal,
     AcquireProvider, Throttle, CallAdapter, ReleaseProvider, ReleaseGlobal,
     LeaveWorkspace, Raise
<1>2. ASSUME NEW j \in Jobs, Collect(j) PROVE UNCHANGED fileVars
  BY <1>2 DEF Collect
<1>3. Submit \/ CollectedAll \/ Join \/ Settle \/ SettledAll \/ SettleFault =>
        UNCHANGED fileVars
  BY DEF Submit, CollectedAll, Join, Settle, SettledAll, SettleFault
<1>4. UNCHANGED vars \/ Terminated => UNCHANGED fileVars
  BY DEF vars, Terminated
<1>. QED BY <1>1, <1>2, <1>3, <1>4, Zenon DEF Next, Main

LEMMA MainTypesStep == TypeInv /\ [Next]_vars => MainTypes'
<1>. SUFFICES ASSUME TypeInv, [Next]_vars PROVE MainTypes'
  OBVIOUS
<1>0. MainTypes /\ ThreadTypes
  BY DEF TypeInv
<1>. USE SchedulerAssumption DEF MainTypes, MainStates, Failures, Cut
<1>1. CASE UNCHANGED mainVars
  BY <1>0, <1>1 DEF mainVars
<1>2. CASE Submit
  BY <1>0, <1>2 DEF Submit, Jobs
<1>3. ASSUME NEW j \in Jobs, Collect(j) PROVE MainTypes'
  <2>1. At(j, "done") => Row(outcome[j], attempts[j]) \in RowType
    BY <1>0, RowTypes DEF ThreadTypes, At, JobStates
  <2>2. results' \in [Jobs -> RowType]
    BY <1>0, <1>3, <2>1 DEF Collect
  <2>3. /\ main' = main \/ main' = "joining"
        /\ failure' = failure \/ failure' = "job"
        /\ UNCHANGED <<submitted, cursor>>
    BY <1>3 DEF Collect
  <2>. QED BY <1>0, <2>2, <2>3
<1>4. CASE CollectedAll \/ Join \/ SettledAll
  BY <1>0, <1>4 DEF CollectedAll, Join, SettledAll
<1>5. CASE Settle
  <2>1. cursor \in Jobs
    BY <1>0, <1>5 DEF Settle, Jobs
  <2>2. At(cursor, "done") => Row(outcome[cursor], attempts[cursor]) \in RowType
    BY <1>0, <2>1, RowTypes DEF ThreadTypes, At, JobStates
  <2>3. results' \in [Jobs -> RowType]
    BY <1>0, <1>5, <2>1, <2>2 DEF Settle
  <2>4. /\ cursor' \in 1 .. (NumJobs + 1)
        /\ main = "settling" /\ main' \in {"settling", "closing"}
        /\ main' = "closing" => cursor' <= submitted
        /\ UNCHANGED <<submitted, failure>>
    BY <1>0, <1>5, <2>1 DEF Settle, Jobs
  <2>. QED BY <1>0, <2>3, <2>4
<1>6. CASE CloseInterrupted
  <2>1. Row("failed", 0) \in RowType
    BY RowTypes DEF JobStates, AttemptStates
  <2>2. results' \in [Jobs -> RowType]
    BY <1>0, <1>6, <2>1 DEF CloseInterrupted
  <2>3. /\ cursor' \in 1 .. (NumJobs + 1)
        /\ main' = "settling" /\ UNCHANGED <<submitted, failure>>
    BY <1>0, <1>6 DEF CloseInterrupted
  <2>. QED BY <1>0, <2>2, <2>3
<1>7. CASE SettleFault \/ Flush \/ FlushFault
  BY <1>0, <1>7 DEF SettleFault, Flush, FlushFault, WriteFailure
<1>8. CASE Interrupt
  BY <1>0, <1>8 DEF Interrupt, CutShort
<1>. QED BY <1>1, <1>2, <1>3, <1>4, <1>5, <1>6, <1>7, <1>8, MainFrame, Zenon

\* A thread moves to a known state.
LEMMA Moved ==
  ASSUME ThreadTypes, NEW j \in Jobs, NEW s \in ThreadStates, Goto(j, s)
  PROVE  /\ thread' \in [Jobs -> ThreadStates]
         /\ \A k \in Jobs : thread'[k] = IF k = j THEN s ELSE thread[k]
BY DEF ThreadTypes, Goto

LEMMA ThreadTypesStep == TypeInv /\ [Next]_vars => ThreadTypes'
<1>. SUFFICES ASSUME TypeInv, [Next]_vars PROVE ThreadTypes'
  OBVIOUS
<1>0. MainTypes /\ ThreadTypes
  BY DEF TypeInv
<1>1. CASE UNCHANGED threadVars
  BY <1>0, <1>1 DEF ThreadTypes, threadVars
\* A step of thread j that leaves its attempts and outcome alone.
<1>2. ASSUME NEW j \in Jobs, NEW s \in ThreadStates, Goto(j, s),
             UNCHANGED <<attempts, outcome>>,
             s \in {"decide", "close", "done"} => outcome[j] \in AttemptStates
      PROVE  ThreadTypes'
  BY <1>0, <1>2, Moved DEF ThreadTypes
<1>. USE DEF ThreadStates, Running, Ended, HoldsGlobal, HoldsProvider, At
<1>3. ASSUME NEW j \in Jobs,
             \/ Start(j) \/ Open(j) \/ Preflight(j) \/ AcquireGlobal(j)
             \/ AcquireProvider(j) \/ Throttle(j) \/ ReleaseProvider(j)
             \/ ReleaseGlobal(j) \/ Raise(j)
      PROVE  ThreadTypes'
  <2>1. /\ UNCHANGED <<attempts, outcome>>
        /\ \E s \in ThreadStates \ {"decide", "close", "done"} : Goto(j, s)
    BY <1>3 DEF Start, Open, Preflight, AcquireGlobal, AcquireProvider, Throttle,
       ReleaseProvider, ReleaseGlobal, Raise
  <2>. QED BY <1>2, <2>1
<1>4. ASSUME NEW j \in Jobs, Decide(j) \/ Close(j) PROVE ThreadTypes'
  <2>1. outcome[j] \in AttemptStates
    BY <1>0, <1>4 DEF ThreadTypes, Decide, Close
  <2>2. /\ UNCHANGED <<attempts, outcome>>
        /\ \E s \in ThreadStates : Goto(j, s)
    BY <1>4 DEF Decide, Close
  <2>. QED BY <1>2, <2>1, <2>2
<1>5. ASSUME NEW j \in Jobs, RecordSkip(j) PROVE ThreadTypes'
  BY <1>0, <1>5, Moved DEF ThreadTypes, RecordSkip, AttemptStates
<1>6. ASSUME NEW j \in Jobs, BeginAttempt(j) PROVE ThreadTypes'
  BY <1>0, <1>6, Moved DEF ThreadTypes, BeginAttempt
<1>7. ASSUME NEW j \in Jobs, EnterWorkspace(j) \/ CallAdapter(j) \/ LeaveWorkspace(j)
      PROVE  ThreadTypes'
  <2>1. /\ UNCHANGED attempts
        /\ \E s \in ThreadStates \ {"decide", "close", "done"} : Goto(j, s)
        /\ \/ UNCHANGED outcome
           \/ \E o \in Reported \cup {"failed", "invalid_patch"} :
                outcome' = [outcome EXCEPT ![j] = o]
    BY <1>7 DEF EnterWorkspace, CallAdapter, LeaveWorkspace
  <2>. QED BY <1>0, <2>1, Moved DEF ThreadTypes, AttemptStates
<1>8. ASSUME NEW j \in Jobs, RecordAttempt(j) PROVE ThreadTypes'
  <2>1. Coerce(outcome[j]) \in AttemptStates
    BY DEF Coerce, AttemptStates
  <2>. QED BY <1>0, <1>8, <2>1, Moved DEF ThreadTypes, RecordAttempt
<1>9. CASE Submit
  <2>1. submitted + 1 \in Jobs
    BY <1>0, <1>9, SchedulerAssumption DEF Submit, MainTypes, Jobs
  <2>2. /\ UNCHANGED <<attempts, outcome>>
        /\ thread' = thread \/ Goto(submitted + 1, "pending")
    BY <1>9 DEF Submit
  <2>. QED BY <1>1, <1>2, <2>1, <2>2 DEF threadVars
<1>. QED BY <1>1, <1>3, <1>4, <1>5, <1>6, <1>7, <1>8, <1>9, ThreadFrame, Zenon DEF Thread

LEMMA PermitTypesStep == TypeInv /\ [Next]_vars => PermitTypes'
<1>. SUFFICES ASSUME TypeInv, [Next]_vars PROVE PermitTypes'
  OBVIOUS
<1>0. PermitTypes
  BY DEF TypeInv
<1>. USE SemaphoreTypes DEF PermitTypes, semaVars
<1>1. CASE UNCHANGED semaVars
  BY <1>0, <1>1
<1>2. ASSUME NEW j \in Jobs,
             AcquireGlobal(j) \/ AcquireProvider(j) \/ ReleaseProvider(j) \/ ReleaseGlobal(j)
      PROVE  PermitTypes'
  BY <1>0, <1>2 DEF AcquireGlobal, AcquireProvider, ReleaseProvider, ReleaseGlobal
<1>. QED BY <1>1, <1>2, PermitFrame, Zenon

LEMMA FileTypesStep == TypeInv /\ [Next]_vars => FileTypes'
<1>. SUFFICES ASSUME TypeInv, [Next]_vars PROVE FileTypes'
  OBVIOUS
<1>0. MainTypes /\ ThreadTypes /\ FileTypes
  BY DEF TypeInv
<1>. USE DEF FileTypes
<1>1. CASE UNCHANGED fileVars
  BY <1>0, <1>1 DEF fileVars
\* A step that only writes a row of j, or only an attempt of j.
<1>2. ASSUME NEW j \in Jobs, NEW s \in JobStates, NEW n \in Nat,
             WriteRow(j, s, n), UNCHANGED <<log, buffer, parquet>>
      PROVE  FileTypes'
  BY <1>0, <1>2, RowTypes DEF WriteRow
<1>3. ASSUME NEW j \in Jobs, NEW s \in AttemptStates, AppendAttempt(j, s),
             UNCHANGED <<row, parquet>>
      PROVE  FileTypes'
  BY <1>0, <1>3 DEF AppendAttempt
<1>4. ASSUME NEW j \in Jobs, Open(j) \/ BeginAttempt(j) \/ Decide(j) \/ Close(j)
      PROVE  FileTypes'
  <2>1. /\ UNCHANGED <<log, buffer, parquet>>
        /\ \/ UNCHANGED row
           \/ WriteRow(j, "queued", 0)
           \/ WriteRow(j, "running", attempts[j] + 1)
           \/ WriteRow(j, "queued", attempts[j])
           \/ At(j, "close") /\ WriteRow(j, outcome[j], attempts[j])
    BY <1>4 DEF Open, BeginAttempt, Decide, Close
  <2>2. /\ attempts[j] \in Nat /\ attempts[j] + 1 \in Nat /\ 0 \in Nat
        /\ "queued" \in JobStates /\ "running" \in JobStates
        /\ At(j, "close") => outcome[j] \in JobStates
    BY <1>0 DEF ThreadTypes, At, JobStates
  <2>. QED BY <1>1, <1>2, <2>1, <2>2 DEF fileVars
<1>5. ASSUME NEW j \in Jobs, RecordSkip(j) \/ RecordAttempt(j) PROVE FileTypes'
  <2>1. "skipped" \in AttemptStates /\ Coerce(outcome[j]) \in AttemptStates
    BY DEF Coerce, AttemptStates
  <2>. QED BY <1>3, <1>5, <2>1 DEF RecordSkip, RecordAttempt
<1>6. CASE CloseInterrupted
  <2>1. cursor \in Jobs /\ "failed" \in JobStates /\ 0 \in Nat
    BY <1>0, <1>6, SchedulerAssumption
    DEF CloseInterrupted, MainTypes, Jobs, JobStates, AttemptStates
  <2>2. UNCHANGED <<log, buffer, parquet>> /\ WriteRow(cursor, "failed", 0)
    BY <1>6 DEF CloseInterrupted
  <2>. QED BY <1>2, <2>1, <2>2
<1>7. CASE Flush \/ FlushFault \/ Interrupt
  <2>1. /\ UNCHANGED <<row, log>>
        /\ buffer' = buffer \/ buffer' = [j \in Jobs |-> 0]
        /\ parquet' = parquet \/ parquet' = buffer \/ parquet' \in Parts
    BY <1>7 DEF Flush, FlushFault, Interrupt
  <2>2. Parts \subseteq [Jobs -> Nat]
    <3>. SUFFICES ASSUME NEW part \in Parts, NEW j \in Jobs PROVE part[j] \in Nat
      BY DEF Parts
    <3>1. PICK k \in Jobs : part[j] \in 0 .. buffer[k]
      BY DEF Parts
    <3>. QED BY <3>1, <1>0
  <2>. QED BY <1>0, <2>1, <2>2
<1>. QED BY <1>1, <1>4, <1>5, <1>6, <1>7, FileFrame, Zenon

LEMMA BoundTypesStep == TypeInv /\ [Next]_vars => BoundTypes'
<1>. SUFFICES ASSUME TypeInv, [Next]_vars PROVE BoundTypes'
  OBVIOUS
<1>0. BoundTypes
  BY DEF TypeInv
<1>1. ASSUME NEW j \in Jobs, Thread(j) PROVE UNCHANGED <<faults, interrupts>>
  BY <1>1 DEF Thread, Start, Open, Preflight, RecordSkip, BeginAttempt,
     EnterWorkspace, AcquireGlobal, AcquireProvider, Throttle, CallAdapter,
     ReleaseProvider, ReleaseGlobal, LeaveWorkspace, RecordAttempt, Decide, Close
<1>2. ASSUME NEW j \in Jobs, Raise(j) PROVE Fault /\ interrupts' = interrupts
  BY <1>2 DEF Raise
<1>3. ASSUME NEW j \in Jobs, Collect(j) PROVE UNCHANGED <<faults, interrupts>>
  BY <1>3 DEF Collect
<1>4. Submit \/ CollectedAll \/ Join \/ Settle \/ CloseInterrupted \/ SettledAll \/ Flush =>
        UNCHANGED <<faults, interrupts>>
  BY DEF Submit, CollectedAll, Join, Settle, CloseInterrupted, SettledAll, Flush
<1>5. SettleFault \/ FlushFault => Fault /\ interrupts' = interrupts
  BY DEF SettleFault, FlushFault
<1>6. Interrupt => interrupts < MaxInterrupts /\ interrupts' = interrupts + 1 /\ faults' = faults
  BY DEF Interrupt
<1>7. UNCHANGED vars \/ Terminated => UNCHANGED <<faults, interrupts>>
  BY DEF vars, Terminated
<1>8. \/ UNCHANGED <<faults, interrupts>>
      \/ Fault /\ interrupts' = interrupts
      \/ interrupts < MaxInterrupts /\ interrupts' = interrupts + 1 /\ faults' = faults
  BY <1>1, <1>2, <1>3, <1>4, <1>5, <1>6, <1>7, Zenon DEF Next, Main
<1>. QED BY <1>0, <1>8, SchedulerAssumption DEF BoundTypes, Fault

LEMMA NextTypes == TypeInv /\ [Next]_vars => TypeInv'
BY MainTypesStep, ThreadTypesStep, PermitTypesStep, FileTypesStep, BoundTypesStep
DEF TypeInv

(***************************************************************************)
(* Every variable keeps its type; a row never shows a state that           *)
(* _coerce_attempt_status does not know.                                   *)
(***************************************************************************)
THEOREM TypeCorrect == Spec => []TypeOK
BY InitTypes, NextTypes, TypeInvImpliesTypeOK, PTL DEF Spec

-----------------------------------------------------------------------------
(* Permits.  A step moves at most one thread, so the threads that hold a   *)
(* permit change by at most one element.                                   *)

One(p) == IF p THEN 1 ELSE 0

LEMMA DifferInOne ==
  ASSUME NEW T, IsFiniteSet(T), NEW A, A \subseteq T, NEW B, B \subseteq T, NEW j \in T,
         \A k \in T : k # j => (k \in A <=> k \in B)
  PROVE  /\ Cardinality(A) \in Nat /\ Cardinality(B) \in Nat
         /\ Cardinality(B) + One(j \in A) = Cardinality(A) + One(j \in B)
<1>. DEFINE C == A \ {j}
<1>1. IsFiniteSet(A) /\ IsFiniteSet(B) /\ IsFiniteSet(C)
  BY FS_Subset
<1>2. Cardinality(A) \in Nat /\ Cardinality(B) \in Nat /\ Cardinality(C) \in Nat
  BY <1>1, FS_CardinalityType
<1>3. j \notin C /\ Cardinality(C \cup {j}) = Cardinality(C) + 1
  BY <1>1, FS_AddElement
<1>4. Cardinality(A) = Cardinality(C) + One(j \in A)
  <2>1. CASE j \in A
    <3>1. A = C \cup {j} /\ One(j \in A) = 1
      BY <2>1 DEF One
    <3>. QED BY <3>1, <1>3
  <2>2. CASE j \notin A
    <3>1. A = C /\ One(j \in A) = 0
      BY <2>2 DEF One
    <3>. QED BY <3>1, <1>2
  <2>. QED BY <2>1, <2>2
<1>5. Cardinality(B) = Cardinality(C) + One(j \in B)
  <2>1. CASE j \in B
    <3>1. B = C \cup {j} /\ One(j \in B) = 1
      BY <2>1 DEF One
    <3>. QED BY <3>1, <1>3
  <2>2. CASE j \notin B
    <3>1. B = C /\ One(j \in B) = 0
      BY <2>2 DEF One
    <3>. QED BY <3>1, <1>2
  <2>. QED BY <2>1, <2>2
<1>. QED BY <1>2, <1>4, <1>5 DEF One

\* How a move of thread j changes the number of threads in a set of states,
\* and of those that use a semaphore.
LEMMA CountMoved ==
  ASSUME ThreadTypes, NEW j \in Jobs, NEW t \in ThreadStates, Goto(j, t), NEW S
  PROVE  /\ Cardinality(In(S)) \in Nat /\ Cardinality(In(S))' \in Nat
         /\ Cardinality(In(S))' + One(thread[j] \in S) = Cardinality(In(S)) + One(t \in S)
<1>1. \A k \in Jobs : thread'[k] = IF k = j THEN t ELSE thread[k]
  BY Moved
<1>2. /\ \A k \in Jobs : k # j => (k \in In(S) <=> k \in In(S)')
      /\ (j \in In(S) <=> thread[j] \in S) /\ (j \in In(S)' <=> t \in S)
      /\ In(S) \subseteq Jobs /\ In(S)' \subseteq Jobs
  BY <1>1 DEF In
<1>3. /\ Cardinality(In(S)) \in Nat /\ Cardinality(In(S)') \in Nat
      /\ Cardinality(In(S)') + One(j \in In(S)) = Cardinality(In(S)) + One(j \in In(S)')
  BY <1>2, DifferInOne, JobsFinite
<1>. QED BY <1>2, <1>3 DEF One

LEMMA UsersMoved ==
  ASSUME ThreadTypes, NEW j \in Jobs, NEW t \in ThreadStates, Goto(j, t),
         NEW s \in Semaphores
  PROVE  /\ Cardinality(Using(s)) \in Nat /\ Cardinality(Using(s))' \in Nat
         /\ Cardinality(Using(s))' + One(thread[j] \in HoldsProvider /\ SemaphoreOf(j) = s)
              = Cardinality(Using(s)) + One(t \in HoldsProvider /\ SemaphoreOf(j) = s)
<1>1. \A k \in Jobs : thread'[k] = IF k = j THEN t ELSE thread[k]
  BY Moved
<1>2. /\ \A k \in Jobs : k # j => (k \in Using(s) <=> k \in Using(s)')
      /\ (j \in Using(s) <=> thread[j] \in HoldsProvider /\ SemaphoreOf(j) = s)
      /\ (j \in Using(s)' <=> t \in HoldsProvider /\ SemaphoreOf(j) = s)
      /\ Using(s) \subseteq Jobs /\ Using(s)' \subseteq Jobs
  BY <1>1 DEF In, Using
<1>3. /\ Cardinality(Using(s)) \in Nat /\ Cardinality(Using(s)') \in Nat
      /\ Cardinality(Using(s)') + One(j \in Using(s)) = Cardinality(Using(s)) + One(j \in Using(s)')
  BY <1>2, DifferInOne, JobsFinite
<1>. QED BY <1>2, <1>3 DEF One

\* Where a step takes its thread: to a state of the job's life, from one; and
\* a step that is not about permits neither takes one up nor gives one back.
LEMMA ThreadMoves ==
  ASSUME NEW j \in Jobs, Thread(j) \/ Raise(j)
  PROVE  \E t \in ThreadStates \ {"unsubmitted", "pending"} :
           /\ Goto(j, t)
           /\ thread[j] # "unsubmitted"
           /\ t \in Running /\ ~Start(j) => thread[j] \in Running
           /\ \/ /\ UNCHANGED semaVars
                 /\ (thread[j] \in HoldsGlobal) <=> (t \in HoldsGlobal)
                 /\ (thread[j] \in HoldsProvider) <=> (t \in HoldsProvider)
              \/ AcquireGlobal(j) \/ AcquireProvider(j)
              \/ ReleaseProvider(j) \/ ReleaseGlobal(j)
<1>. USE DEF At, HoldsGlobal, HoldsProvider, Running, Ended, ThreadStates, semaVars
<1>1. CASE Start(j)
  BY <1>1 DEF Start
<1>2. CASE Open(j) \/ Preflight(j) \/ RecordSkip(j) \/ BeginAttempt(j)
  BY <1>2 DEF Open, Preflight, RecordSkip, BeginAttempt
<1>3. CASE EnterWorkspace(j) \/ Throttle(j) \/ CallAdapter(j) \/ LeaveWorkspace(j)
  BY <1>3 DEF EnterWorkspace, Throttle, CallAdapter, LeaveWorkspace
<1>4. CASE RecordAttempt(j) \/ Decide(j) \/ Close(j)
  BY <1>4 DEF RecordAttempt, Decide, Close
<1>5. CASE Raise(j)
  BY <1>5 DEF Raise, Writes
<1>6. CASE AcquireGlobal(j) \/ AcquireProvider(j)
  BY <1>6 DEF AcquireGlobal, AcquireProvider
<1>7. CASE ReleaseProvider(j) \/ ReleaseGlobal(j)
  BY <1>7 DEF ReleaseProvider, ReleaseGlobal
<1>. QED BY <1>1, <1>2, <1>3, <1>4, <1>5, <1>6, <1>7, Zenon DEF Thread

\* The submitted jobs are those whose thread is not "unsubmitted".
SubmittedOnce == \A j \in Jobs : thread[j] = "unsubmitted" <=> j > submitted

LEMMA InitSubmitted == Init => SubmittedOnce
BY DEF Init, SubmittedOnce, Jobs

LEMMA NextSubmitted == TypeInv /\ SubmittedOnce /\ [Next]_vars => SubmittedOnce'
<1>. SUFFICES ASSUME TypeInv, SubmittedOnce, [Next]_vars PROVE SubmittedOnce'
  OBVIOUS
<1>0. MainTypes /\ ThreadTypes
  BY DEF TypeInv
<1>1. ASSUME NEW j \in Jobs, Thread(j) \/ Raise(j) PROVE SubmittedOnce'
  <2>1. UNCHANGED submitted
    BY <1>1 DEF Thread, Start, Open, Preflight, RecordSkip, BeginAttempt,
       EnterWorkspace, AcquireGlobal, AcquireProvider, Throttle, CallAdapter,
       ReleaseProvider, ReleaseGlobal, LeaveWorkspace, RecordAttempt, Decide, Close,
       Raise, mainVars
  <2>2. PICK t \in ThreadStates \ {"unsubmitted", "pending"} :
          Goto(j, t) /\ thread[j] # "unsubmitted"
    BY <1>1, ThreadMoves
  <2>. QED BY <1>0, <2>1, <2>2, Moved DEF SubmittedOnce
<1>2. CASE Submit
  <2>1. /\ submitted + 1 \in Jobs /\ "pending" \in ThreadStates
        /\ \/ UNCHANGED <<submitted, thread>>
           \/ submitted' = submitted + 1 /\ Goto(submitted + 1, "pending")
    BY <1>0, <1>2, SchedulerAssumption DEF Submit, MainTypes, Jobs, ThreadStates
  <2>. QED BY <1>0, <2>1, Moved DEF SubmittedOnce, MainTypes, Jobs
<1>3. CASE UNCHANGED threadVars /\ UNCHANGED submitted
  BY <1>3 DEF SubmittedOnce, threadVars
<1>4. UNCHANGED submitted \/ Submit
  BY MainFrame DEF mainVars, Collect, CollectedAll, Join, Settle, CloseInterrupted,
     SettledAll, SettleFault, Flush, FlushFault, Interrupt
<1>. QED BY <1>1, <1>2, <1>3, <1>4, ThreadFrame, Zenon

LEMMA InitPermits == Init => PermitsConserved
<1>. SUFFICES ASSUME Init PROVE PermitsConserved
  OBVIOUS
<1>1. In(HoldsGlobal) = {} /\ \A s \in Semaphores : Using(s) = {}
  BY DEF Init, In, Using, HoldsGlobal, HoldsProvider
<1>2. /\ Cardinality(In(HoldsGlobal)) = 0
      /\ \A s \in Semaphores : Cardinality(Using(s)) = 0
  BY <1>1, FS_EmptySet
<1>3. /\ globalFree = MaxParallel
      /\ \A s \in Semaphores : providerFree[s] = Limit(s)
  BY DEF Init
<1>. QED BY <1>2, <1>3, SchedulerAssumption, SemaphoreTypes DEF PermitsConserved

LEMMA NextPermits == TypeInv /\ SubmittedOnce /\ PermitsConserved /\ [Next]_vars
                      => PermitsConserved'
<1>. SUFFICES ASSUME TypeInv, SubmittedOnce, PermitsConserved, [Next]_vars PROVE PermitsConserved'
  OBVIOUS
<1>0. ThreadTypes /\ PermitTypes /\ ThreadTypes' /\ PermitTypes'
  BY NextTypes DEF TypeInv
<1>. DEFINE H == HoldsGlobal
            P == HoldsProvider
<1>1. ASSUME NEW j \in Jobs, AcquireGlobal(j) PROVE PermitsConserved'
  <2>1. /\ thread[j] \notin H /\ "acquire_provider" \in H
        /\ thread[j] \notin P /\ "acquire_provider" \notin P
        /\ "acquire_provider" \in ThreadStates
        /\ Goto(j, "acquire_provider")
        /\ globalFree' = globalFree - 1 /\ providerFree' = providerFree
    BY <1>1 DEF AcquireGlobal, At, HoldsGlobal, HoldsProvider, ThreadStates, Running
  <2>2. Cardinality(In(H))' = Cardinality(In(H)) + 1 /\ Cardinality(In(H)) \in Nat
    BY <1>0, <2>1, CountMoved DEF One
  <2>3. \A s \in Semaphores : Cardinality(Using(s))' = Cardinality(Using(s))
    BY <1>0, <2>1, UsersMoved DEF One
  <2>. QED BY <1>0, <2>1, <2>2, <2>3 DEF PermitsConserved, PermitTypes
<1>2. ASSUME NEW j \in Jobs, AcquireProvider(j) PROVE PermitsConserved'
  <2>1. /\ thread[j] \in H /\ "throttled" \in H
        /\ thread[j] \notin P /\ "throttled" \in P
        /\ "throttled" \in ThreadStates
        /\ Goto(j, "throttled")
        /\ globalFree' = globalFree
        /\ providerFree' = [providerFree EXCEPT ![SemaphoreOf(j)] = @ - 1]
    BY <1>2 DEF AcquireProvider, At, HoldsGlobal, HoldsProvider, ThreadStates, Running
  <2>2. Cardinality(In(H))' = Cardinality(In(H))
    BY <1>0, <2>1, CountMoved DEF One
  <2>3. \A s \in Semaphores :
          /\ Cardinality(Using(s)) \in Nat
          /\ Cardinality(Using(s))' = Cardinality(Using(s)) + One(SemaphoreOf(j) = s)
    BY <1>0, <2>1, UsersMoved DEF One
  <2>4. \A s \in Semaphores : providerFree'[s] = providerFree[s] - One(SemaphoreOf(j) = s)
    BY <1>0, <2>1, SemaphoreTypes DEF PermitTypes, One
  <2>. QED BY <1>0, <2>1, <2>2, <2>3, <2>4 DEF PermitsConserved, PermitTypes, One
<1>3. ASSUME NEW j \in Jobs, ReleaseProvider(j) PROVE PermitsConserved'
  <2>1. /\ thread[j] \in H /\ "release_global" \in H
        /\ thread[j] \in P /\ "release_global" \notin P
        /\ "release_global" \in ThreadStates
        /\ Goto(j, "release_global")
        /\ globalFree' = globalFree
        /\ providerFree' = [providerFree EXCEPT ![SemaphoreOf(j)] = @ + 1]
    BY <1>3 DEF ReleaseProvider, At, HoldsGlobal, HoldsProvider, ThreadStates, Running
  <2>2. Cardinality(In(H))' = Cardinality(In(H))
    BY <1>0, <2>1, CountMoved DEF One
  <2>3. \A s \in Semaphores :
          /\ Cardinality(Using(s)) \in Nat /\ Cardinality(Using(s))' \in Nat
          /\ Cardinality(Using(s))' + One(SemaphoreOf(j) = s) = Cardinality(Using(s))
    BY <1>0, <2>1, UsersMoved DEF One
  <2>4. \A s \in Semaphores : providerFree'[s] = providerFree[s] + One(SemaphoreOf(j) = s)
    BY <1>0, <2>1, SemaphoreTypes DEF PermitTypes, One
  <2>. QED BY <1>0, <2>1, <2>2, <2>3, <2>4 DEF PermitsConserved, PermitTypes, One
<1>4. ASSUME NEW j \in Jobs, ReleaseGlobal(j) PROVE PermitsConserved'
  <2>1. /\ thread[j] \in H /\ "leave" \notin H
        /\ thread[j] \notin P /\ "leave" \notin P
        /\ "leave" \in ThreadStates
        /\ Goto(j, "leave")
        /\ globalFree' = globalFree + 1 /\ providerFree' = providerFree
    BY <1>4 DEF ReleaseGlobal, At, HoldsGlobal, HoldsProvider, ThreadStates, Running
  <2>2. /\ Cardinality(In(H))' + 1 = Cardinality(In(H))
        /\ Cardinality(In(H)) \in Nat /\ Cardinality(In(H))' \in Nat
    BY <1>0, <2>1, CountMoved DEF One
  <2>3. \A s \in Semaphores : Cardinality(Using(s))' = Cardinality(Using(s))
    BY <1>0, <2>1, UsersMoved DEF One
  <2>. QED BY <1>0, <2>1, <2>2, <2>3 DEF PermitsConserved, PermitTypes
\* A step that keeps the permits, and in which no thread takes one up or gives
\* one back.
<1>5. ASSUME UNCHANGED semaVars, In(H)' = In(H), In(P)' = In(P) PROVE PermitsConserved'
  BY <1>5 DEF PermitsConserved, semaVars, Using
<1>6. CASE UNCHANGED semaVars /\ UNCHANGED threadVars
  BY <1>5, <1>6 DEF threadVars, In
<1>7. ASSUME NEW j \in Jobs, NEW t \in ThreadStates, Goto(j, t), UNCHANGED semaVars,
             thread[j] \in H <=> t \in H, thread[j] \in P <=> t \in P
      PROVE  PermitsConserved'
  BY <1>0, <1>5, <1>7, Moved DEF In
<1>8. CASE Submit
  <2>1. /\ UNCHANGED semaVars
        /\ thread' = thread \/ Goto(submitted + 1, "pending")
        /\ submitted + 1 \in Jobs
    BY <1>8, SchedulerAssumption DEF Submit, semaVars, TypeInv, MainTypes, Jobs
  <2>2. thread[submitted + 1] = "unsubmitted"
    BY <2>1 DEF SubmittedOnce, TypeInv, MainTypes
  <2>3. "pending" \in ThreadStates /\ {"pending", "unsubmitted"} \cap (H \cup P) = {}
    BY DEF ThreadStates, HoldsGlobal, HoldsProvider
  <2>4. CASE thread' = thread
    BY <1>5, <2>1, <2>4 DEF In
  <2>5. CASE Goto(submitted + 1, "pending")
    BY <1>7, <2>1, <2>2, <2>3, <2>5
  <2>. QED BY <2>1, <2>4, <2>5
<1>9. ASSUME NEW j \in Jobs, Thread(j) \/ Raise(j) PROVE PermitsConserved'
  <2>1. PICK t \in ThreadStates :
          /\ Goto(j, t)
          /\ \/ /\ UNCHANGED semaVars
                /\ (thread[j] \in H) <=> (t \in H)
                /\ (thread[j] \in P) <=> (t \in P)
             \/ AcquireGlobal(j) \/ AcquireProvider(j)
             \/ ReleaseProvider(j) \/ ReleaseGlobal(j)
    BY <1>9, ThreadMoves
  <2>. QED BY <1>1, <1>2, <1>3, <1>4, <1>7, <2>1
<1>10. CASE UNCHANGED threadVars /\ ~(\E j \in Jobs : Thread(j))
  BY <1>6, <1>10, PermitFrame DEF Thread
<1>. QED BY <1>8, <1>9, <1>10, ThreadFrame

(***************************************************************************)
(* Permits are conserved, whatever fails and whoever is interrupted: never *)
(* more than MaxParallel attempts are under way, nor more on a provider    *)
(* than its provider_parallelism.                                          *)
(***************************************************************************)
THEOREM PermitsAlwaysConserved == Spec => []PermitsConserved
BY InitTypes, NextTypes, InitSubmitted, NextSubmitted, InitPermits, NextPermits, PTL
DEF Spec

-----------------------------------------------------------------------------
(* The pool never runs more threads than _global_sema has permits.         *)

PoolBound == Cardinality(In(Running)) <= MaxParallel

LEMMA InitPool == Init => PoolBound
<1>. SUFFICES ASSUME Init PROVE PoolBound
  OBVIOUS
<1>1. In(Running) = {}
  BY DEF Init, In, Running, HoldsGlobal, HoldsProvider
<1>2. Cardinality(In(Running)) = 0
  BY <1>1, FS_EmptySet
<1>. QED BY <1>2, SchedulerAssumption DEF PoolBound

LEMMA NextPool == TypeInv /\ SubmittedOnce /\ PoolBound /\ [Next]_vars => PoolBound'
<1>. SUFFICES ASSUME TypeInv, SubmittedOnce, PoolBound, [Next]_vars PROVE PoolBound'
  OBVIOUS
<1>0. MainTypes /\ ThreadTypes
  BY DEF TypeInv
<1>1. CASE In(Running)' = In(Running)
  BY <1>1 DEF PoolBound
<1>2. ASSUME NEW j \in Jobs, Start(j) PROVE PoolBound'
  <2>1. /\ Cardinality(In(Running)) < MaxParallel
        /\ Goto(j, "open") /\ "open" \in ThreadStates
        /\ "open" \in Running /\ thread[j] \notin Running
    BY <1>2 DEF Start, At, ThreadStates, Running, HoldsGlobal, HoldsProvider
  <2>2. /\ Cardinality(In(Running))' = Cardinality(In(Running)) + 1
        /\ Cardinality(In(Running)) \in Nat
    BY <1>0, <2>1, CountMoved DEF One
  <2>. QED BY <2>1, <2>2, SchedulerAssumption DEF PoolBound
<1>3. ASSUME NEW j \in Jobs, Thread(j) \/ Raise(j), ~Start(j) PROVE PoolBound'
  <2>1. PICK t \in ThreadStates : Goto(j, t) /\ (t \in Running => thread[j] \in Running)
    BY <1>3, ThreadMoves
  <2>2. /\ Cardinality(In(Running)) \in Nat /\ Cardinality(In(Running))' \in Nat
        /\ Cardinality(In(Running))' <= Cardinality(In(Running))
    BY <1>0, <2>1, CountMoved DEF One
  <2>. QED BY <2>2, SchedulerAssumption DEF PoolBound
<1>4. CASE Submit
  <2>1. /\ thread' = thread \/ Goto(submitted + 1, "pending")
        /\ submitted + 1 \in Jobs
    BY <1>0, <1>4, SchedulerAssumption DEF Submit, MainTypes, Jobs
  <2>2. thread[submitted + 1] = "unsubmitted"
    BY <1>0, <2>1 DEF SubmittedOnce, MainTypes
  <2>3. "pending" \in ThreadStates /\ {"pending", "unsubmitted"} \cap Running = {}
    BY DEF ThreadStates, Running, HoldsGlobal, HoldsProvider
  <2>4. In(Running)' = In(Running)
    BY <1>0, <2>1, <2>2, <2>3, Moved DEF In
  <2>. QED BY <1>1, <2>4
<1>5. CASE UNCHANGED threadVars
  BY <1>1, <1>5 DEF threadVars, In
<1>. QED BY <1>2, <1>3, <1>4, <1>5, ThreadFrame, Zenon

(***************************************************************************)
(* A pool thread that asks for the global permit finds one: the pool has   *)
(* no more workers than there are permits, and the thread itself is a      *)
(* worker that holds none.                                                 *)
(***************************************************************************)
THEOREM GlobalNeverMakesWait == Spec => []GlobalNeverBlocks
<1>1. TypeInv /\ PermitsConserved /\ PoolBound => GlobalNeverBlocks
  <2>. SUFFICES ASSUME TypeInv, PermitsConserved, PoolBound,
                       NEW j \in Jobs, At(j, "acquire_global")
                PROVE  globalFree > 0
    BY DEF GlobalNeverBlocks
  <2>1. /\ In(HoldsGlobal) \subseteq In(Running) \ {j}
        /\ j \in In(Running) /\ In(Running) \subseteq Jobs
    BY DEF In, At, Running, HoldsGlobal, HoldsProvider
  <2>2. /\ IsFiniteSet(In(Running)) /\ IsFiniteSet(In(Running) \ {j})
        /\ Cardinality(In(Running) \ {j}) = Cardinality(In(Running)) - 1
    BY <2>1, JobsFinite, FS_Subset, FS_RemoveElement
  <2>3. /\ Cardinality(In(HoldsGlobal)) <= Cardinality(In(Running) \ {j})
        /\ IsFiniteSet(In(HoldsGlobal))
    BY <2>1, <2>2, FS_Subset
  <2>4. Cardinality(In(HoldsGlobal)) \in Nat /\ Cardinality(In(Running)) \in Nat
    BY <2>2, <2>3, FS_CardinalityType
  <2>5. globalFree \in Nat /\ globalFree + Cardinality(In(HoldsGlobal)) = MaxParallel
    BY DEF TypeInv, PermitTypes, PermitsConserved
  <2>. QED BY <2>2, <2>3, <2>4, <2>5, SchedulerAssumption DEF PoolBound
<1>. QED
  BY <1>1, InitTypes, NextTypes, InitSubmitted, NextSubmitted, InitPermits,
     NextPermits, InitPool, NextPool, PTL DEF Spec

-----------------------------------------------------------------------------
(***************************************************************************)
(* The ledgers: they never contradict each other and follow JobLifecycle;  *)
(* a run which returns has closed and reported every job; one which raises *)
(* has closed every job it submitted, unless a Ctrl-C cut it short.        *)
(***************************************************************************)

-----------------------------------------------------------------------------
(* The inductive invariant.                                                *)

\* No Ctrl-C came in the join or in the finally block; or, at least, none
\* with a job's exception pending, so that no job which was still running was
\* taken for one that died.
Whole        == failure \notin Cut
NoneMistaken == failure # "job_cut"

\* The row that a job's own thread has left, unless it was mistaken.
Shows(j, r) ==
  \/ row[j] = r
  \/ failure = "job_cut" /\ row[j] = Row("failed", 0)

\* What the ledgers hold of a job, by where its thread is.
Attempting == {"workspace", "acquire_global", "acquire_provider", "throttled", "adapter",
               "release_provider", "release_global", "leave", "record"}
Recorded(j) == log[j] # <<>> /\ Len(log[j]) = attempts[j] /\ log[j][Len(log[j])] = outcome[j]

\* The row and the attempts of j agree.
Agreeing(j) == /\ Lifecycle!Agree(row[j], log[j])
               /\ Lifecycle!WithinBudget(row[j], log[j], Budget[j])

Story(j) ==
  /\ thread[j] \in {"unsubmitted", "pending", "open"} =>
       Shows(j, NoRow) /\ log[j] = <<>> /\ attempts[j] = 0
  /\ thread[j] \in {"preflight", "record_skip"} =>
       Shows(j, Row("queued", 0)) /\ log[j] = <<>> /\ attempts[j] = 0 /\ Budget[j] >= 1
  /\ thread[j] = "begin" =>
       /\ Shows(j, Row("queued", attempts[j]))
       /\ Len(log[j]) = attempts[j] /\ attempts[j] < Budget[j]
  /\ thread[j] \in Attempting =>
       /\ Shows(j, Row("running", attempts[j]))
       /\ Len(log[j]) + 1 = attempts[j] /\ attempts[j] <= Budget[j]
  /\ thread[j] = "decide" =>
       Recorded(j) /\ Shows(j, Row("running", attempts[j])) /\ attempts[j] <= Budget[j]
  /\ thread[j] = "close" =>
       /\ Recorded(j)
       /\ \/ Shows(j, Row("running", attempts[j])) /\ attempts[j] <= Budget[j]
          \/ Shows(j, Row("queued", 0)) /\ log[j] = <<"skipped">>
  /\ thread[j] = "done" =>
       /\ Recorded(j) /\ Shows(j, Row(outcome[j], attempts[j]))
       /\ attempts[j] <= Budget[j] \/ log[j] = <<"skipped">>
  /\ thread[j] = "raised" =>
       Agreeing(j) /\ (results[j] = NoRow /\ NoneMistaken => ~Closed(j))

\* A result is that of a job that ended, and is its last row.
Reports(j) ==
  results[j] # NoRow /\ NoneMistaken =>
    results[j] = row[j] /\ Closed(j) /\ thread[j] \in Ended

Over == {"settling", "closing", "flushing", "returned", "raised"}

\* Where run() can be with what it is about to raise.
Course ==
  /\ main \in {"submitting", "collecting"} => failure = "none"
  /\ main = "collecting" => submitted = NumJobs
  /\ main \notin Over => cursor = 1
  /\ failure \in Cut => interrupts > 0
  /\ failure = "write" => main = "raised"
  /\ main = "returned" => failure = "none"
  /\ main = "flushing" => cursor > submitted
  /\ main \in {"returned", "raised"} /\ failure \notin Cut \cup {"write"} => cursor > submitted

\* While run() has not reached its finally block, results are of jobs that
\* are done; and it reaches it without a failure only when all are.
Harvest ==
  /\ main \notin Over => \A j \in Jobs : results[j] # NoRow => thread[j] = "done"
  /\ main \notin {"submitting", "collecting"} /\ failure = "none" =>
       \A j \in Jobs : thread[j] = "done" /\ results[j] # NoRow

Joined == main \in Over => \A j \in Jobs : j <= submitted => thread[j] \in Ended

Settled == main \in Over => \A j \in Jobs : j <= submitted /\ j < cursor => results[j] # NoRow

\* The job whose row is being written raised, or may have been mistaken.
Closing ==
  main = "closing" =>
    results[cursor] = NoRow /\ (thread[cursor] = "raised" \/ ~NoneMistaken)

\* The rows of attempts.parquet, before and after they are flushed.
Buffered ==
  /\ main \notin {"returned", "raised"} => \A j \in Jobs : buffer[j] = Len(log[j])
  /\ main \in {"returned", "raised"} /\ failure # "write" =>
       \A j \in Jobs : parquet[j] = Len(log[j])

Told == \A j \in Jobs : Story(j) /\ Reports(j)

LedgerInv ==
  Course /\ Harvest /\ Told /\ Closing /\ (Whole => Joined /\ Settled /\ Buffered)

LEMMA InitLedger == Init => LedgerInv
<1>. SUFFICES ASSUME Init PROVE LedgerInv
  OBVIOUS
<1>1. Course /\ Harvest /\ Closing
  BY SchedulerAssumption DEF Init, Course, Harvest, Closing, Over, Jobs, Cut
<1>2. Joined /\ Settled
  BY SchedulerAssumption DEF Init, Joined, Settled, Over, Jobs
<1>3. Buffered
  BY DEF Init, Buffered
<1>4. Told
  BY DEF Init, Told, Story, Reports, Shows, Attempting
<1>. QED BY <1>1, <1>2, <1>3, <1>4 DEF LedgerInv

-----------------------------------------------------------------------------
(* How a step can disturb it.                                              *)

\* Only Interrupt counts one.
LEMMA InterruptFrame ==
  ASSUME [Next]_vars PROVE UNCHANGED interrupts \/ Interrupt
<1>1. ASSUME NEW j \in Jobs, Thread(j) \/ Raise(j) PROVE UNCHANGED interrupts
  BY <1>1 DEF Thread, Start, Open, Preflight, RecordSkip, BeginAttempt,
     EnterWorkspace, AcquireGlobal, AcquireProvider, Throttle, CallAdapter,
     ReleaseProvider, ReleaseGlobal, LeaveWorkspace, RecordAttempt, Decide, Close,
     Raise
<1>2. ASSUME NEW j \in Jobs, Collect(j) PROVE UNCHANGED interrupts
  BY <1>2 DEF Collect
<1>3. Submit \/ CollectedAll \/ Join \/ Settle \/ CloseInterrupted \/ SettledAll
        \/ Flush \/ SettleFault \/ FlushFault => UNCHANGED interrupts
  BY DEF Submit, CollectedAll, Join, Settle, CloseInterrupted, SettledAll, Flush,
         SettleFault, FlushFault
<1>4. UNCHANGED vars \/ Terminated => UNCHANGED interrupts
  BY DEF vars, Terminated
<1>. QED BY <1>1, <1>2, <1>3, <1>4, Zenon DEF Next, Main

\* A thread that has ended, or was never submitted, stays where it is but for
\* a submission.
LEMMA EndedStay ==
  ASSUME TypeInv, SubmittedOnce, [Next]_vars, NEW k \in Jobs, thread[k] \in Ended
  PROVE  thread'[k] = thread[k]
<1>0. MainTypes /\ ThreadTypes
  BY DEF TypeInv
<1>1. ASSUME NEW j \in Jobs, Thread(j) \/ Raise(j) PROVE thread'[k] = thread[k]
  <2>1. PICK t \in ThreadStates : Goto(j, t)
    BY <1>1, ThreadMoves
  <2>2. thread[j] \notin Ended
    BY <1>1 DEF Thread, Start, Open, Preflight, RecordSkip, BeginAttempt,
       EnterWorkspace, AcquireGlobal, AcquireProvider, Throttle, CallAdapter,
       ReleaseProvider, ReleaseGlobal, LeaveWorkspace, RecordAttempt, Decide, Close,
       Raise, Writes, At, Ended
  <2>. QED BY <1>0, <2>1, <2>2, Moved
<1>2. CASE Submit
  <2>1. /\ submitted + 1 \in Jobs /\ "pending" \in ThreadStates
        /\ UNCHANGED thread \/ Goto(submitted + 1, "pending")
    BY <1>0, <1>2, SchedulerAssumption DEF Submit, MainTypes, Jobs, ThreadStates
  <2>2. thread[submitted + 1] \notin Ended
    BY <1>0, <2>1 DEF SubmittedOnce, MainTypes, Ended
  <2>. QED BY <1>0, <2>1, <2>2, Moved
<1>3. CASE UNCHANGED threadVars
  BY <1>3 DEF threadVars
<1>. QED BY <1>1, <1>2, <1>3, ThreadFrame, Zenon

\* An attempt's status is a terminal one once recorded.
LEMMA ResultIsRow ==
  ASSUME ThreadTypes, NEW j \in Jobs, thread[j] = "done"
  PROVE  Row(outcome[j], attempts[j]) # NoRow
BY DEF ThreadTypes, Row, NoRow, AttemptStates

LEMMA FailedIsRow == Row("failed", 0) # NoRow
BY DEF Row, NoRow

LEMMA CourseStep == TypeInv /\ Course /\ [Next]_vars => Course'
<1>. SUFFICES ASSUME TypeInv, Course, [Next]_vars PROVE Course'
  OBVIOUS
<1>0. MainTypes /\ BoundTypes
  BY DEF TypeInv
<1>. USE SchedulerAssumption DEF Course, Over, MainTypes, BoundTypes, Cut
<1>1. CASE UNCHANGED mainVars /\ UNCHANGED interrupts
  BY <1>1 DEF mainVars
<1>2. CASE Submit
  BY <1>0, <1>2 DEF Submit
<1>3. ASSUME NEW j \in Jobs, Collect(j) PROVE Course'
  BY <1>0, <1>3 DEF Collect
<1>4. CASE CollectedAll \/ Join \/ SettledAll
  BY <1>0, <1>4 DEF CollectedAll, Join, SettledAll
<1>5. CASE Settle \/ CloseInterrupted
  BY <1>0, <1>5 DEF Settle, CloseInterrupted
<1>6. CASE SettleFault \/ Flush \/ FlushFault
  BY <1>0, <1>6 DEF SettleFault, Flush, FlushFault, WriteFailure
<1>7. CASE Interrupt
  BY <1>0, <1>7 DEF Interrupt, CutShort
<1>. QED
  BY <1>1, <1>2, <1>3, <1>4, <1>5, <1>6, <1>7, MainFrame, InterruptFrame, Zenon

\* What cut the run short once stays so.
LEMMA CutStays ==
  ASSUME TypeInv, Course, [Next]_vars
  PROVE  (Whole' => Whole) /\ (NoneMistaken' => NoneMistaken)
<1>. USE DEF Course, Whole, NoneMistaken, Cut
<1>1. CASE UNCHANGED failure
  BY <1>1
<1>2. CASE Submit
  BY <1>2 DEF Submit
<1>3. ASSUME NEW j \in Jobs, Collect(j)
      PROVE  (Whole' => Whole) /\ (NoneMistaken' => NoneMistaken)
  BY <1>3 DEF Collect
<1>4. CASE SettleFault \/ FlushFault
  BY <1>4 DEF SettleFault, FlushFault, WriteFailure
<1>5. CASE Interrupt
  BY <1>5 DEF Interrupt, CutShort, ExecutionError
<1>6. CollectedAll \/ Join \/ SettledAll \/ Settle \/ CloseInterrupted \/ Flush =>
        UNCHANGED failure
  BY DEF CollectedAll, Join, SettledAll, Settle, CloseInterrupted, Flush
<1>. QED
  BY <1>1, <1>2, <1>3, <1>4, <1>5, <1>6, MainFrame, Zenon DEF mainVars

LEMMA HarvestStep ==
  TypeInv /\ SubmittedOnce /\ Course /\ Harvest /\ [Next]_vars => Harvest'
<1>. SUFFICES ASSUME TypeInv, SubmittedOnce, Course, Harvest, [Next]_vars PROVE Harvest'
  OBVIOUS
<1>0. MainTypes /\ ThreadTypes
  BY DEF TypeInv
\* A done thread stays done; so it is enough to look at the results.
<1>a. \A j \in Jobs : thread[j] = "done" => thread'[j] = "done"
  BY EndedStay DEF Ended
<1>1. CASE UNCHANGED mainVars
  BY <1>1, <1>a DEF Harvest, mainVars
<1>2. CASE Submit
  BY <1>2, <1>a DEF Harvest, Submit, Over
<1>3. ASSUME NEW j \in Jobs, Collect(j) PROVE Harvest'
  <2>1. /\ main = "collecting"
        /\ \/ thread[j] = "done" /\ UNCHANGED <<main, failure>>
              /\ \A k \in Jobs : k # j => results'[k] = results[k]
           \/ main' = "joining" /\ failure' = "job" /\ UNCHANGED results
    BY <1>0, <1>3 DEF Collect, At, MainTypes
  <2>. QED BY <1>a, <2>1 DEF Harvest, Over
<1>4. CASE CollectedAll
  BY <1>4, <1>a DEF Harvest, CollectedAll, Over
<1>5. CASE Join \/ SettledAll
  BY <1>5, <1>a DEF Harvest, Join, SettledAll, Over
<1>6. CASE Settle \/ CloseInterrupted
  <2>1. \A k \in Jobs : results[k] # NoRow => results'[k] # NoRow
    <3>1. /\ cursor \in Jobs
          /\ \/ results' = results
             \/ results' = [results EXCEPT ![cursor] = Row("failed", 0)]
             \/ At(cursor, "done") /\
                results' = [results EXCEPT ![cursor] = Row(outcome[cursor], attempts[cursor])]
      BY <1>0, <1>6, SchedulerAssumption DEF Settle, CloseInterrupted, MainTypes, Jobs
    <3>. QED BY <1>0, <3>1, ResultIsRow, FailedIsRow DEF MainTypes, At
  <2>2. {main, main'} \subseteq Over /\ UNCHANGED failure
    BY <1>6 DEF Settle, CloseInterrupted, Over
  <2>. QED BY <1>a, <2>1, <2>2 DEF Harvest, Over
<1>7. CASE SettleFault \/ Flush \/ FlushFault
  BY <1>7, <1>a DEF Harvest, SettleFault, Flush, FlushFault, WriteFailure, Cut, Over
<1>8. CASE Interrupt
  BY <1>8, <1>a DEF Harvest, Interrupt, CutShort, Over
<1>. QED
  BY <1>1, <1>2, <1>3, <1>4, <1>5, <1>6, <1>7, <1>8, MainFrame, Zenon

\* The join: under Whole the finally block is reached only by Join.
LEMMA JoinedStep ==
  ASSUME TypeInv, SubmittedOnce, Course, Joined, [Next]_vars, Whole'
  PROVE  Joined'
<1>0. MainTypes
  BY DEF TypeInv
<1>a. \A j \in Jobs : thread[j] \in Ended => thread'[j] \in Ended
  BY EndedStay
<1>1. CASE main \in Over
  <2>1. UNCHANGED submitted
    BY <1>1, MainFrame DEF mainVars, Submit, Collect, CollectedAll, Join, Settle,
       CloseInterrupted, SettledAll, SettleFault, Flush, FlushFault, Interrupt, Over
  <2>. QED BY <1>1, <1>a, <2>1 DEF Joined
<1>2. CASE Join
  BY <1>0, <1>2, <1>a DEF Join, Joined, MainTypes, Jobs
<1>3. CASE main' \notin Over
  BY <1>3 DEF Joined
<1>4. Interrupt => main' = "joining"
  BY DEF Interrupt, Whole, Cut, CutShort
<1>5. main \in Over \/ main' \notin Over \/ Join
  BY <1>4, MainFrame DEF mainVars, Submit, Collect, CollectedAll, Settle, CloseInterrupted,
     SettledAll, SettleFault, Flush, FlushFault, Over
<1>. QED BY <1>1, <1>2, <1>3, <1>5

LEMMA SettledStep ==
  ASSUME TypeInv, Course, Joined, Settled, [Next]_vars, Whole'
  PROVE  Settled'
<1>0. MainTypes /\ ThreadTypes
  BY DEF TypeInv
<1>1. CASE CloseInterrupted \/ (Settle /\ ~NeedsRow(cursor))
  <2>1. /\ cursor \in Jobs /\ main \in Over /\ cursor <= submitted
        /\ UNCHANGED submitted /\ cursor' = cursor + 1
        /\ thread[cursor] \in Ended
    BY <1>0, <1>1, SchedulerAssumption
    DEF Settle, CloseInterrupted, MainTypes, Jobs, Joined, Over
  <2>2. /\ results'[cursor] # NoRow
        /\ \A k \in Jobs : k # cursor => results'[k] = results[k]
    <3>1. CASE CloseInterrupted
      BY <1>0, <2>1, <3>1, FailedIsRow DEF CloseInterrupted, MainTypes
    <3>2. CASE Settle /\ ~NeedsRow(cursor) /\ results[cursor] = NoRow
      <4>1. thread[cursor] = "done"
        BY <2>1, <3>2 DEF NeedsRow, At, Ended
      <4>. QED BY <1>0, <2>1, <3>2, <4>1, ResultIsRow DEF Settle, MainTypes, At
    <3>3. CASE Settle /\ ~NeedsRow(cursor) /\ results[cursor] # NoRow
      BY <1>0, <2>1, <3>3 DEF Settle
    <3>. QED BY <1>1, <3>1, <3>2, <3>3
  <2>. QED BY <1>0, <2>1, <2>2 DEF Settled, MainTypes, Jobs
<1>2. CASE main \in Over /\ UNCHANGED <<submitted, cursor, results>>
  BY <1>2 DEF Settled
<1>3. CASE main \notin Over
  <2>1. main' \in Over => cursor' = 1
    BY <1>3, MainFrame DEF mainVars, Submit, Collect, CollectedAll, Join, Settle,
       CloseInterrupted, SettledAll, SettleFault, Flush, FlushFault, Interrupt, Over, Course
  <2>. QED BY <2>1, SchedulerAssumption DEF Settled, Jobs
<1>4. \/ main \notin Over \/ CloseInterrupted
      \/ Settle /\ ~NeedsRow(cursor)
      \/ UNCHANGED <<submitted, cursor, results>>
  <2>1. Settle /\ NeedsRow(cursor) => UNCHANGED <<submitted, cursor, results>>
    BY DEF Settle
  <2>2. (SettledAll \/ SettleFault \/ Flush \/ FlushFault \/ Interrupt \/ UNCHANGED mainVars)
          => UNCHANGED <<submitted, cursor, results>>
    BY DEF SettledAll, SettleFault, Flush, FlushFault, Interrupt, mainVars
  <2>3. Submit \/ CollectedAll \/ Join => main \notin Over
    BY DEF Submit, CollectedAll, Join, Over
  <2>4. ASSUME NEW j \in Jobs, Collect(j) PROVE main \notin Over
    BY <2>4 DEF Collect, Over
  <2>. QED BY <2>1, <2>2, <2>3, <2>4, MainFrame, Zenon
<1>. QED BY <1>1, <1>2, <1>3, <1>4

\* Only Settle puts run() before a row to write, and what it saw then stays.
LEMMA ClosingStep ==
  ASSUME TypeInv, SubmittedOnce, Course, Whole => Joined, Closing, [Next]_vars
  PROVE  Closing'
<1>0. MainTypes
  BY DEF TypeInv
<1>1. CASE Settle
  <2>1. CASE main' = "closing"
    <3>1. /\ NeedsRow(cursor) /\ cursor \in Jobs /\ cursor <= submitted
          /\ main = "settling" /\ UNCHANGED <<cursor, results, failure, thread>>
      BY <1>0, <1>1, <2>1, SchedulerAssumption
      DEF Settle, MainTypes, Jobs, threadVars
    <3>2. thread[cursor] = "raised" \/ failure = "job_cut"
      BY <3>1 DEF NeedsRow, At, ExecutionError, Whole, Cut, Joined, Over
    <3>. QED BY <3>1, <3>2 DEF Closing, NeedsRow, NoneMistaken
  <2>. QED BY <2>1 DEF Closing
<1>2. CASE main = "closing" /\ main' = "closing"
  <2>1. UNCHANGED <<cursor, results>>
    BY <1>2, MainFrame DEF mainVars, Submit, Collect, CollectedAll, Join, Settle,
       CloseInterrupted, SettledAll, SettleFault, Flush, FlushFault, Interrupt
  <2>2. cursor \in Jobs
    BY <1>0, <1>2, SchedulerAssumption DEF MainTypes, Jobs
  <2>3. thread[cursor] = "raised" => thread'[cursor] = "raised"
    BY <2>2, EndedStay DEF Ended
  <2>4. NoneMistaken' => NoneMistaken
    BY CutStays
  <2>. QED BY <1>2, <2>1, <2>3, <2>4 DEF Closing
<1>3. main' = "closing" => main = "closing" \/ Settle
  BY MainFrame DEF mainVars, Submit, Collect, CollectedAll, Join, CloseInterrupted,
     SettledAll, SettleFault, Flush, FlushFault, Interrupt
<1>. QED BY <1>1, <1>2, <1>3 DEF Closing

LEMMA Appended ==
  ASSUME FileTypes, NEW j \in Jobs, NEW s \in AttemptStates, AppendAttempt(j, s)
  PROVE  /\ \A k \in Jobs : k # j => log'[k] = log[k] /\ buffer'[k] = buffer[k]
         /\ log'[j] = Append(log[j], s) /\ buffer'[j] = buffer[j] + 1
         /\ Len(log'[j]) = Len(log[j]) + 1 /\ Len(log[j]) \in Nat
         /\ log'[j] # <<>> /\ log'[j][Len(log'[j])] = s
<1>1. /\ \A k \in Jobs : k # j => log'[k] = log[k] /\ buffer'[k] = buffer[k]
      /\ log'[j] = Append(log[j], s) /\ buffer'[j] = buffer[j] + 1
      /\ log[j] \in Seq(AttemptStates)
  BY DEF FileTypes, AppendAttempt
<1>2. /\ Len(Append(log[j], s)) = Len(log[j]) + 1 /\ Len(log[j]) \in Nat
      /\ Append(log[j], s)[Len(log[j]) + 1] = s
      /\ Append(log[j], s) # <<>>
  BY <1>1
<1>. QED BY <1>1, <1>2

LEMMA BufferedStep ==
  ASSUME TypeInv, SubmittedOnce, Joined, Buffered, [Next]_vars, Whole' PROVE Buffered'
<1>0. ThreadTypes /\ FileTypes
  BY DEF TypeInv
<1>1. ASSUME NEW j \in Jobs, RecordSkip(j) \/ RecordAttempt(j) PROVE Buffered'
  <2>1. PICK s \in AttemptStates : AppendAttempt(j, s)
    BY <1>1 DEF RecordSkip, RecordAttempt, Coerce, AttemptStates
  <2>2. UNCHANGED <<main, failure, parquet>> /\ thread[j] \in {"record_skip", "record"}
    BY <1>1 DEF RecordSkip, RecordAttempt, mainVars, At
  <2>3. main \notin {"returned", "raised"}
    BY <2>2 DEF Joined, Over, SubmittedOnce, Ended, TypeInv, MainTypes, Jobs
  <2>. QED BY <1>0, <2>1, <2>2, <2>3, Appended DEF Buffered, FileTypes
<1>2. CASE Flush
  BY <1>2, <1>0 DEF Flush, Buffered
<1>3. CASE FlushFault
  BY <1>3 DEF FlushFault, WriteFailure, Buffered, Whole
<1>4. CASE UNCHANGED <<log, buffer, parquet>> /\ ~Flush /\ ~FlushFault
  <2>1. Interrupt => main' = "joining"
    BY DEF Interrupt, CutShort, Whole, Cut
  <2>2. SettleFault => main' = "raised" /\ failure' = "write"
    BY DEF SettleFault, WriteFailure, Whole
  <2>3. \/ main' \notin {"returned", "raised"} /\ main \notin {"returned", "raised"}
        \/ UNCHANGED <<main, failure>>
        \/ SettleFault \/ Interrupt
    BY <1>4, MainFrame DEF mainVars, Submit, Collect, CollectedAll, Join, Settle,
       CloseInterrupted, SettledAll
  <2>4. Interrupt => main \notin {"returned", "raised"}
    BY DEF Interrupt
  <2>5. SettleFault => main \notin {"returned", "raised"}
    BY DEF SettleFault
  <2>. QED BY <1>4, <2>1, <2>2, <2>3, <2>4, <2>5 DEF Buffered
<1>5. CASE Interrupt
  <2>1. UNCHANGED <<log, buffer, parquet>> /\ ~Flush /\ ~FlushFault
    BY <1>5 DEF Interrupt, CutShort, Whole, Cut, Flush, FlushFault
  <2>. QED BY <1>4, <2>1
<1>6. \/ UNCHANGED <<log, buffer, parquet>> \/ Flush \/ FlushFault \/ Interrupt
      \/ \E j \in Jobs : RecordSkip(j) \/ RecordAttempt(j)
  BY FileFrame DEF fileVars, CloseInterrupted, Open, BeginAttempt, Decide, Close
<1>. QED BY <1>1, <1>2, <1>3, <1>4, <1>5, <1>6

-----------------------------------------------------------------------------
(* What the ledgers hold of one job.                                       *)

\* A step that changes nothing of job k keeps its story.
LEMMA SameStory ==
  ASSUME NEW k \in Jobs, Story(k), Reports(k),
         thread'[k] = thread[k], attempts'[k] = attempts[k], outcome'[k] = outcome[k],
         row'[k] = row[k], log'[k] = log[k], results'[k] = results[k],
         NoneMistaken' => NoneMistaken
  PROVE  Story(k)' /\ Reports(k)'
<1>1. \A r : Shows(k, r) => \/ row'[k] = r
                            \/ failure' = "job_cut" /\ row'[k] = Row("failed", 0)
  BY DEF Shows, NoneMistaken
<1>1b. Recorded(k) => Recorded(k)'
  BY DEF Recorded
<1>1c. Agreeing(k) => Agreeing(k)'
  BY DEF Agreeing, Lifecycle!Agree, Lifecycle!WithinBudget, Lifecycle!Row
<1>1d. Closed(k)' = Closed(k)
  BY DEF Closed
<1>2. Story(k)'
  <2>1. Shows(k, Row(outcome[k], attempts[k])) => Shows(k, Row(outcome[k], attempts[k]))'
    BY <1>1 DEF Shows, Row
  <2>2. /\ Shows(k, NoRow) => Shows(k, NoRow)'
        /\ Shows(k, Row("queued", 0)) => Shows(k, Row("queued", 0))'
        /\ Shows(k, Row("queued", attempts[k])) => Shows(k, Row("queued", attempts[k]))'
        /\ Shows(k, Row("running", attempts[k])) => Shows(k, Row("running", attempts[k]))'
    BY <1>1 DEF Shows, Row, NoRow
  <2>. QED BY <1>1b, <1>1c, <1>1d, <2>1, <2>2 DEF Story
<1>3. Reports(k)'
  BY DEF Reports, Closed
<1>. QED BY <1>2, <1>3

\* Wherever its thread is, the row and the attempts of a job agree.
LEMMA StoryAgrees ==
  ASSUME TypeInv, NEW j \in Jobs, Story(j) PROVE Agreeing(j)
<1>0. /\ thread[j] \in ThreadStates /\ attempts[j] \in Nat /\ Budget[j] \in Int
      /\ log[j] \in Seq(AttemptStates) /\ Len(log[j]) \in Nat
      /\ thread[j] \in {"decide", "close", "done"} => outcome[j] \in AttemptStates
      /\ Len(<<>>) = 0 /\ Len(<<"skipped">>) = 1
  BY SchedulerAssumption DEF TypeInv, ThreadTypes, FileTypes
<1>. USE DEF Agreeing, Lifecycle!Agree, Lifecycle!WithinBudget, Lifecycle!Row, Row
<1>1. \A s, n : /\ [status |-> s, attempts |-> n].status = s
                /\ [status |-> s, attempts |-> n].attempts = n
  OBVIOUS
\* The row that the run gave agrees with any attempts within the budget.
<1>2. ASSUME row[j] = Row("failed", 0),
             Len(log[j]) <= Budget[j] \/ log[j] = <<"skipped">> \/ log[j] = <<>>
      PROVE  Agreeing(j)
  BY <1>0, <1>1, <1>2
<1>3. CASE thread[j] \in {"unsubmitted", "pending", "open"}
  <2>1. log[j] = <<>> /\ (row[j] = NoRow \/ row[j] = Row("failed", 0))
    BY <1>3 DEF Story, Shows
  <2>. QED BY <1>0, <1>1, <1>2, <2>1 DEF NoRow
<1>4. CASE thread[j] \in {"preflight", "record_skip"}
  <2>1. log[j] = <<>> /\ (row[j] = Row("queued", 0) \/ row[j] = Row("failed", 0))
    BY <1>4 DEF Story, Shows
  <2>. QED BY <1>0, <1>1, <1>2, <2>1
<1>5. CASE thread[j] = "begin"
  <2>1. /\ Len(log[j]) = attempts[j] /\ attempts[j] < Budget[j]
        /\ row[j] = Row("queued", attempts[j]) \/ row[j] = Row("failed", 0)
    BY <1>5 DEF Story, Shows
  <2>. QED BY <1>0, <1>1, <1>2, <2>1
<1>6. CASE thread[j] \in Attempting
  <2>1. /\ Len(log[j]) + 1 = attempts[j] /\ attempts[j] <= Budget[j]
        /\ row[j] = Row("running", attempts[j]) \/ row[j] = Row("failed", 0)
    BY <1>6 DEF Story, Shows
  <2>. QED BY <1>0, <1>1, <1>2, <2>1
<1>7. CASE thread[j] = "decide"
  <2>1. /\ Len(log[j]) = attempts[j] /\ attempts[j] <= Budget[j]
        /\ row[j] = Row("running", attempts[j]) \/ row[j] = Row("failed", 0)
    BY <1>7 DEF Story, Shows, Recorded
  <2>. QED BY <1>0, <1>1, <1>2, <2>1
<1>8. CASE thread[j] = "close"
  <2>1. /\ Len(log[j]) = attempts[j]
        /\ \/ row[j] = Row("failed", 0)
           \/ row[j] = Row("running", attempts[j])
           \/ row[j] = Row("queued", 0) /\ log[j] = <<"skipped">>
        /\ attempts[j] <= Budget[j] \/ log[j] = <<"skipped">>
        /\ row[j] = Row("running", attempts[j]) => attempts[j] <= Budget[j]
    BY <1>8, <1>1 DEF Story, Shows, Recorded
  <2>. QED BY <1>0, <1>1, <1>2, <2>1
<1>9. CASE thread[j] = "done"
  <2>1. /\ Len(log[j]) = attempts[j] /\ log[j] # <<>> /\ log[j][Len(log[j])] = outcome[j]
        /\ row[j] = Row(outcome[j], attempts[j]) \/ row[j] = Row("failed", 0)
        /\ attempts[j] <= Budget[j] \/ log[j] = <<"skipped">>
        /\ outcome[j] \notin {"none", "queued", "running"}
    BY <1>9, <1>0 DEF Story, Shows, Recorded, AttemptStates
  <2>. QED BY <1>0, <1>1, <1>2, <2>1
<1>10. CASE thread[j] = "raised"
  BY <1>10 DEF Story
<1>. QED
  BY <1>0, <1>3, <1>4, <1>5, <1>6, <1>7, <1>8, <1>9, <1>10
  DEF ThreadStates, Running, HoldsGlobal, HoldsProvider, Ended, Attempting

\* A thread's step is about its own job, and the results are the main thread's.
LEMMA OwnJob ==
  ASSUME TypeInv, NEW j \in Jobs, Thread(j) \/ Raise(j)
  PROVE  /\ UNCHANGED <<results, failure>>
         /\ \A k \in Jobs : k # j =>
              /\ thread'[k] = thread[k] /\ attempts'[k] = attempts[k] /\ outcome'[k] = outcome[k]
              /\ row'[k] = row[k] /\ log'[k] = log[k]
<1>. USE DEF TypeInv, ThreadTypes, FileTypes, Goto, mainVars, fileVars
<1>1. CASE Start(j) \/ Open(j) \/ Preflight(j)
  BY <1>1 DEF Start, Open, Preflight, WriteRow
<1>2. CASE RecordSkip(j)
  BY <1>2 DEF RecordSkip, AppendAttempt
<1>3. CASE BeginAttempt(j) \/ EnterWorkspace(j)
  BY <1>3 DEF BeginAttempt, EnterWorkspace, WriteRow
<1>4. CASE AcquireGlobal(j) \/ AcquireProvider(j) \/ Throttle(j) \/ CallAdapter(j)
  BY <1>4 DEF AcquireGlobal, AcquireProvider, Throttle, CallAdapter
<1>5. CASE ReleaseProvider(j) \/ ReleaseGlobal(j) \/ LeaveWorkspace(j)
  BY <1>5 DEF ReleaseProvider, ReleaseGlobal, LeaveWorkspace
<1>6. CASE RecordAttempt(j)
  BY <1>6 DEF RecordAttempt, AppendAttempt
<1>7. CASE Decide(j) \/ Close(j) \/ Raise(j)
  BY <1>7 DEF Decide, Close, Raise, WriteRow
<1>. QED BY <1>1, <1>2, <1>3, <1>4, <1>5, <1>6, <1>7, Zenon DEF Thread

LEMMA OwnStory ==
  ASSUME TypeInv, NEW j \in Jobs, Story(j), Reports(j), Thread(j) \/ Raise(j)
  PROVE  Story(j)' /\ Reports(j)'
<1>0. /\ ThreadTypes /\ FileTypes
      /\ row[j] \in RowType /\ attempts[j] \in Nat /\ log[j] \in Seq(AttemptStates)
      /\ Len(log[j]) \in Nat /\ Len(<<>>) = 0 /\ Budget[j] \in Int
  BY SchedulerAssumption DEF TypeInv, ThreadTypes, FileTypes
<1>1. results'[j] = results[j] /\ failure' = failure
  BY OwnJob
<1>2. thread[j] \notin Ended
  BY DEF Thread, Start, Open, Preflight, RecordSkip, BeginAttempt, EnterWorkspace,
     AcquireGlobal, AcquireProvider, Throttle, CallAdapter, ReleaseProvider, ReleaseGlobal,
     LeaveWorkspace, RecordAttempt, Decide, Close, Raise, Writes, At, Ended
<1>3. Reports(j)'
  BY <1>1, <1>2 DEF Reports, NoneMistaken
<1>. SUFFICES Story(j)'
  BY <1>3
<1>4a. \A r : row'[j] = r => Shows(j, r)'
  BY DEF Shows
<1>4b. \A r : row'[j] = row[j] /\ Shows(j, r) => Shows(j, r)'
  BY <1>1 DEF Shows
\* A step that only moves the thread, or also sets the outcome of an attempt.
<1>4. ASSUME NEW t \in Attempting \ {"workspace"}, Goto(j, t), thread[j] \in Attempting,
             UNCHANGED <<attempts, row, log>>
      PROVE  Story(j)'
  <2>1. thread'[j] = t
    BY <1>0, <1>4 DEF Goto, ThreadTypes
  <2>. QED BY <1>4, <1>4b, <2>1 DEF Story, Attempting
<1>5. CASE Start(j)
  <2>1. thread'[j] = "open" /\ thread[j] = "pending" /\ UNCHANGED <<attempts, row, log>>
    BY <1>0, <1>5 DEF Start, Goto, At, ThreadTypes, fileVars
  <2>. QED BY <1>4b, <2>1 DEF Story, Attempting
<1>6. CASE Open(j)
  <2>1. Shows(j, NoRow) /\ log[j] = <<>> /\ attempts[j] = 0
    BY <1>6 DEF Open, At, Story
  <2>2. CASE thread'[j] = "raised" /\ row'[j] = row[j]
    <3>1. Agreeing(j)'
      BY <1>6, <2>2, StoryAgrees DEF Open, Agreeing, Lifecycle!Agree, Lifecycle!WithinBudget,
         Lifecycle!Row
    <3>2. NoneMistaken => ~Closed(j)
      BY <2>1 DEF NoneMistaken, Shows, Closed, NoRow, Row
    <3>. QED BY <1>1, <2>2, <3>1, <3>2 DEF Story, NoneMistaken, Closed, Attempting
  <2>3. CASE thread'[j] = "preflight" /\ row'[j] = Row("queued", 0) /\ Budget[j] >= 1
    BY <1>4a, <1>6, <2>1, <2>3 DEF Open, Story, Attempting
  <2>. QED BY <1>0, <1>6, <2>2, <2>3 DEF Open, Goto, WriteRow, ThreadTypes, FileTypes
<1>7. CASE Preflight(j)
  <2>1. thread'[j] \in {"begin", "record_skip"} /\ UNCHANGED <<attempts, row, log>>
    BY <1>0, <1>7 DEF Preflight, Goto, ThreadTypes, fileVars
  <2>2. /\ Shows(j, Row("queued", 0)) /\ log[j] = <<>> /\ attempts[j] = 0
        /\ Budget[j] >= 1
    BY <1>7 DEF Preflight, At, Story
  <2>. QED BY <1>4b, <2>1, <2>2, <1>0 DEF Story, Attempting
<1>8. CASE RecordSkip(j)
  <2>1. Shows(j, Row("queued", 0)) /\ log[j] = <<>>
    BY <1>8 DEF RecordSkip, At, Story
  <2>2. /\ thread'[j] = "close" /\ attempts'[j] = 1 /\ outcome'[j] = "skipped"
        /\ row'[j] = row[j] /\ log'[j] = <<"skipped">>
    BY <1>0, <1>8, <2>1 DEF RecordSkip, Goto, AppendAttempt, ThreadTypes, FileTypes
  <2>3. <<"skipped">> # <<>> /\ Len(<<"skipped">>) = 1 /\ <<"skipped">>[1] = "skipped"
    OBVIOUS
  <2>. QED BY <1>4b, <2>1, <2>2, <2>3 DEF Story, Recorded, Attempting
<1>9. CASE BeginAttempt(j)
  <2>1. Len(log[j]) = attempts[j] /\ attempts[j] < Budget[j]
    BY <1>9 DEF BeginAttempt, At, Story
  <2>2. /\ thread'[j] = "workspace" /\ attempts'[j] = attempts[j] + 1
        /\ row'[j] = Row("running", attempts[j] + 1) /\ log'[j] = log[j]
    BY <1>0, <1>9 DEF BeginAttempt, Goto, WriteRow, ThreadTypes, FileTypes
  <2>3. attempts'[j] <= Budget[j] /\ Len(log'[j]) + 1 = attempts'[j]
    BY <1>0, <2>1, <2>2
  <2>4. Shows(j, Row("running", attempts[j]))'
    BY <2>2 DEF Shows
  <2>. QED BY <2>2, <2>3, <2>4 DEF Story, Attempting
<1>10. CASE EnterWorkspace(j) \/ AcquireGlobal(j) \/ AcquireProvider(j) \/ Throttle(j)
  BY <1>4, <1>10 DEF EnterWorkspace, AcquireGlobal, AcquireProvider, Throttle, At, Attempting,
     fileVars
<1>11. CASE CallAdapter(j) \/ ReleaseProvider(j) \/ ReleaseGlobal(j) \/ LeaveWorkspace(j)
  BY <1>4, <1>11 DEF CallAdapter, ReleaseProvider, ReleaseGlobal, LeaveWorkspace, At,
     Attempting, fileVars
<1>12. CASE RecordAttempt(j)
  <2>1. /\ Shows(j, Row("running", attempts[j])) /\ Len(log[j]) + 1 = attempts[j]
        /\ attempts[j] <= Budget[j]
    BY <1>12 DEF RecordAttempt, At, Story, Attempting
  <2>2. Coerce(outcome[j]) \in AttemptStates
    BY DEF Coerce, AttemptStates
  <2>3. /\ thread'[j] = "decide" /\ attempts'[j] = attempts[j] /\ row'[j] = row[j]
        /\ outcome'[j] = Coerce(outcome[j]) /\ AppendAttempt(j, Coerce(outcome[j]))
    BY <1>0, <1>12 DEF RecordAttempt, Goto, ThreadTypes
  <2>4. /\ Len(log'[j]) = Len(log[j]) + 1
        /\ log'[j] # <<>> /\ log'[j][Len(log'[j])] = Coerce(outcome[j])
    BY <1>0, <2>2, <2>3, Appended
  <2>5. Recorded(j)'
    BY <2>1, <2>3, <2>4 DEF Recorded
  <2>6. Shows(j, Row("running", attempts[j]))'
    BY <1>1, <2>1, <2>3 DEF Shows
  <2>. QED BY <2>1, <2>3, <2>5, <2>6 DEF Story, Attempting
<1>13. CASE Decide(j)
  <2>1. /\ Recorded(j) /\ Shows(j, Row("running", attempts[j]))
        /\ attempts[j] <= Budget[j]
    BY <1>13 DEF Decide, At, Story
  <2>2. CASE MayRetry(j)
    <3>1. /\ thread'[j] = "begin" /\ attempts'[j] = attempts[j] /\ log'[j] = log[j]
          /\ row'[j] = Row("queued", attempts[j]) /\ attempts[j] < Budget[j]
      BY <1>0, <1>13, <2>2 DEF Decide, MayRetry, Goto, WriteRow, ThreadTypes, FileTypes
    <3>2. Shows(j, Row("queued", attempts[j]))'
      BY <3>1 DEF Shows
    <3>. QED BY <2>1, <3>1, <3>2 DEF Story, Recorded, Attempting
  <2>3. CASE ~MayRetry(j)
    <3>1. thread'[j] = "close" /\ UNCHANGED <<attempts, outcome, row, log>>
      BY <1>0, <1>13, <2>3 DEF Decide, Goto, ThreadTypes
    <3>2. Shows(j, Row("running", attempts[j]))'
      BY <1>1, <2>1, <3>1 DEF Shows
    <3>. QED BY <2>1, <3>1, <3>2 DEF Story, Recorded, Attempting
  <2>. QED BY <2>2, <2>3
<1>14. CASE Close(j)
  <2>1. /\ thread'[j] = "done" /\ row'[j] = Row(outcome[j], attempts[j])
        /\ UNCHANGED <<attempts, outcome, log>>
    BY <1>0, <1>14 DEF Close, Goto, WriteRow, ThreadTypes, FileTypes
  <2>2. Recorded(j) /\ (attempts[j] <= Budget[j] \/ log[j] = <<"skipped">>)
    BY <1>14 DEF Close, At, Story
  <2>3. Shows(j, Row(outcome[j], attempts[j]))' /\ Recorded(j)'
    BY <2>1, <2>2 DEF Shows, Recorded
  <2>. QED BY <2>1, <2>2, <2>3 DEF Story, Attempting
<1>15. CASE Raise(j)
  <2>1. thread'[j] = "raised" /\ UNCHANGED <<row, log>>
    BY <1>0, <1>15 DEF Raise, Goto, ThreadTypes, fileVars
  <2>2. NoneMistaken => ~Closed(j)
    BY <1>15 DEF Raise, Writes, At, Story, Shows, NoneMistaken, Attempting, Closed, NoRow, Row
  <2>3. Agreeing(j)'
    BY <2>1, StoryAgrees DEF Agreeing, Lifecycle!Agree, Lifecycle!WithinBudget, Lifecycle!Row
  <2>. QED BY <1>1, <2>1, <2>2, <2>3 DEF Story, NoneMistaken, Closed, Attempting
<1>. QED
  BY <1>5, <1>6, <1>7, <1>8, <1>9, <1>10, <1>11, <1>12, <1>13, <1>14, <1>15, Zenon
  DEF Thread

\* A done job's result is its last row, and it is closed.
LEMMA DoneIsReported ==
  ASSUME TypeInv, NEW j \in Jobs, Story(j), thread[j] = "done", NoneMistaken
  PROVE  row[j] = Row(outcome[j], attempts[j]) /\ Closed(j)
<1>1. row[j] = Row(outcome[j], attempts[j]) /\ outcome[j] \in AttemptStates
  BY DEF Story, Shows, NoneMistaken, TypeInv, ThreadTypes
<1>. QED BY <1>1 DEF Closed, Row, AttemptStates

\* The failed row that run() gives a job: its thread raised, or it may have
\* been mistaken.
LEMMA ForcedStory ==
  ASSUME TypeInv, NEW k \in Jobs, Story(k), thread[k] = "raised" \/ ~NoneMistaken,
         UNCHANGED threadVars, log' = log, failure' = failure,
         row'[k] = Row("failed", 0), results'[k] = Row("failed", 0)
  PROVE  Story(k)' /\ Reports(k)'
<1>1. /\ thread'[k] = thread[k] /\ attempts'[k] = attempts[k] /\ outcome'[k] = outcome[k]
      /\ log'[k] = log[k] /\ NoneMistaken' = NoneMistaken
  BY DEF threadVars, NoneMistaken
<1>2. ~NoneMistaken => \A r : Shows(k, r)'
  BY DEF Shows, NoneMistaken
<1>3. Agreeing(k)'
  <2>1. Agreeing(k) /\ Budget[k] \in Int /\ Len(log[k]) \in Nat /\ row[k].attempts \in Nat
    BY StoryAgrees, SchedulerAssumption DEF TypeInv, FileTypes, RowType
  <2>. QED BY <1>1, <2>1
    DEF Agreeing, Lifecycle!Agree, Lifecycle!WithinBudget, Lifecycle!Row, Row
<1>4. results'[k] # NoRow
  BY FailedIsRow
<1>5. Story(k)'
  <2>1. CASE thread[k] = "raised"
    BY <1>1, <1>3, <1>4, <2>1 DEF Story, Attempting
  <2>2. CASE ~NoneMistaken
    <3>1. Recorded(k) => Recorded(k)'
      BY <1>1 DEF Recorded
    <3>2. /\ Shows(k, NoRow)' /\ Shows(k, Row("queued", 0))'
          /\ Shows(k, Row("queued", attempts[k]))' /\ Shows(k, Row("running", attempts[k]))'
          /\ Shows(k, Row(outcome[k], attempts[k]))'
      BY <1>2, <2>2
    <3>. QED BY <1>1, <1>3, <1>4, <2>2, <3>1, <3>2 DEF Story
  <2>. QED BY <2>1, <2>2
<1>6. Reports(k)'
  BY <1>1 DEF Reports, Closed, Row, Ended
<1>. QED BY <1>5, <1>6

LEMMA ToldStep ==
  ASSUME TypeInv, SubmittedOnce, Course, Closing, Told, [Next]_vars PROVE Told'
<1>0. MainTypes /\ ThreadTypes /\ FileTypes
  BY DEF TypeInv
<1>. SUFFICES ASSUME NEW k \in Jobs PROVE Story(k)' /\ Reports(k)'
  BY DEF Told, Jobs
<1>a. Story(k) /\ Reports(k) /\ (NoneMistaken' => NoneMistaken)
  BY CutStays DEF Told
<1>b. CASE UNCHANGED threadVars /\ UNCHANGED <<row, log, results>>
  BY <1>a, <1>b, SameStory DEF threadVars
<1>1. ASSUME NEW j \in Jobs, Thread(j) \/ Raise(j) PROVE Story(k)' /\ Reports(k)'
  <2>1. CASE k = j
    BY <1>1, <1>a, <2>1, OwnStory
  <2>2. CASE k # j
    BY <1>1, <1>a, <2>2, OwnJob, SameStory
  <2>. QED BY <2>1, <2>2
<1>2. CASE Submit
  <2>1. /\ submitted + 1 \in Jobs /\ UNCHANGED <<attempts, outcome, row, log, results>>
        /\ UNCHANGED thread \/ Goto(submitted + 1, "pending")
    BY <1>0, <1>2, SchedulerAssumption DEF Submit, MainTypes, Jobs, fileVars
  <2>2. CASE thread'[k] = thread[k]
    BY <1>a, <2>1, <2>2, SameStory
  <2>3. CASE k = submitted + 1 /\ thread'[k] = "pending"
    <3>1. thread[k] = "unsubmitted"
      BY <1>0, <2>3 DEF SubmittedOnce, MainTypes
    <3>2. Shows(k, NoRow) => Shows(k, NoRow)'
      BY <1>2, <2>1 DEF Shows, Submit, Course
    <3>. QED BY <1>a, <2>1, <2>3, <3>1, <3>2 DEF Story, Reports, Attempting, Ended
  <2>. QED BY <1>0, <2>1, <2>2, <2>3 DEF Goto, ThreadTypes
\* An entry is put into results_by_job_id for a job that is done.
<1>3. ASSUME NEW j \in Jobs, thread[j] = "done", UNCHANGED threadVars, UNCHANGED <<row, log>>,
             results' = [results EXCEPT ![j] = Row(outcome[j], attempts[j])]
      PROVE  Story(k)' /\ Reports(k)'
  <2>1. CASE k # j
    BY <1>0, <1>a, <1>3, <2>1, SameStory DEF threadVars, MainTypes
  <2>2. CASE k = j
    <3>1. /\ results'[k] = Row(outcome[k], attempts[k]) /\ thread'[k] = "done"
          /\ row'[k] = row[k] /\ log'[k] = log[k]
          /\ outcome'[k] = outcome[k] /\ attempts'[k] = attempts[k] /\ thread[k] = "done"
      BY <1>0, <1>3, <2>2 DEF MainTypes, threadVars
    <3>2. NoneMistaken => row[k] = Row(outcome[k], attempts[k]) /\ Closed(k)
      BY <1>a, <3>1, DoneIsReported
    <3>3. /\ Recorded(k) => Recorded(k)'
          /\ Shows(k, Row(outcome[k], attempts[k])) => Shows(k, Row(outcome[k], attempts[k]))'
      BY <1>a, <3>1 DEF Recorded, Shows, NoneMistaken, Row
    <3>4. Story(k)'
      BY <1>a, <3>1, <3>3 DEF Story, Attempting
    <3>5. Reports(k)'
      BY <1>a, <3>1, <3>2 DEF Reports, Closed, Ended
    <3>. QED BY <3>4, <3>5
  <2>. QED BY <2>1, <2>2
<1>4. ASSUME NEW j \in Jobs, Collect(j) PROVE Story(k)' /\ Reports(k)'
  <2>1. UNCHANGED threadVars /\ UNCHANGED <<row, log>>
    BY <1>4 DEF Collect, fileVars
  <2>. QED BY <1>3, <1>4, <1>b, <2>1 DEF Collect, At
<1>5. CASE Settle
  <2>1. /\ cursor \in Jobs /\ UNCHANGED threadVars /\ UNCHANGED <<row, log>>
        /\ \/ UNCHANGED results
           \/ /\ thread[cursor] = "done"
              /\ results' = [results EXCEPT ![cursor] = Row(outcome[cursor], attempts[cursor])]
    BY <1>0, <1>5, SchedulerAssumption DEF Settle, MainTypes, Jobs, At, fileVars
  <2>. QED BY <1>3, <1>b, <2>1
<1>6. CASE CloseInterrupted
  <2>1. /\ cursor \in Jobs /\ main = "closing" /\ UNCHANGED threadVars
        /\ UNCHANGED <<log, failure>>
        /\ row' = [row EXCEPT ![cursor] = Row("failed", 0)]
        /\ results' = [results EXCEPT ![cursor] = Row("failed", 0)]
    BY <1>0, <1>6, SchedulerAssumption DEF CloseInterrupted, MainTypes, Jobs, WriteRow
  <2>2. CASE k # cursor
    BY <1>0, <1>a, <2>1, <2>2, SameStory DEF threadVars, MainTypes, FileTypes
  <2>3. CASE k = cursor
    <3>1. row'[k] = Row("failed", 0) /\ results'[k] = Row("failed", 0)
      BY <1>0, <2>1, <2>3 DEF MainTypes, FileTypes
    <3>. QED BY <1>a, <2>1, <2>3, <3>1, ForcedStory DEF Closing
  <2>. QED BY <2>2, <2>3
<1>7. CASE CollectedAll \/ Join \/ SettledAll \/ SettleFault \/ Flush \/ FlushFault \/ Interrupt
  <2>1. UNCHANGED threadVars /\ UNCHANGED <<row, log, results>>
    BY <1>7 DEF CollectedAll, Join, SettledAll, SettleFault, Flush, FlushFault, Interrupt, fileVars
  <2>. QED BY <1>b, <2>1
<1>8. CASE UNCHANGED vars \/ Terminated
  BY <1>8, <1>b DEF vars, Terminated, mainVars, fileVars
<1>. QED BY <1>1, <1>2, <1>4, <1>5, <1>6, <1>7, <1>8, Zenon DEF Next, Main

LEMMA NextLedger == TypeInv /\ SubmittedOnce /\ LedgerInv /\ [Next]_vars => LedgerInv'
<1>. SUFFICES ASSUME TypeInv, SubmittedOnce, LedgerInv, [Next]_vars PROVE LedgerInv'
  OBVIOUS
<1>1. /\ Course /\ Harvest /\ Course' /\ Harvest'
      /\ Told /\ Closing /\ Told' /\ Closing'
  BY CourseStep, HarvestStep, ToldStep, ClosingStep DEF LedgerInv
<1>2. ASSUME Whole' PROVE Joined' /\ Settled' /\ Buffered'
  <2>1. Joined /\ Settled /\ Buffered
    BY <1>1, <1>2, CutStays DEF LedgerInv
  <2>. QED BY <1>1, <1>2, <2>1, JoinedStep, SettledStep, BufferedStep
<1>. QED BY <1>1, <1>2 DEF LedgerInv

\* TypeInv, SubmittedOnce and LedgerInv hold in every reachable state.
Reachable == TypeInv /\ SubmittedOnce /\ LedgerInv

LEMMA AlwaysReachable == Spec => []Reachable
<1>1. Init => Reachable
  BY InitTypes, InitSubmitted, InitLedger DEF Reachable
<1>2. Reachable /\ [Next]_vars => Reachable'
  BY NextTypes, NextSubmitted, NextLedger DEF Reachable
<1>. QED BY <1>1, <1>2, PTL DEF Spec

-----------------------------------------------------------------------------
(* What run() leaves behind.                                               *)

(***************************************************************************)
(* A run that returns has ended every planned job, reports of each the     *)
(* last row of run_jobs.jsonl, which is terminal, and has written every    *)
(* recorded attempt to attempts.parquet: run() returns only without a      *)
(* failure, and then no Ctrl-C came and every future was collected.        *)
(***************************************************************************)
THEOREM ReturnedRunIsComplete == Spec => []ReturnIsComplete
<1>1. Reachable => ReturnIsComplete
  <2>. SUFFICES ASSUME Reachable, main = "returned", NEW j \in Jobs
                PROVE  /\ thread[j] = "done"
                       /\ Closed(j) /\ results[j] = row[j]
                       /\ parquet[j] = Len(log[j])
    BY DEF ReturnIsComplete
  <2>1. failure = "none"
    BY DEF Reachable, LedgerInv, Course
  <2>2. thread[j] = "done" /\ results[j] # NoRow
    BY <2>1 DEF Reachable, LedgerInv, Harvest
  <2>3. Told /\ Buffered /\ NoneMistaken
    BY <2>1 DEF Reachable, LedgerInv, Whole, Cut, NoneMistaken
  <2>4. Closed(j) /\ results[j] = row[j]
    BY <2>2, <2>3 DEF Told, Reports
  <2>5. parquet[j] = Len(log[j])
    BY <2>1, <2>3 DEF Buffered
  <2>. QED BY <2>2, <2>4, <2>5
<1>. QED BY <1>1, AlwaysReachable, PTL

\* What a run that was joined, and raises for another reason than a failing
\* write, leaves of the jobs it submitted.
LEMMA RaisedIsSettled ==
  ASSUME Reachable, Whole, main = "raised", failure # "write",
         NEW j \in 1 .. submitted
  PROVE  Closed(j) /\ results[j] = row[j] /\ parquet[j] = Len(log[j])
<1>1. cursor > submitted /\ NoneMistaken
  BY DEF Reachable, LedgerInv, Course, Whole, NoneMistaken, Cut
<1>2. j \in Jobs /\ j <= submitted /\ j < cursor
  BY <1>1, SchedulerAssumption DEF Reachable, TypeInv, MainTypes, Jobs
<1>3. Told /\ Settled /\ Buffered
  BY DEF Reachable, LedgerInv
<1>4. results[j] # NoRow
  BY <1>2, <1>3 DEF Settled, Over
<1>5. Closed(j) /\ results[j] = row[j]
  BY <1>1, <1>2, <1>3, <1>4 DEF Told, Reports
<1>6. parquet[j] = Len(log[j])
  BY <1>2, <1>3 DEF Buffered
<1>. QED BY <1>5, <1>6

(***************************************************************************)
(* When a job's exception, or a solver without an adapter, makes run()     *)
(* raise, every job it had submitted has its terminal row, run() would     *)
(* have reported that row, and its attempts are in attempts.parquet:       *)
(* leaving the pool waited for all of them.                                *)
(***************************************************************************)
THEOREM FailedRunClosesEveryJob == Spec => []FailureClosesEveryJob
<1>1. Reachable => FailureClosesEveryJob
  BY RaisedIsSettled DEF FailureClosesEveryJob, Whole, Cut
<1>. QED BY <1>1, AlwaysReachable, PTL

(***************************************************************************)
(* A Ctrl-C while run() submits or collects, with none in the join or in   *)
(* the finally block after it, loses nothing, for any number of jobs and   *)
(* whichever of them fail: those submitted end, are closed, and keep their *)
(* attempts.                                                               *)
(***************************************************************************)
THEOREM InterruptedRunLosesNothing == Spec => []OneInterruptLosesNothing
<1>1. Reachable => OneInterruptLosesNothing
  BY RaisedIsSettled DEF OneInterruptLosesNothing, Whole, Cut
<1>. QED BY <1>1, AlwaysReachable, PTL

(***************************************************************************)
(* Wherever Ctrl-C comes, and however often, a job that has ended keeps    *)
(* the row its own thread wrote, unless the join was cut short with a      *)
(* job's exception pending.                                                *)
(***************************************************************************)
THEOREM VerdictsAlwaysStand == Spec => []VerdictStands
<1>1. Reachable => VerdictStands
  BY DEF Reachable, LedgerInv, Told, Story, Shows, VerdictStands
<1>. QED BY <1>1, AlwaysReachable, PTL

(***************************************************************************)
(* The last row and the attempt rows of a job never contradict each other, *)
(* and no job has had more attempts than its solver's budget: whatever     *)
(* fails, and wherever run() is interrupted.                               *)
(***************************************************************************)
THEOREM LedgersNeverContradict == Spec => []LedgersAgree
<1>1. Reachable => LedgersAgree
  BY StoryAgrees DEF Reachable, LedgerInv, Told, Agreeing, LedgersAgree, Lifecycle!LedgersAgree
<1>. QED BY <1>1, AlwaysReachable, PTL

-----------------------------------------------------------------------------
(* The ledgers follow JobLifecycle.                                        *)

\* A step on one job's row is the step of JobLifecycle that its name says.
LEMMA RowSteps ==
  ASSUME Reachable, NoneMistaken, NEW j \in Jobs,
         Open(j) \/ BeginAttempt(j) \/ Decide(j) \/ Close(j)
  PROVE  [Lifecycle!Next]_(Lifecycle!vars)
<1>0. /\ Story(j) /\ ThreadTypes /\ FileTypes
      /\ attempts[j] \in Nat
  BY DEF Reachable, LedgerInv, Told, TypeInv, ThreadTypes
<1>. SUFFICES \/ Lifecycle!Enqueue(j) \/ Lifecycle!Begin(j) \/ Lifecycle!Requeue(j)
              \/ Lifecycle!Finish(j) \/ UNCHANGED <<row, log>>
  BY DEF Lifecycle!Next, Lifecycle!vars
<1>. USE DEF Lifecycle!SetRow, Lifecycle!Row, Row, WriteRow, Shows, NoneMistaken
<1>1. CASE Open(j)
  <2>1. row[j].status = "none" /\ log' = log
    BY <1>0, <1>1 DEF Open, At, Story, NoRow
  <2>. QED BY <1>1, <2>1 DEF Open, Lifecycle!Enqueue
<1>2. CASE BeginAttempt(j)
  <2>1. /\ row[j] = Row("queued", attempts[j]) /\ Len(log[j]) = attempts[j]
        /\ attempts[j] < Budget[j]
    BY <1>0, <1>2 DEF BeginAttempt, At, Story
  <2>. QED BY <1>2, <2>1 DEF BeginAttempt, Lifecycle!Begin
<1>3. CASE Decide(j)
  <2>1. Recorded(j) /\ row[j] = Row("running", attempts[j])
    BY <1>0, <1>3 DEF Decide, At, Story
  <2>2. CASE MayRetry(j)
    BY <1>3, <2>1, <2>2 DEF Decide, MayRetry, Recorded, Lifecycle!Requeue, Lifecycle!LastState
  <2>3. CASE ~MayRetry(j)
    BY <1>3, <2>3 DEF Decide
  <2>. QED BY <2>2, <2>3
<1>4. CASE Close(j)
  <2>1. /\ Recorded(j)
        /\ \/ row[j] = Row("running", attempts[j])
           \/ row[j] = Row("queued", 0) /\ log[j] = <<"skipped">>
    BY <1>0, <1>4 DEF Close, At, Story
  <2>2. Lifecycle!SetRow(j, Lifecycle!Row(Lifecycle!LastState(j), Len(log[j])))
    BY <1>4, <2>1 DEF Close, Recorded, Lifecycle!LastState
  <2>. QED BY <2>1, <2>2 DEF Recorded, Lifecycle!Finish, Lifecycle!Open
<1>. QED BY <1>1, <1>2, <1>3, <1>4

LEMMA LogSteps ==
  ASSUME Reachable, NoneMistaken, NEW j \in Jobs, RecordSkip(j) \/ RecordAttempt(j)
  PROVE  Lifecycle!Next
<1>0. Story(j)
  BY DEF Reachable, LedgerInv, Told
<1>1. CASE RecordSkip(j)
  <2>1. row[j] = Row("queued", 0) /\ log[j] = <<>>
    BY <1>0, <1>1 DEF RecordSkip, At, Story, Shows, NoneMistaken
  <2>2. Lifecycle!Record(j, "skipped")
    BY <1>1, <2>1 DEF RecordSkip, AppendAttempt, Lifecycle!Record, Lifecycle!Row, Row
  <2>. QED BY <2>2 DEF Lifecycle!Next, AttemptStates
<1>2. CASE RecordAttempt(j)
  <2>1. row[j] = Row("running", attempts[j]) /\ Len(log[j]) + 1 = attempts[j]
    BY <1>0, <1>2 DEF RecordAttempt, At, Story, Attempting, Shows, NoneMistaken
  <2>2. Lifecycle!Record(j, Coerce(outcome[j]))
    BY <1>2, <2>1 DEF RecordAttempt, AppendAttempt, Lifecycle!Record, Row
  <2>3. Coerce(outcome[j]) \in AttemptStates
    BY DEF Coerce, AttemptStates
  <2>. QED BY <2>2, <2>3 DEF Lifecycle!Next
<1>. QED BY <1>1, <1>2

\* The finally block closes only rows that are open: those of jobs that raised.
LEMMA ForcedStep ==
  ASSUME Reachable, NoneMistaken, CloseInterrupted PROVE Lifecycle!Next
<1>1. /\ cursor \in Jobs /\ thread[cursor] = "raised" /\ results[cursor] = NoRow
      /\ log' = log /\ row' = [row EXCEPT ![cursor] = Row("failed", 0)]
  BY SchedulerAssumption
  DEF CloseInterrupted, WriteRow, Reachable, TypeInv, MainTypes, LedgerInv, Closing, Jobs
<1>2. ~Closed(cursor)
  BY <1>1 DEF Reachable, LedgerInv, Told, Story
<1>3. Lifecycle!Interrupt(cursor)
  BY <1>1, <1>2
  DEF Closed, Lifecycle!Interrupt, Lifecycle!Open, Lifecycle!SetRow, Lifecycle!Row, Row
<1>. QED BY <1>1, <1>3 DEF Lifecycle!Next

LEMMA LifecycleStep ==
  Reachable /\ [Next]_vars /\ NoneMistaken' => [Lifecycle!Next]_(Lifecycle!vars)
<1>. SUFFICES ASSUME Reachable, [Next]_vars, NoneMistaken'
              PROVE  [Lifecycle!Next]_(Lifecycle!vars)
  OBVIOUS
<1>1. NoneMistaken
  BY CutStays DEF Reachable, LedgerInv
<1>2. CASE UNCHANGED <<row, log>>
  BY <1>2 DEF Lifecycle!vars
<1>3. \/ UNCHANGED <<row, log>> \/ CloseInterrupted
      \/ \E j \in Jobs : \/ Open(j) \/ RecordSkip(j) \/ BeginAttempt(j)
                         \/ RecordAttempt(j) \/ Decide(j) \/ Close(j)
  BY FileFrame DEF fileVars, Flush, FlushFault, Interrupt
<1>. QED BY <1>1, <1>2, <1>3, RowSteps, LogSteps, ForcedStep, Zenon

LEMMA LifecycleInit == Init => Lifecycle!Init
BY DEF Init, Lifecycle!Init, NoRow, Row, Lifecycle!NoRow, Lifecycle!Row

(***************************************************************************)
(* A run implements JobLifecycle, each of its steps being one of           *)
(* JobLifecycle's on the last row and the attempt rows of a job, or one    *)
(* that leaves both ledgers alone: unless a Ctrl-C cuts the join short     *)
(* with a job's exception pending.                                         *)
(***************************************************************************)
THEOREM RunFollowsLifecycle == Spec /\ []NoneMistaken => LifecycleSpec
<1>. QED
  BY AlwaysReachable, LifecycleInit, LifecycleStep, PTL DEF Spec, LifecycleSpec, Lifecycle!Spec

(***************************************************************************)
(* So does every run of a scheduler that nobody interrupts.                *)
(***************************************************************************)
THEOREM UninterruptedRunFollowsLifecycle ==
  ASSUME MaxInterrupts = 0 PROVE Spec => LifecycleSpec
<1>1. Reachable => NoneMistaken
  BY DEF Reachable, TypeInv, BoundTypes, LedgerInv, Course, Cut, NoneMistaken
<1>. QED BY <1>1, AlwaysReachable, RunFollowsLifecycle, PTL

-----------------------------------------------------------------------------
(* JobLifecycle keeps its two ledgers in agreement, for any jobs, budgets  *)
(* and retry policy: its TypeOK and LedgersAgree are inductive together.   *)

LEMMA InstanceAssumption == Lifecycle!LifecycleAssumption
BY SchedulerAssumption DEF Lifecycle!LifecycleAssumption, AttemptStates

LifecycleInv == Lifecycle!TypeOK /\ Lifecycle!LedgersAgree

LEMMA LifecycleInitInv == Lifecycle!Init => LifecycleInv
BY InstanceAssumption DEF Lifecycle!LifecycleAssumption, Lifecycle!Init, LifecycleInv,
  Lifecycle!TypeOK, Lifecycle!LedgersAgree, Lifecycle!Agree, Lifecycle!WithinBudget,
    Lifecycle!NoRow, Lifecycle!Row, Lifecycle!RowType

\* A step that gives job j the row r, the log left alone, need only be looked
\* at for j; and so for a step that gives it the log l.
LEMMA LifecycleRowStep ==
  ASSUME LifecycleInv, NEW j \in Jobs, NEW r \in Lifecycle!RowType, Lifecycle!SetRow(j, r),
         Lifecycle!Agree(r, log[j]), Lifecycle!WithinBudget(r, log[j], Budget[j])
  PROVE  LifecycleInv'
<1>1. \A k \in Jobs : row'[k] = IF k = j THEN r ELSE row[k]
  BY DEF Lifecycle!SetRow, LifecycleInv, Lifecycle!TypeOK
<1>2. Lifecycle!TypeOK'
  BY DEF Lifecycle!SetRow, LifecycleInv, Lifecycle!TypeOK
<1>3. Lifecycle!LedgersAgree'
  BY <1>1 DEF Lifecycle!SetRow, LifecycleInv, Lifecycle!LedgersAgree
<1>. QED BY <1>2, <1>3 DEF LifecycleInv

LEMMA LifecycleRecordStep ==
  ASSUME LifecycleInv, NEW j \in Jobs, NEW s \in AttemptStates, Lifecycle!Record(j, s)
  PROVE  LifecycleInv'
<1>1. \A k \in Jobs : log'[k] = IF k = j THEN Append(log[j], s) ELSE log[k]
  BY DEF Lifecycle!Record, LifecycleInv, Lifecycle!TypeOK
<1>2. Lifecycle!TypeOK'
  BY DEF Lifecycle!Record, LifecycleInv, Lifecycle!TypeOK
<1>. DEFINE l == Append(log[j], s)
<1>2a. /\ log[j] \in Seq(AttemptStates) /\ row[j] \in Lifecycle!RowType
       /\ l # <<>> /\ Len(l) = Len(log[j]) + 1 /\ Len(log[j]) \in Nat
  <2>1. log[j] \in Seq(AttemptStates) /\ row[j] \in Lifecycle!RowType
    BY DEF LifecycleInv, Lifecycle!TypeOK
  <2>2. Len(l) = Len(log[j]) + 1 /\ Len(log[j]) \in Nat
    BY <2>1
  <2>. QED BY <2>1, <2>2
<1>2b. log[j] = <<>> /\ s = "skipped" => l = <<"skipped">>
  OBVIOUS
<1>2c. Budget[j] \in Int /\ row[j].attempts \in Nat
  BY <1>2a, InstanceAssumption DEF Lifecycle!LifecycleAssumption, Lifecycle!RowType
<1>2d. row[j] = Lifecycle!Row("queued", 0) =>
         row[j].status = "queued" /\ row[j].attempts = 0
  BY DEF Lifecycle!Row
<1>. HIDE DEF l
<1>3. Lifecycle!Agree(row[j], l)
  BY <1>2a, <1>2b, <1>2c, <1>2d DEF Lifecycle!Record, Lifecycle!Agree
<1>4. Lifecycle!WithinBudget(row[j], l, Budget[j])
  <2>1. CASE row[j].status = "running" /\ Len(log[j]) + 1 = row[j].attempts
    <3>1. Len(<<>>) = 0 /\ Len(<<"skipped">>) = 1
      OBVIOUS
    <3>2. CASE row[j].attempts <= Budget[j] /\ Len(log[j]) <= Budget[j]
      BY <3>2, <2>1, <1>2a, <1>2c DEF Lifecycle!WithinBudget
    <3>3. CASE row[j].attempts \in {0, 1} /\ log[j] = <<"skipped">>
      <4>1. Len(log[j]) = 1
        BY <3>1, <3>3
      <4>. QED BY <4>1, <3>3, <2>1, <1>2c
    <3>4. CASE row[j].attempts = 0 /\ log[j] = <<>>
      <4>1. Len(log[j]) = 0
        BY <3>1, <3>4
      <4>. QED BY <4>1, <3>4, <2>1, <1>2c
    <3>. QED BY <3>2, <3>3, <3>4 DEF LifecycleInv, Lifecycle!LedgersAgree, Lifecycle!WithinBudget
  <2>2. CASE row[j] = Lifecycle!Row("queued", 0) /\ log[j] = <<>> /\ s = "skipped"
    BY <2>2, <1>2b, <1>2c, <1>2d DEF Lifecycle!WithinBudget
  <2>. QED BY <2>1, <2>2 DEF Lifecycle!Record
<1>5. Lifecycle!LedgersAgree'
  BY <1>1, <1>3, <1>4 DEF Lifecycle!Record, LifecycleInv, Lifecycle!LedgersAgree, l
<1>. QED BY <1>2, <1>5 DEF LifecycleInv

LEMMA LifecycleNextInv == LifecycleInv /\ [Lifecycle!Next]_(Lifecycle!vars) => LifecycleInv'
<1>. SUFFICES ASSUME LifecycleInv, [Lifecycle!Next]_(Lifecycle!vars) PROVE LifecycleInv'
  OBVIOUS
<1>. USE InstanceAssumption DEF Lifecycle!LifecycleAssumption
<1>0. CASE UNCHANGED Lifecycle!vars
  BY <1>0 DEF Lifecycle!vars, LifecycleInv, Lifecycle!TypeOK, Lifecycle!LedgersAgree
<1>1. ASSUME NEW j \in Jobs, Lifecycle!Enqueue(j) PROVE LifecycleInv'
  <2>1. /\ Lifecycle!Row("queued", 0) \in Lifecycle!RowType
        /\ Lifecycle!Agree(Lifecycle!Row("queued", 0), log[j])
        /\ Lifecycle!WithinBudget(Lifecycle!Row("queued", 0), log[j], Budget[j])
    BY <1>1 DEF Lifecycle!Enqueue, LifecycleInv, Lifecycle!TypeOK, Lifecycle!LedgersAgree,
      Lifecycle!Agree, Lifecycle!WithinBudget, Lifecycle!Row, Lifecycle!RowType
  <2>. QED BY <1>1, <2>1, LifecycleRowStep DEF Lifecycle!Enqueue
<1>2. ASSUME NEW j \in Jobs, Lifecycle!Begin(j) PROVE LifecycleInv'
  <2>. DEFINE r == Lifecycle!Row("running", row[j].attempts + 1)
  <2>1. r \in Lifecycle!RowType /\ Lifecycle!Agree(r, log[j]) /\ Lifecycle!WithinBudget(r,
    log[j], Budget[j])
    BY <1>2 DEF Lifecycle!Begin, LifecycleInv, Lifecycle!TypeOK, Lifecycle!LedgersAgree,
      Lifecycle!Agree, Lifecycle!WithinBudget, Lifecycle!Row, Lifecycle!RowType
  <2>. QED BY <1>2, <2>1, LifecycleRowStep DEF Lifecycle!Begin
<1>3. ASSUME NEW j \in Jobs, Lifecycle!Requeue(j) PROVE LifecycleInv'
  <2>. DEFINE r == Lifecycle!Row("queued", row[j].attempts)
  <2>1. r \in Lifecycle!RowType /\ Lifecycle!Agree(r, log[j]) /\ Lifecycle!WithinBudget(r,
    log[j], Budget[j])
    BY <1>3 DEF Lifecycle!Requeue, LifecycleInv, Lifecycle!TypeOK, Lifecycle!LedgersAgree,
      Lifecycle!Agree, Lifecycle!WithinBudget, Lifecycle!Row, Lifecycle!RowType
  <2>. QED BY <1>3, <2>1, LifecycleRowStep DEF Lifecycle!Requeue
<1>4. ASSUME NEW j \in Jobs, Lifecycle!Finish(j) PROVE LifecycleInv'
  <2>. DEFINE r == Lifecycle!Row(Lifecycle!LastState(j), Len(log[j]))
  <2>1. Lifecycle!LastState(j) \in AttemptStates /\ Len(log[j]) \in Nat /\ log[j] \in Seq(AttemptStates)
    BY <1>4 DEF Lifecycle!Finish, LifecycleInv, Lifecycle!TypeOK, Lifecycle!LastState
  <2>2. r \in Lifecycle!RowType
    BY <2>1 DEF Lifecycle!Row, Lifecycle!RowType
  <2>3. Lifecycle!Agree(r, log[j])
    BY <1>4, <2>1 DEF Lifecycle!Finish, Lifecycle!Agree, Lifecycle!Row, Lifecycle!LastState
  <2>4. Lifecycle!WithinBudget(r, log[j], Budget[j])
    BY <1>4, <2>1 DEF Lifecycle!Finish, LifecycleInv, Lifecycle!LedgersAgree,
      Lifecycle!WithinBudget, Lifecycle!Row
  <2>. QED BY <1>4, <2>2, <2>3, <2>4, LifecycleRowStep DEF Lifecycle!Finish
<1>5. ASSUME NEW j \in Jobs, Lifecycle!Interrupt(j) PROVE LifecycleInv'
  <2>. DEFINE r == Lifecycle!Row("failed", 0)
  <2>1. r \in Lifecycle!RowType /\ Lifecycle!Agree(r, log[j])
    BY DEF Lifecycle!Row, Lifecycle!RowType, Lifecycle!Agree
  <2>2. Lifecycle!WithinBudget(r, log[j], Budget[j])
    BY DEF LifecycleInv, Lifecycle!TypeOK, Lifecycle!RowType, Lifecycle!LedgersAgree,
      Lifecycle!WithinBudget, Lifecycle!Row
  <2>. QED BY <1>5, <2>1, <2>2, LifecycleRowStep DEF Lifecycle!Interrupt
<1>. QED BY <1>0, <1>1, <1>2, <1>3, <1>4, <1>5, LifecycleRecordStep DEF Lifecycle!Next

(***************************************************************************)
(* The last job row and the attempt rows of a job tell the same story in   *)
(* every reachable state, whatever the jobs, the budgets and the policy.   *)
(***************************************************************************)
THEOREM LedgersAlwaysAgree == Lifecycle!Spec => []Lifecycle!LedgersAgree
<1>1. LifecycleInv => Lifecycle!LedgersAgree
  BY DEF LifecycleInv
<1>. QED BY LifecycleInitInv, LifecycleNextInv, <1>1, PTL DEF Lifecycle!Spec

(***************************************************************************)
(* A job that has a terminal row keeps it, and gets no further attempt.    *)
(***************************************************************************)
THEOREM ClosedJobsStayClosed == Lifecycle!Spec => Lifecycle!ClosedIsFinal
<1>1. LifecycleInv /\ [Lifecycle!Next]_(Lifecycle!vars) =>
        [\A j \in Jobs : Lifecycle!Closed(j) => row'[j] = row[j] /\ log'[j] = log[j]]_(Lifecycle!vars)
  <2>. SUFFICES ASSUME LifecycleInv, Lifecycle!Next, NEW j \in Jobs, Lifecycle!Closed(j)
                PROVE  row'[j] = row[j] /\ log'[j] = log[j]
    OBVIOUS
  <2>. USE DEF Lifecycle!Closed, Lifecycle!Open
  <2>1. ASSUME NEW k \in Jobs, NEW r, Lifecycle!Open(k), Lifecycle!SetRow(k, r)
        PROVE  row'[j] = row[j] /\ log'[j] = log[j]
    BY <2>1 DEF Lifecycle!SetRow, LifecycleInv, Lifecycle!TypeOK
  <2>2. ASSUME NEW k \in Jobs, NEW s \in AttemptStates, Lifecycle!Record(k, s)
        PROVE  row'[j] = row[j] /\ log'[j] = log[j]
    BY <2>2 DEF Lifecycle!Record, Lifecycle!Row, LifecycleInv, Lifecycle!TypeOK
  <2>. QED BY <2>1, <2>2 DEF Lifecycle!Next, Lifecycle!Enqueue, Lifecycle!Begin,
    Lifecycle!Requeue, Lifecycle!Finish, Lifecycle!Interrupt
<1>. QED BY LifecycleInitInv, LifecycleNextInv, <1>1, PTL DEF Lifecycle!Spec,
  Lifecycle!ClosedIsFinal

(***************************************************************************)
(* While no Ctrl-C has cut a join short with a job's exception pending, a  *)
(* job that has its terminal row gets no other, and no further attempt.    *)
(***************************************************************************)
THEOREM RunClosesJobsOnce == Spec /\ []NoneMistaken => Lifecycle!ClosedIsFinal
BY RunFollowsLifecycle, ClosedJobsStayClosed, PTL DEF LifecycleSpec
=============================================================================
