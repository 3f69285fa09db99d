-------------------------- MODULE LiveWorkerProofs --------------------------
(***************************************************************************)
(* Theorems about LiveWorker for every number of processes and jobs, every *)
(* batch limit, every bound on the attempts and every set of mishaps: the  *)
(* types and the fence, the refinement of JobLifecycle, and the effects    *)
(* of an execution.                                                        *)
(***************************************************************************)
EXTENDS LiveWorker, FiniteSetTheorems, TLAPS

-----------------------------------------------------------------------------
(* Type correctness.  A statement changes tables and moves the main loop;  *)
(* the two halves are typed by lemmas of their own.                        *)

LEMMA ContinueType ==
    ASSUME LoopOK, NEW w \in Workers, NEW place \in Places, Continue(w, place)
    PROVE  LoopOK'
BY DEF LoopOK, Continue, Places

LEMMA GoOnType ==
    ASSUME LoopOK, NEW w \in Workers, NEW rest \in SUBSET batch[w], GoOn(w, rest)
    PROVE  LoopOK'
BY DEF LoopOK, GoOn, Places

LEMMA TickErrorType ==
    ASSUME LoopOK, NEW w \in Workers, TickError(w)
    PROVE  LoopOK'
BY GoOnType DEF TickError

LEMMA ThrowType ==
    ASSUME LoopOK, NEW w \in Workers, Throw(w)
    PROVE  LoopOK'
BY ContinueType DEF Throw, Places

LEMMA NextRowType ==
    ASSUME LoopOK, NEW w \in Workers, NEW r \in batch[w], NextRow(w, r)
    PROVE  LoopOK'
BY GoOnType DEF NextRow

LEMMA NoWriteType ==
    ASSUME TablesOK, UNCHANGED source, NoWrite
    PROVE  TablesOK'
BY DEF TablesOK, NoWrite, effects

LEMMA SetStateType ==
    ASSUME TablesOK, UNCHANGED source, NEW j \in Jobs, NEW state \in JobStates, SetState(j, state)
    PROVE  TablesOK'
BY DEF TablesOK, SetState, effects

LEMMA RequeueType ==
    ASSUME TablesOK, UNCHANGED source, NEW rows \in SUBSET Jobs, Requeue(rows)
    PROVE  TablesOK'
BY DEF TablesOK, Requeue, effects, JobStates

LEMMA InsertType ==
    ASSUME TablesOK, UNCHANGED source, NEW rows \in SUBSET Jobs, Insert(rows)
    PROVE  TablesOK'
BY DEF TablesOK, Insert, NewJob, effects, JobStates

LEMMA TakeRowsType ==
    ASSUME TablesOK, UNCHANGED source, NEW w \in Workers, TakeRows(w)
    PROVE  TablesOK'
BY DEF TablesOK, TakeRows, effects, JobStates

LEMMA StatementSignals ==
    ASSUME SignalsOK, UNCHANGED <<source, phase>>,
           UNCHANGED mishaps \/ Mishap("error") \/ Mishap("lostAnswer")
    PROVE  SignalsOK'
BY DEF SignalsOK, Mishap

LEMMA TypeInit == Init => TypeOK
BY ConstantsAssumption
   DEF Init, TypeOK, TablesOK, LoopOK, SignalsOK, JobStates, Places, Dead, ClaimedRow

LEMMA TypeWorld ==
    ASSUME TypeOK, NEW j \in Jobs, Submit(j) \/ Enqueue(j) \/ Erase(j) \/ RowAges(j)
    PROVE  TypeOK'
<1>1. CASE Submit(j)
  BY <1>1 DEF Submit, TypeOK, TablesOK, LoopOK, SignalsOK, effects
<1>2. CASE Enqueue(j)
  BY <1>2 DEF Enqueue, TypeOK, TablesOK, LoopOK, SignalsOK, effects, NewJob, JobStates
<1>3. CASE Erase(j)
  BY <1>3 DEF Erase, TypeOK, TablesOK, LoopOK, SignalsOK, Mishap
<1>4. CASE RowAges(j)
  BY <1>4 DEF RowAges, TypeOK, TablesOK, LoopOK, SignalsOK, effects
<1>. QED  BY <1>1, <1>2, <1>3, <1>4

LEMMA TypeProcess ==
    ASSUME TypeOK, NEW w \in Workers, Start(w) \/ Crash(w) \/ Signal(w)
    PROVE  TypeOK'
<1>1. CASE Start(w)
  BY <1>1 DEF Start, TypeOK, TablesOK, LoopOK, SignalsOK, effects, Places
<1>2. CASE Crash(w)
  BY <1>2 DEF Crash, TypeOK, TablesOK, LoopOK, SignalsOK, effects, Places, Dead, Mishap
<1>3. CASE Signal(w)
  BY <1>3 DEF Signal, TypeOK, TablesOK, LoopOK, SignalsOK, effects, Mishap
<1>. QED  BY <1>1, <1>2, <1>3

LEMMA TypeTick ==
    ASSUME TypeOK, NEW w \in Workers, Tick(w)
    PROVE  TypeOK'
<1>. TablesOK /\ LoopOK /\ SignalsOK
  BY DEF TypeOK
<1>1. CASE Reclaim(w)
  <2>1. TablesOK'
    BY <1>1, RequeueType, NoWriteType
       DEF Reclaim, Statement, TablesOK
  <2>2. LoopOK'
    BY <1>1, ContinueType, TickErrorType
       DEF Reclaim, Statement, Places
  <2>3. SignalsOK'
    BY <1>1, StatementSignals DEF Reclaim, Statement
  <2>. QED  BY <2>1, <2>2, <2>3 DEF TypeOK
<1>2. CASE IngestRequests(w)
  <2>1. TablesOK'
    BY <1>2, InsertType, ConstantsAssumption, NoWriteType
       DEF IngestRequests, Statement, Missing
  <2>2. LoopOK'
    BY <1>2, ContinueType, TickErrorType
       DEF IngestRequests, Statement, Places
  <2>3. SignalsOK'
    BY <1>2, StatementSignals DEF IngestRequests, Statement
  <2>. QED  BY <2>1, <2>2, <2>3 DEF TypeOK
<1>3. CASE IngestOrders(w)
  <2>1. TablesOK'
    BY <1>3, InsertType, ConstantsAssumption, NoWriteType
       DEF IngestOrders, Statement, Missing
  <2>2. LoopOK'
    BY <1>3, ContinueType, TickErrorType
       DEF IngestOrders, Statement, Places
  <2>3. SignalsOK'
    BY <1>3, StatementSignals DEF IngestOrders, Statement
  <2>. QED  BY <2>1, <2>2, <2>3 DEF TypeOK
<1>4. CASE BeginClaim(w)
  BY <1>4 DEF BeginClaim, Claimable, ClaimedRow, TypeOK, TablesOK, LoopOK, SignalsOK, effects, Places
<1>5. CASE ClaimNothing(w)
  BY <1>5 DEF ClaimNothing, GoOn, TypeOK, TablesOK, LoopOK, SignalsOK, effects, Places
<1>6. CASE CommitClaim(w)
  <2>1. TablesOK'
    BY <1>6, TakeRowsType, NoWriteType
       DEF CommitClaim, Statement
  <2>2. LoopOK'
    BY <1>6, GoOnType, TickErrorType
       DEF CommitClaim, Statement
  <2>3. SignalsOK'
    BY <1>6, StatementSignals DEF CommitClaim, Statement
  <2>. QED  BY <2>1, <2>2, <2>3 DEF TypeOK
<1>. QED  BY <1>1, <1>2, <1>3, <1>4, <1>5, <1>6 DEF Tick

LEMMA TypeExecute ==
    ASSUME TypeOK, NEW w \in Workers, Execute(w)
    PROVE  TypeOK'
<1>. TablesOK /\ LoopOK /\ SignalsOK
  BY DEF TypeOK
<1>. \A r \in batch[w] : r.id \in Jobs
  BY DEF LoopOK, ClaimedRow
<1>1. CASE Lookup(w)
  <2>1. TablesOK'
    BY <1>1, NoWriteType
       DEF Lookup, Statement
  <2>2. LoopOK'
    BY <1>1, ContinueType, TickErrorType
       DEF Lookup, Statement, Places, TryStatements, OrderStatements
  <2>3. SignalsOK'
    BY <1>1, StatementSignals DEF Lookup, Statement
  <2>. QED  BY <2>1, <2>2, <2>3 DEF TypeOK
<1>2. CASE NotFound(w)
  <2>1. TablesOK'
    BY <1>2, SetStateType, NoWriteType
       DEF NotFound, Statement, JobStates, Finished
  <2>2. LoopOK'
    BY <1>2, NextRowType, TickErrorType
       DEF NotFound, Statement
  <2>3. SignalsOK'
    BY <1>2, StatementSignals DEF NotFound, Statement
  <2>. QED  BY <2>1, <2>2, <2>3 DEF TypeOK
<1>3. CASE UpdateStatus(w)
  <2>1. TablesOK'
    BY <1>3, NoWriteType
       DEF UpdateStatus, Statement, WriteStatus, TablesOK
  <2>2. LoopOK'
    BY <1>3, ContinueType, ThrowType
       DEF UpdateStatus, Statement, Places, TryStatements, OrderStatements
  <2>3. SignalsOK'
    BY <1>3, StatementSignals DEF UpdateStatus, Statement
  <2>. QED  BY <2>1, <2>2, <2>3 DEF TypeOK
<1>4. CASE InsertEvent(w)
  <2>1. TablesOK'
    BY <1>4, NoWriteType DEF InsertEvent, Statement, AppendEvent, TablesOK
  <2>2. LoopOK'
    BY <1>4, ContinueType, ThrowType DEF InsertEvent, Statement, Places, TryStatements
  <2>3. SignalsOK'
    BY <1>4, StatementSignals DEF InsertEvent, Statement
  <2>. QED  BY <2>1, <2>2, <2>3 DEF TypeOK
<1>5. CASE InsertEvidence(w)
  <2>1. TablesOK'
    BY <1>5, NoWriteType
       DEF InsertEvidence, Statement, AppendEvidence, TablesOK
  <2>2. LoopOK'
    BY <1>5, ContinueType, ThrowType
       DEF InsertEvidence, Statement, Places, TryStatements, OrderStatements
  <2>3. SignalsOK'
    BY <1>5, StatementSignals DEF InsertEvidence, Statement
  <2>. QED  BY <2>1, <2>2, <2>3 DEF TypeOK
<1>6. CASE UpsertProject(w)
  <2>1. TablesOK'
    BY <1>6, NoWriteType
       DEF UpsertProject, Statement, WriteProject, TablesOK
  <2>2. LoopOK'
    BY <1>6, ContinueType, ThrowType
       DEF UpsertProject, Statement, Places, TryStatements, OrderStatements
  <2>3. SignalsOK'
    BY <1>6, StatementSignals DEF UpsertProject, Statement
  <2>. QED  BY <2>1, <2>2, <2>3 DEF TypeOK
<1>7. CASE Succeed(w)
  <2>1. TablesOK'
    BY <1>7, SetStateType, NoWriteType
       DEF Succeed, Statement, JobStates, Finished
  <2>2. LoopOK'
    BY <1>7, NextRowType, ThrowType
       DEF Succeed, Statement
  <2>3. SignalsOK'
    BY <1>7, StatementSignals DEF Succeed, Statement
  <2>. QED  BY <2>1, <2>2, <2>3 DEF TypeOK
<1>8. CASE Catch(w)
  <2>1. TablesOK'
    BY <1>8, SetStateType, NoWriteType
       DEF Catch, Statement, AfterError, JobStates, Finished
  <2>2. LoopOK'
    BY <1>8, NextRowType, TickErrorType
       DEF Catch, Statement
  <2>3. SignalsOK'
    BY <1>8, StatementSignals DEF Catch, Statement
  <2>. QED  BY <2>1, <2>2, <2>3 DEF TypeOK
<1>9. CASE Observe(w)
  <2>1. TablesOK'
    BY <1>9, NoWriteType DEF Observe
  <2>2. LoopOK'
    BY <1>9, ContinueType DEF Observe, Places, OrderStatements
  <2>3. SignalsOK'
    BY <1>9 DEF Observe, SignalsOK
  <2>. QED  BY <2>1, <2>2, <2>3 DEF TypeOK
<1>10. CASE SucceedOrder(w)
  <2>1. TablesOK'
    BY <1>10, SetStateType, NoWriteType
       DEF SucceedOrder, Statement, JobStates, Finished
  <2>2. LoopOK'
    BY <1>10, NextRowType, TickErrorType
       DEF SucceedOrder, Statement
  <2>3. SignalsOK'
    BY <1>10, StatementSignals DEF SucceedOrder, Statement
  <2>. QED  BY <2>1, <2>2, <2>3 DEF TypeOK
<1>. QED
  BY <1>1, <1>2, <1>3, <1>4, <1>5, <1>6, <1>7, <1>8, <1>9, <1>10 DEF Execute

LEMMA TypeShutdown ==
    ASSUME TypeOK, NEW w \in Workers, Shutdown(w)
    PROVE  TypeOK'
<1>1. CASE RequeueOwn(w)
  <2>1. TablesOK'
    BY <1>1, RequeueType, NoWriteType DEF RequeueOwn, TypeOK, TablesOK, LoopOK, SignalsOK
  <2>2. LoopOK' /\ SignalsOK'
    BY <1>1 DEF RequeueOwn, TypeOK, TablesOK, LoopOK, SignalsOK, LoopOK, SignalsOK, Mishap
  <2>. QED  BY <2>1, <2>2 DEF TypeOK
<1>2. CASE ClosePool(w)
  BY <1>2 DEF ClosePool, TypeOK, TablesOK, LoopOK, SignalsOK, effects
<1>3. CASE Exit(w)
  BY <1>3 DEF Exit, TypeOK, TablesOK, LoopOK, SignalsOK, effects, Places, Dead
<1>. QED  BY <1>1, <1>2, <1>3 DEF Shutdown

LEMMA TypeStutter == TypeOK /\ UNCHANGED vars => TypeOK'
BY DEF vars, TypeOK, TablesOK, LoopOK, SignalsOK

LEMMA TypeStep == TypeOK /\ [Next]_vars => TypeOK'
BY TypeWorld, TypeProcess, TypeTick, TypeExecute, TypeShutdown, TypeStutter DEF Next

\* Every reachable state is typed, whatever the constants.
THEOREM TypeCorrect == Spec => []TypeOK
BY TypeInit, TypeStep, PTL DEF Spec

-----------------------------------------------------------------------------
(* The attempt number as a fence.  All steps but two are quiet: they add no *)
(* row to a batch and change no number of attempts.                         *)

Quiet ==
    /\ \A v \in Workers : batch'[v] \subseteq batch[v]
    /\ \A v \in Workers : pc'[v] = "commit" => pc[v] = "commit"
    /\ \A v \in Workers : pc[v] = "commit" /\ pc'[v] # "commit" => batch'[v] = {}
    /\ \A j \in Jobs : job'[j].attempts = job[j].attempts
    /\ \A j \in Jobs : job'[j].state = "ABSENT" => job[j].state = "ABSENT"
    /\ \A j \in Jobs : source'[j] = "none" => job'[j].state = "ABSENT"

LEMMA QuietStep ==
    ASSUME TypeOK, FenceInv, Quiet
    PROVE  FenceInv'
<1>. \A v \in Workers : \A r \in batch[v] : r.id \in Jobs
  BY DEF TypeOK, LoopOK, ClaimedRow
<1>1. AttemptFence'
  BY DEF FenceInv, AttemptFence, Quiet
<1>2. \A w \in Workers : \A r \in batch'[w] :
         /\ job'[r.id].state # "ABSENT"
         /\ pc'[w] = "commit" => /\ r.attempts = job'[r.id].attempts + 1
                                 /\ r.attempts <= MaxAttempts
  BY DEF FenceInv, Quiet
<1>3. \A j \in Jobs : /\ job'[j].attempts <= MaxAttempts
                      /\ job'[j].state = "ABSENT" => job'[j].attempts = 0
                      /\ source'[j] = "none" => job'[j].state = "ABSENT"
  BY DEF FenceInv, Quiet
<1>. QED  BY <1>1, <1>2, <1>3 DEF FenceInv

LEMMA FenceInit == Init => FenceInv
BY ConstantsAssumption DEF Init, FenceInv, AttemptFence

\* The two halves of a quiet step: the tables and the main loop.
QuietTables ==
    /\ \A j \in Jobs : job'[j].attempts = job[j].attempts
    /\ \A j \in Jobs : job'[j].state = "ABSENT" => job[j].state = "ABSENT"
    /\ \A j \in Jobs : source'[j] = "none" => job'[j].state = "ABSENT"

QuietLoop(w) ==
    /\ \A v \in Workers \ {w} : batch'[v] = batch[v] /\ pc'[v] = pc[v]
    /\ batch'[w] \subseteq batch[w]
    /\ pc'[w] # "commit"
    /\ pc[w] = "commit" => batch'[w] = {}

LEMMA QuietParts ==
    ASSUME NEW w \in Workers, QuietTables, QuietLoop(w)
    PROVE  Quiet
BY DEF Quiet, QuietTables, QuietLoop

LEMMA SetStateQuiet ==
    ASSUME TypeOK, FenceInv, NEW j \in Jobs, job[j].state # "ABSENT",
           NEW state \in JobStates \ {"ABSENT"}, SetState(j, state), UNCHANGED source
    PROVE  QuietTables
BY DEF TypeOK, TablesOK, FenceInv, SetState, QuietTables

LEMMA RequeueQuiet ==
    ASSUME TypeOK, FenceInv, NEW rows \in SUBSET {j \in Jobs : job[j].state = "RUNNING"},
           Requeue(rows), UNCHANGED source
    PROVE  QuietTables
<1>1. \A j \in rows : /\ j \in Jobs
                      /\ job[j].state = "RUNNING"
                      /\ job'[j] = [job[j] EXCEPT !.state = "QUEUED", !.worker = NoWorker]
  BY DEF Requeue
<1>2. \A j \in Jobs \ rows : job'[j] = job[j]
  BY DEF Requeue
<1>3. ASSUME NEW j \in rows
      PROVE  job'[j].state = "QUEUED" /\ job'[j].attempts = job[j].attempts
  <2>1. job[j] \in [state : JobStates, attempts : Nat, worker : Workers \cup {NoWorker}]
    BY <1>1 DEF TypeOK, TablesOK
  <2>. QED  BY <1>1, <2>1
<1>. QED  BY <1>1, <1>2, <1>3 DEF FenceInv, QuietTables

LEMMA InsertQuiet ==
    ASSUME TypeOK, FenceInv, NEW rows \in SUBSET Jobs, Insert(Missing(rows)), UNCHANGED source
    PROVE  QuietTables
BY DEF TypeOK, TablesOK, FenceInv, Insert, Missing, NewJob, QuietTables

LEMMA SameJobsQuiet ==
    ASSUME FenceInv, UNCHANGED <<job, source>>
    PROVE  QuietTables
BY DEF FenceInv, QuietTables

LEMMA ContinueQuiet ==
    ASSUME TypeOK, NEW w \in Workers, pc[w] # "commit", NEW place,
           place # "commit", Continue(w, place)
    PROVE  QuietLoop(w)
BY DEF TypeOK, LoopOK, Continue, QuietLoop

LEMMA GoOnQuiet ==
    ASSUME TypeOK, NEW w \in Workers, NEW rest \in SUBSET batch[w],
           pc[w] = "commit" => rest = {}, GoOn(w, rest)
    PROVE  QuietLoop(w)
BY DEF TypeOK, LoopOK, GoOn, QuietLoop

LEMMA ThrowQuiet ==
    ASSUME TypeOK, NEW w \in Workers, pc[w] # "commit", Throw(w)
    PROVE  QuietLoop(w)
BY ContinueQuiet DEF Throw

LEMMA TickErrorQuiet ==
    ASSUME TypeOK, NEW w \in Workers, TickError(w)
    PROVE  QuietLoop(w)
BY GoOnQuiet DEF TickError

LEMMA NextRowQuiet ==
    ASSUME TypeOK, NEW w \in Workers, NEW r \in batch[w], pc[w] # "commit", NextRow(w, r)
    PROVE  QuietLoop(w)
BY GoOnQuiet DEF NextRow

LEMMA FenceWorld ==
    ASSUME TypeOK, FenceInv, NEW j \in Jobs,
           Submit(j) \/ Enqueue(j) \/ Erase(j) \/ RowAges(j)
    PROVE  FenceInv'
<1>1. CASE Submit(j)
  BY <1>1, QuietStep DEF Submit, TypeOK, TablesOK, FenceInv, Quiet
<1>2. CASE Enqueue(j)
  BY <1>2, QuietStep DEF Enqueue, NewJob, TypeOK, TablesOK, FenceInv, Quiet
<1>3. CASE Erase(j)
  BY <1>3, QuietStep DEF Erase, TypeOK, TablesOK, FenceInv, Quiet
<1>4. CASE RowAges(j)
  BY <1>4, QuietStep DEF RowAges, TypeOK, TablesOK, FenceInv, Quiet
<1>. QED  BY <1>1, <1>2, <1>3, <1>4

LEMMA FenceProcess ==
    ASSUME TypeOK, FenceInv, NEW w \in Workers, Start(w) \/ Crash(w) \/ Signal(w)
    PROVE  FenceInv'
<1>1. CASE Start(w)
  BY <1>1, QuietStep DEF Start, Dead, TypeOK, LoopOK, FenceInv, Quiet
<1>2. CASE Crash(w)
  BY <1>2, QuietStep DEF Crash, TypeOK, LoopOK, FenceInv, Quiet
<1>3. CASE Signal(w)
  BY <1>3, QuietStep DEF Signal, FenceInv, Quiet
<1>. QED  BY <1>1, <1>2, <1>3

LEMMA FenceShutdown ==
    ASSUME TypeOK, FenceInv, NEW w \in Workers, Shutdown(w)
    PROVE  FenceInv'
<1>1. CASE RequeueOwn(w)
  <2>1. QuietTables
    BY <1>1, RequeueQuiet, SameJobsQuiet DEF RequeueOwn, NoWrite
  <2>. QED  BY <1>1, <2>1, QuietStep DEF RequeueOwn, Quiet, QuietTables
<1>2. CASE ClosePool(w)
  BY <1>2, QuietStep DEF ClosePool, FenceInv, Quiet
<1>3. CASE Exit(w)
  BY <1>3, QuietStep DEF Exit, TypeOK, LoopOK, FenceInv, Quiet
<1>. QED  BY <1>1, <1>2, <1>3 DEF Shutdown

LEMMA FenceExecute ==
    ASSUME TypeOK, FenceInv, NEW w \in Workers, Execute(w)
    PROVE  FenceInv'
<1>. \A r \in batch[w] : r.id \in Jobs /\ job[r.id].state # "ABSENT"
  BY DEF TypeOK, LoopOK, ClaimedRow, FenceInv
<1>1. CASE Lookup(w)
  <2>1. QuietTables
    BY <1>1, SameJobsQuiet DEF Lookup, Statement, NoWrite
  <2>2. QuietLoop(w)
    BY <1>1, ContinueQuiet, TickErrorQuiet DEF Lookup, Statement
  <2>. QED  BY <2>1, <2>2, QuietParts, QuietStep
<1>2. CASE NotFound(w)
  <2>1. QuietTables
    BY <1>2, SetStateQuiet, SameJobsQuiet DEF NotFound, Statement, NoWrite, JobStates, Finished
  <2>2. QuietLoop(w)
    BY <1>2, NextRowQuiet, TickErrorQuiet DEF NotFound, Statement
  <2>. QED  BY <2>1, <2>2, QuietParts, QuietStep
<1>3. CASE UpdateStatus(w)
  <2>1. QuietTables
    BY <1>3, SameJobsQuiet DEF UpdateStatus, Statement, NoWrite, WriteStatus
  <2>2. QuietLoop(w)
    BY <1>3, ContinueQuiet, ThrowQuiet DEF UpdateStatus, Statement
  <2>. QED  BY <2>1, <2>2, QuietParts, QuietStep
<1>4. CASE InsertEvent(w)
  <2>1. QuietTables
    BY <1>4, SameJobsQuiet DEF InsertEvent, Statement, NoWrite, AppendEvent
  <2>2. QuietLoop(w)
    BY <1>4, ContinueQuiet, ThrowQuiet DEF InsertEvent, Statement
  <2>. QED  BY <2>1, <2>2, QuietParts, QuietStep
<1>5. CASE InsertEvidence(w)
  <2>1. QuietTables
    BY <1>5, SameJobsQuiet DEF InsertEvidence, Statement, NoWrite, AppendEvidence
  <2>2. QuietLoop(w)
    BY <1>5, ContinueQuiet, ThrowQuiet DEF InsertEvidence, Statement
  <2>. QED  BY <2>1, <2>2, QuietParts, QuietStep
<1>6. CASE UpsertProject(w)
  <2>1. QuietTables
    BY <1>6, SameJobsQuiet DEF UpsertProject, Statement, NoWrite, WriteProject
  <2>2. QuietLoop(w)
    BY <1>6, ContinueQuiet, ThrowQuiet DEF UpsertProject, Statement
  <2>. QED  BY <2>1, <2>2, QuietParts, QuietStep
<1>7. CASE Succeed(w)
  <2>1. QuietTables
    BY <1>7, SetStateQuiet, SameJobsQuiet DEF Succeed, Statement, NoWrite, JobStates, Finished
  <2>2. QuietLoop(w)
    BY <1>7, NextRowQuiet, ThrowQuiet DEF Succeed, Statement
  <2>. QED  BY <2>1, <2>2, QuietParts, QuietStep
<1>8. CASE Catch(w)
  <2>1. QuietTables
    BY <1>8, SetStateQuiet, SameJobsQuiet DEF Catch, Statement, NoWrite, AfterError, JobStates, Finished
  <2>2. QuietLoop(w)
    BY <1>8, NextRowQuiet, TickErrorQuiet DEF Catch, Statement
  <2>. QED  BY <2>1, <2>2, QuietParts, QuietStep
<1>9. CASE Observe(w)
  <2>1. QuietTables
    BY <1>9, SameJobsQuiet DEF Observe, NoWrite
  <2>2. QuietLoop(w)
    BY <1>9, ContinueQuiet DEF Observe
  <2>. QED  BY <2>1, <2>2, QuietParts, QuietStep
<1>10. CASE SucceedOrder(w)
  <2>1. QuietTables
    BY <1>10, SetStateQuiet, SameJobsQuiet DEF SucceedOrder, Statement, NoWrite, JobStates, Finished
  <2>2. QuietLoop(w)
    BY <1>10, NextRowQuiet, TickErrorQuiet DEF SucceedOrder, Statement
  <2>. QED  BY <2>1, <2>2, QuietParts, QuietStep
<1>. QED
  BY <1>1, <1>2, <1>3, <1>4, <1>5, <1>6, <1>7, <1>8, <1>9, <1>10 DEF Execute

\* A claim takes rows that no other claim in flight has, under a number that
\* no earlier claim of theirs had.
LEMMA FenceBeginClaim ==
    ASSUME TypeOK, FenceInv, NEW w \in Workers, BeginClaim(w)
    PROVE  FenceInv'
<1>1. PICK rows \in SUBSET Claimable :
        /\ batch' = [batch EXCEPT ![w] =
                       {[id |-> j, attempts |-> job[j].attempts + 1] : j \in rows}]
        /\ pc' = [pc EXCEPT ![w] = "commit"]
  BY DEF BeginClaim
<1>2. /\ UNCHANGED <<source, job>>
      /\ pc[w] = "claim"
  BY DEF BeginClaim
<1>3. \A r \in batch'[w] : /\ r.id \in rows
                           /\ r.attempts = job[r.id].attempts + 1
  BY <1>1 DEF TypeOK, LoopOK
<1>4. \A v \in Workers \ {w} : batch'[v] = batch[v] /\ pc'[v] = pc[v]
  BY <1>1 DEF TypeOK, LoopOK
<1>5. pc'[w] = "commit"
  BY <1>1 DEF TypeOK, LoopOK
<1>6. \A j \in rows : /\ j \in Jobs
                      /\ job[j].state = "QUEUED"
                      /\ job[j].attempts + 1 <= MaxAttempts
                      /\ job[j].attempts \in Nat
  BY ConstantsAssumption DEF Claimable, TypeOK, TablesOK
<1>7. \A v \in Workers \ {w} : \A q \in batch[v] :
         q.id \in rows => q.attempts <= job[q.id].attempts
  <2>. SUFFICES ASSUME NEW v \in Workers \ {w}, NEW q \in batch[v], q.id \in rows
                PROVE  pc[v] # "commit"
    BY DEF FenceInv, AttemptFence
  <2>. QED  BY DEF Claimable, Locked
<1>8. ASSUME NEW u \in Workers, NEW v \in Workers, NEW q \in batch'[u], NEW r \in batch'[v]
      PROVE  /\ pc'[u] # "commit" => q.attempts <= job'[q.id].attempts
             /\ q = r => u = v
  <2>1. CASE u = w
    BY <1>2, <1>3, <1>4, <1>5, <1>6, <1>7, <2>1
  <2>2. CASE u # w /\ v = w
    BY <1>2, <1>3, <1>4, <1>6, <1>7, <2>2 DEF FenceInv, AttemptFence
  <2>3. CASE u # w /\ v # w
    BY <1>2, <1>4, <2>3 DEF FenceInv, AttemptFence
  <2>. QED  BY <2>1, <2>2, <2>3
<1>9. AttemptFence'
  BY <1>8 DEF AttemptFence
<1>10. ASSUME NEW v \in Workers, NEW r \in batch'[v]
       PROVE  /\ job'[r.id].state # "ABSENT"
              /\ pc'[v] = "commit" => /\ r.attempts = job'[r.id].attempts + 1
                                      /\ r.attempts <= MaxAttempts
  <2>1. CASE v = w
    BY <1>2, <1>3, <1>6, <2>1
  <2>2. CASE v # w
    BY <1>2, <1>4, <2>2 DEF FenceInv
  <2>. QED  BY <2>1, <2>2
<1>. QED  BY <1>2, <1>9, <1>10 DEF FenceInv

\* The commit makes the row count the attempt its claim was given.
LEMMA FenceCommitClaim ==
    ASSUME TypeOK, FenceInv, NEW w \in Workers, CommitClaim(w)
    PROVE  FenceInv'
<1>. pc[w] = "commit" /\ UNCHANGED source
  BY DEF CommitClaim, Statement
<1>1. CASE NoWrite /\ TickError(w)
  <2>1. QuietTables
    BY <1>1, SameJobsQuiet DEF NoWrite
  <2>2. QuietLoop(w)
    BY <1>1, TickErrorQuiet
  <2>. QED  BY <2>1, <2>2, QuietParts, QuietStep
<1>2. CASE TakeRows(w) /\ (GoOn(w, batch[w]) \/ TickError(w))
  <2>1. /\ batch'[w] \subseteq batch[w]
        /\ pc'[w] # "commit"
        /\ \A v \in Workers \ {w} : batch'[v] = batch[v] /\ pc'[v] = pc[v]
    BY <1>2 DEF GoOn, TickError, TypeOK, LoopOK
  <2>2. \A j \in Jobs :
           \/ /\ \A r \in batch[w] : r.id # j
              /\ job'[j] = job[j]
           \/ \E r \in batch[w] : /\ r.id = j
                                  /\ job'[j].state = "RUNNING"
                                  /\ job'[j].attempts = job[j].attempts + 1
    BY <1>2 DEF TakeRows
  <2>3. \A v \in Workers : \A r \in batch[v] : r.id \in Jobs /\ r.attempts \in Nat
    BY DEF TypeOK, LoopOK, ClaimedRow
  <2>4. \A j \in Jobs : job[j].attempts \in Nat
    BY DEF TypeOK, TablesOK
  <2>5. \A v \in Workers \ {w} : \A q \in batch[v], r \in batch[w] :
           pc[v] = "commit" => q.id # r.id
    <3>. SUFFICES ASSUME NEW v \in Workers \ {w}, NEW q \in batch[v], NEW r \in batch[w],
                         pc[v] = "commit", q.id = r.id
                  PROVE  FALSE
      OBVIOUS
    <3>1. q.attempts = r.attempts
      BY DEF FenceInv
    <3>2. q = r
      BY <3>1 DEF TypeOK, LoopOK, ClaimedRow
    <3>. QED  BY <3>2 DEF FenceInv, AttemptFence
  <2>6. ASSUME NEW u \in Workers, NEW v \in Workers, NEW q \in batch'[u], NEW r \in batch'[v]
        PROVE  /\ pc'[u] # "commit" => q.attempts <= job'[q.id].attempts
               /\ q = r => u = v
    <3>1. q \in batch[u] /\ r \in batch[v]
      BY <2>1
    <3>2. q = r => u = v
      BY <3>1 DEF FenceInv, AttemptFence
    <3>3. ASSUME pc'[u] # "commit"
          PROVE  q.attempts <= job'[q.id].attempts
      <4>1. CASE u = w
        BY <2>2, <2>3, <2>4, <3>1, <4>1 DEF FenceInv
      <4>2. CASE u # w
        <5>1. q.attempts <= job[q.id].attempts
          BY <2>1, <3>1, <3>3, <4>2 DEF FenceInv, AttemptFence
        <5>. QED  BY <2>2, <2>3, <2>4, <3>1, <5>1
      <4>. QED  BY <4>1, <4>2
    <3>. QED  BY <3>2, <3>3
  <2>7. AttemptFence'
    BY <2>6 DEF AttemptFence
  <2>8. ASSUME NEW v \in Workers, NEW r \in batch'[v]
        PROVE  /\ job'[r.id].state # "ABSENT"
               /\ pc'[v] = "commit" => /\ r.attempts = job'[r.id].attempts + 1
                                       /\ r.attempts <= MaxAttempts
    <3>1. r \in batch[v]
      BY <2>1
    <3>2. job'[r.id].state # "ABSENT"
      BY <2>2, <2>3, <3>1 DEF FenceInv
    <3>3. ASSUME pc'[v] = "commit"
          PROVE  r.attempts = job'[r.id].attempts + 1 /\ r.attempts <= MaxAttempts
      <4>1. v # w /\ pc[v] = "commit"
        BY <2>1, <3>3
      <4>2. job'[r.id] = job[r.id]
        BY <2>2, <2>3, <2>5, <3>1, <4>1
      <4>. QED  BY <3>1, <4>1, <4>2 DEF FenceInv
    <3>. QED  BY <3>2, <3>3
  <2>9. ASSUME NEW j \in Jobs
        PROVE  /\ job'[j].attempts <= MaxAttempts
               /\ job'[j].state = "ABSENT" => job'[j].attempts = 0
               /\ source'[j] = "none" => job'[j].state = "ABSENT"
    BY <2>2, <2>9 DEF FenceInv
  <2>. QED  BY <2>7, <2>8, <2>9 DEF FenceInv
<1>. QED  BY <1>1, <1>2 DEF CommitClaim, Statement

LEMMA FenceTick ==
    ASSUME TypeOK, FenceInv, NEW w \in Workers, Tick(w)
    PROVE  FenceInv'
<1>1. CASE Reclaim(w)
  <2>1. QuietTables
    BY <1>1, RequeueQuiet, SameJobsQuiet DEF Reclaim, Statement, NoWrite, TypeOK, TablesOK
  <2>2. QuietLoop(w)
    BY <1>1, ContinueQuiet, TickErrorQuiet DEF Reclaim, Statement
  <2>. QED  BY <2>1, <2>2, QuietParts, QuietStep
<1>2. CASE IngestRequests(w)
  <2>1. QuietTables
    BY <1>2, InsertQuiet, ConstantsAssumption, SameJobsQuiet DEF IngestRequests, Statement, NoWrite
  <2>2. QuietLoop(w)
    BY <1>2, ContinueQuiet, TickErrorQuiet DEF IngestRequests, Statement
  <2>. QED  BY <2>1, <2>2, QuietParts, QuietStep
<1>3. CASE IngestOrders(w)
  <2>1. QuietTables
    BY <1>3, InsertQuiet, ConstantsAssumption, SameJobsQuiet DEF IngestOrders, Statement, NoWrite
  <2>2. QuietLoop(w)
    BY <1>3, ContinueQuiet, TickErrorQuiet DEF IngestOrders, Statement
  <2>. QED  BY <2>1, <2>2, QuietParts, QuietStep
<1>4. CASE ClaimNothing(w)
  <2>1. QuietTables
    BY <1>4, SameJobsQuiet DEF ClaimNothing
  <2>2. QuietLoop(w)
    BY <1>4, GoOnQuiet DEF ClaimNothing
  <2>. QED  BY <2>1, <2>2, QuietParts, QuietStep
<1>. QED
  BY <1>1, <1>2, <1>3, <1>4, FenceBeginClaim, FenceCommitClaim DEF Tick

LEMMA FenceStutter == FenceInv /\ UNCHANGED vars => FenceInv'
BY DEF vars, FenceInv, AttemptFence

LEMMA FenceStep == TypeOK /\ FenceInv /\ [Next]_vars => FenceInv'
BY FenceWorld, FenceProcess, FenceTick, FenceExecute, FenceShutdown, FenceStutter DEF Next

THEOREM FenceInvariant == Spec => []FenceInv
BY TypeInit, TypeStep, FenceInit, FenceStep, PTL DEF Spec

\* Two claims of one job never carry the same attempt number, for any number
\* of processes and under every mishap of the model.
THEOREM Fenced == Spec => []AttemptFence
<1>1. FenceInv => AttemptFence
  BY DEF FenceInv
<1>. QED  BY <1>1, FenceInvariant, PTL

-----------------------------------------------------------------------------
(***************************************************************************)
(* While nobody is slow, signalled or misled by a lost answer, a row that  *)
(* is in somebody's hands is that process's alone, and the table lives the *)
(* life of JobLifecycle: for any number of processes and jobs, any bounds, *)
(* crashes, rejected statements and deletions.                             *)
(*                                                                         *)
(* The fence above says that claims in flight have disjoint rows; what has *)
(* to be added is where a row is while it is claimed.                      *)
(***************************************************************************)

Calm == Faults \cap {"slow", "sigterm", "lostAnswer"} = {}

\* Nothing of a row is known before it is created.
AbsentIsBlank == \A j \in Jobs : job[j].state = "ABSENT" => job[j] = Table!Absent

\* A claim in flight is of queued rows, and no row in a process's hands is due
\* for a reclaim.
ClaimsAreQueued ==
    \A w \in Workers : pc[w] = "commit" => \A r \in batch[w] : job[r.id].state = "QUEUED"
HeldIsFresh ==
    \A w \in Workers : pc[w] # "commit" => \A r \in batch[w] : r.id \notin stale
NobodySignalled == \A w \in Workers : phase[w] = "up"

OwnInv ==
    /\ HolderOwnsRow
    /\ ClaimsAreQueued
    /\ HeldIsFresh
    /\ AbsentIsBlank
    /\ NobodySignalled

LEMMA OwnInit == Init => OwnInv
BY DEF Init, OwnInv, HolderOwnsRow, ClaimsAreQueued, HeldIsFresh, AbsentIsBlank,
       NobodySignalled, Table!Absent

-----------------------------------------------------------------------------
(* Steps that add no row to a batch and write no row of one.               *)

\* Batches only shrink, and a claim in flight that ends so is dropped.
QuietBatches ==
    /\ \A v \in Workers : batch'[v] \subseteq batch[v]
    /\ \A v \in Workers : pc'[v] = "commit" => pc[v] = "commit"
    /\ \A v \in Workers : pc[v] = "commit" /\ pc'[v] # "commit" => batch'[v] = {}

\* The rows that stay in a batch are not written.
Spares == \A v \in Workers : \A r \in batch'[v] : job'[r.id] = job[r.id]

LEMMA LoopIsQuiet ==
    ASSUME NEW w \in Workers, QuietLoop(w)
    PROVE  QuietBatches
BY DEF QuietLoop, QuietBatches

LEMMA SparingStep ==
    ASSUME OwnInv, QuietBatches, Spares, UNCHANGED phase, AbsentIsBlank',
           \A v \in Workers : pc[v] # "commit" =>
               \A r \in batch[v] : r.id \in stale' => r.id \in stale
    PROVE  OwnInv'
<1>1. HolderOwnsRow'
  BY DEF OwnInv, HolderOwnsRow, QuietBatches, Spares
<1>2. ClaimsAreQueued'
  BY DEF OwnInv, ClaimsAreQueued, QuietBatches, Spares
<1>3. HeldIsFresh'
  BY DEF OwnInv, HeldIsFresh, QuietBatches
<1>. QED  BY <1>1, <1>2, <1>3 DEF OwnInv, NobodySignalled

\* What the table says of a row that a process holds.
LEMMA HeldRow ==
    ASSUME OwnInv, NEW w \in Workers, pc[w] # "commit", NEW r \in batch[w]
    PROVE  /\ job[r.id].state = "RUNNING"
           /\ job[r.id].attempts = r.attempts
           /\ job[r.id].worker = w
<1>1. job[r.id] = [state |-> "RUNNING", attempts |-> r.attempts, worker |-> w]
  BY Zenon DEF OwnInv, HolderOwnsRow
<1>. QED  BY <1>1

\* A process holds a row once, and what it holds nobody else holds or claims.
LEMMA HeldOnce ==
    ASSUME TypeOK, OwnInv, NEW w \in Workers, pc[w] # "commit", NEW r \in batch[w],
           NEW v \in Workers, NEW q \in batch[v], q.id = r.id
    PROVE  v = w /\ q = r
<1>1. job[r.id].state = "RUNNING" /\ job[r.id].worker = w /\ job[r.id].attempts = r.attempts
  BY HeldRow
<1>2. pc[v] # "commit"
  BY <1>1 DEF OwnInv, ClaimsAreQueued
<1>3. job[q.id].worker = v /\ job[q.id].attempts = q.attempts
  BY <1>2, HeldRow
<1>4. v = w /\ q.attempts = r.attempts
  BY <1>1, <1>3
<1>5. q = r
  BY <1>4 DEF TypeOK, LoopOK, ClaimedRow
<1>. QED  BY <1>4, <1>5

\* What a write leaves of the table.
LEMMA NothingWritten ==
    ASSUME OwnInv, QuietBatches, UNCHANGED <<phase, job>>, stale' \subseteq stale
    PROVE  OwnInv' /\ UNCHANGED job
BY SparingStep DEF Spares, OwnInv, AbsentIsBlank

\* The process writes the outcome of a row it holds and goes on without it.
LEMMA OutcomeWritten ==
    ASSUME TypeOK, OwnInv, NEW w \in Workers, pc[w] # "commit", NEW r \in batch[w],
           NEW state \in JobStates \ {"ABSENT"}, SetState(r.id, state), NextRow(w, r),
           UNCHANGED phase
    PROVE  /\ OwnInv'
           /\ job[r.id].state = "RUNNING"
           /\ job[r.id].attempts = r.attempts
           /\ job'[r.id] = [job[r.id] EXCEPT !.state = state]
           /\ \A j \in Jobs \ {r.id} : job'[j] = job[j]
<1>1. r.id \in Jobs
  BY DEF TypeOK, LoopOK, ClaimedRow
<1>2. /\ job'[r.id] = [job[r.id] EXCEPT !.state = state]
      /\ \A j \in Jobs \ {r.id} : job'[j] = job[j]
  BY <1>1 DEF SetState, TypeOK, TablesOK
<1>3. /\ \A v \in Workers \ {w} : batch'[v] = batch[v]
      /\ batch'[w] = batch[w] \ {r}
  BY DEF NextRow, GoOn, OwnInv, NobodySignalled, Stopping, TypeOK, LoopOK
<1>4. QuietBatches
  BY NextRowQuiet, LoopIsQuiet
<1>5. Spares
  <2>. SUFFICES ASSUME NEW v \in Workers, NEW q \in batch'[v]
                PROVE  job'[q.id] = job[q.id]
    BY DEF Spares
  <2>1. q \in batch[v] /\ q.id \in Jobs
    BY <1>4 DEF QuietBatches, TypeOK, LoopOK, ClaimedRow
  <2>2. q.id # r.id
    BY <1>3, <2>1, HeldOnce
  <2>. QED  BY <1>2, <2>1, <2>2
<1>6. AbsentIsBlank'
  <2>1. job'[r.id].state # "ABSENT"
    BY <1>1, <1>2 DEF TypeOK, TablesOK
  <2>. QED  BY <1>2, <2>1 DEF OwnInv, AbsentIsBlank
<1>7. stale' \subseteq stale
  BY DEF SetState
<1>8. OwnInv'
  BY <1>4, <1>5, <1>6, <1>7, SparingStep
<1>9. job[r.id].state = "RUNNING" /\ job[r.id].attempts = r.attempts
  BY HeldRow
<1>. QED  BY <1>2, <1>8, <1>9

-----------------------------------------------------------------------------
(* One lemma per group of actions: ownership is kept, and every row of the *)
(* table makes a step of its life or stays.                                *)

Lives == \A j \in Jobs : Table!Step(j) \/ job'[j] = job[j]

LEMMA SameTableLives == UNCHANGED job => Lives
BY DEF Lives

LEMMA NoLostAnswer == Calm => ~Mishap("lostAnswer") /\ ~Mishap("sigterm")
BY DEF Calm, Mishap

LEMMA OwnWorld ==
    ASSUME Calm, TypeOK, FenceInv, OwnInv, NEW j \in Jobs,
           Submit(j) \/ Enqueue(j) \/ Erase(j) \/ RowAges(j)
    PROVE  OwnInv' /\ Lives
<1>1. CASE Submit(j) \/ Erase(j)
  <2>1. QuietBatches /\ UNCHANGED <<phase, job>> /\ stale' \subseteq stale
    BY <1>1 DEF Submit, Erase, QuietBatches
  <2>. QED  BY <2>1, NothingWritten, SameTableLives
<1>2. CASE Enqueue(j)
  <2>1. job[j].state = "ABSENT"
    BY <1>2 DEF Enqueue, FenceInv
  <2>2. job' = [job EXCEPT ![j] = NewJob] /\ UNCHANGED <<pc, batch, stale, phase>>
    BY <1>2 DEF Enqueue
  <2>3. job'[j] = NewJob /\ \A k \in Jobs \ {j} : job'[k] = job[k]
    BY <2>2 DEF TypeOK, TablesOK
  <2>4. \A v \in Workers : \A r \in batch[v] : r.id \in Jobs /\ r.id # j
    BY <2>1 DEF TypeOK, LoopOK, ClaimedRow, FenceInv
  <2>5. QuietBatches /\ Spares
    BY <2>2, <2>3, <2>4 DEF QuietBatches, Spares
  <2>6. AbsentIsBlank'
    BY <2>3 DEF OwnInv, AbsentIsBlank, NewJob
  <2>7. OwnInv'
    BY <2>2, <2>5, <2>6, SparingStep
  <2>8. Table!Create(j)
    BY <2>1, <2>3 DEF OwnInv, AbsentIsBlank, Table!Create, Table!Absent, NewJob
  <2>. QED  BY <2>3, <2>7, <2>8 DEF Lives, Table!Step
<1>3. CASE RowAges(j)
  <2>1. UNCHANGED <<job, pc, batch, phase>> /\ stale' = stale \cup {j}
    BY <1>3 DEF RowAges
  <2>2. \A w \in Workers : ~Holds(w, j)
    BY <1>3 DEF RowAges, Calm
  <2>3. \A v \in Workers : pc[v] # "commit" =>
           \A r \in batch[v] : r.id \in stale' => r.id \in stale
    BY <2>1, <2>2 DEF Holds
  <2>4. QuietBatches /\ Spares /\ AbsentIsBlank'
    BY <2>1 DEF QuietBatches, Spares, OwnInv, AbsentIsBlank
  <2>5. OwnInv'
    BY <2>1, <2>3, <2>4, SparingStep
  <2>. QED  BY <2>1, <2>5, SameTableLives
<1>. QED  BY <1>1, <1>2, <1>3

LEMMA OwnProcess ==
    ASSUME Calm, TypeOK, OwnInv, NEW w \in Workers, Start(w) \/ Crash(w) \/ Signal(w)
    PROVE  OwnInv' /\ Lives
<1>1. CASE Start(w)
  <2>1. QuietBatches /\ UNCHANGED job /\ stale' \subseteq stale
    BY <1>1 DEF Start, Dead, TypeOK, LoopOK, QuietBatches
  <2>2. UNCHANGED phase
    BY <1>1 DEF Start, OwnInv, NobodySignalled, TypeOK, SignalsOK
  <2>. QED  BY <2>1, <2>2, NothingWritten, SameTableLives
<1>2. CASE Crash(w)
  <2>1. QuietBatches /\ UNCHANGED <<phase, job>> /\ stale' \subseteq stale
    BY <1>2 DEF Crash, TypeOK, LoopOK, QuietBatches
  <2>. QED  BY <2>1, NothingWritten, SameTableLives
<1>3. CASE Signal(w)
  BY <1>3, NoLostAnswer DEF Signal
<1>. QED  BY <1>1, <1>2, <1>3

LEMMA OwnShutdown ==
    ASSUME OwnInv, NEW w \in Workers
    PROVE  ~Shutdown(w)
BY DEF OwnInv, NobodySignalled, Shutdown, RequeueOwn, ClosePool, Exit

-----------------------------------------------------------------------------
(* The head of a tick.                                                     *)

LEMMA OwnReclaim ==
    ASSUME Calm, TypeOK, OwnInv, NEW w \in Workers, Reclaim(w)
    PROVE  OwnInv' /\ Lives
<1>1. QuietBatches
  BY ContinueQuiet, TickErrorQuiet, LoopIsQuiet DEF Reclaim, Statement
<1>2. UNCHANGED phase
  BY DEF Reclaim, Statement
<1>3. CASE NoWrite
  <2>1. UNCHANGED <<phase, job>> /\ stale' \subseteq stale
    BY <1>2, <1>3 DEF NoWrite
  <2>. QED  BY <1>1, <2>1, NothingWritten, SameTableLives
<1>4. CASE Requeue({j \in stale : job[j].state = "RUNNING"})
  <2>. DEFINE due == {j \in stale : job[j].state = "RUNNING"}
  <2>1. /\ \A j \in Jobs \ due : job'[j] = job[j]
        /\ \A j \in Jobs \cap due : job'[j] = [job[j] EXCEPT !.state = "QUEUED", !.worker = NoWorker]
        /\ stale' \subseteq stale
    BY <1>4 DEF Requeue
  <2>2. \A v \in Workers : \A r \in batch[v] : r.id \in Jobs /\ r.id \notin due
    BY DEF OwnInv, ClaimsAreQueued, HeldIsFresh, TypeOK, LoopOK, ClaimedRow
  <2>3. Spares
    BY <1>1, <2>1, <2>2 DEF QuietBatches, Spares
  <2>4. \A j \in Jobs \cap due : job'[j].state = "QUEUED" /\ Table!Requeue(j)
    <3>. SUFFICES ASSUME NEW j \in Jobs \cap due
                  PROVE  job'[j].state = "QUEUED" /\ Table!Requeue(j)
      OBVIOUS
    <3>1. job[j] \in [state : JobStates, attempts : Nat, worker : Workers \cup {NoWorker}]
      BY DEF TypeOK, TablesOK
    <3>2. job'[j].state = "QUEUED"
      BY <2>1, <3>1
    <3>. QED  BY <2>1, <3>2 DEF Table!Requeue
  <2>5. AbsentIsBlank'
    BY <2>1, <2>4 DEF OwnInv, AbsentIsBlank
  <2>6. OwnInv'
    BY <1>1, <1>2, <2>1, <2>3, <2>5, SparingStep
  <2>. QED  BY <2>1, <2>4, <2>6 DEF Lives, Table!Step
<1>. QED  BY <1>3, <1>4 DEF Reclaim, Statement

LEMMA InsertOwn ==
    ASSUME TypeOK, FenceInv, OwnInv, NEW rows \in SUBSET Jobs, Insert(Missing(rows)),
           QuietBatches, UNCHANGED phase
    PROVE  OwnInv' /\ Lives
<1>1. /\ \A j \in Jobs \ Missing(rows) : job'[j] = job[j]
      /\ \A j \in Missing(rows) : j \in Jobs /\ job[j].state = "ABSENT" /\ job'[j] = NewJob
      /\ UNCHANGED stale
  BY DEF Insert, Missing
<1>2. \A v \in Workers : \A r \in batch[v] : r.id \in Jobs /\ r.id \notin Missing(rows)
  BY <1>1 DEF TypeOK, LoopOK, ClaimedRow, FenceInv
<1>3. Spares
  BY <1>1, <1>2 DEF QuietBatches, Spares
<1>4. AbsentIsBlank'
  BY <1>1 DEF OwnInv, AbsentIsBlank, NewJob
<1>5. OwnInv'
  BY <1>1, <1>3, <1>4, SparingStep
<1>6. \A j \in Missing(rows) : Table!Create(j)
  BY <1>1 DEF OwnInv, AbsentIsBlank, Table!Create, Table!Absent, NewJob
<1>. QED  BY <1>1, <1>5, <1>6 DEF Lives, Table!Step

LEMMA OwnIngest ==
    ASSUME Calm, TypeOK, FenceInv, OwnInv, NEW w \in Workers,
           IngestRequests(w) \/ IngestOrders(w)
    PROVE  OwnInv' /\ Lives
<1>1. QuietBatches
  BY ContinueQuiet, TickErrorQuiet, LoopIsQuiet DEF IngestRequests, IngestOrders, Statement
<1>2. UNCHANGED phase
  BY DEF IngestRequests, IngestOrders, Statement
<1>3. CASE NoWrite
  <2>1. UNCHANGED <<phase, job>> /\ stale' \subseteq stale
    BY <1>2, <1>3 DEF NoWrite
  <2>. QED  BY <1>1, <2>1, NothingWritten, SameTableLives
<1>4. CASE \E rows \in SUBSET Jobs : Insert(Missing(rows))
  BY <1>1, <1>2, <1>4, InsertOwn
<1>. QED  BY <1>3, <1>4, ConstantsAssumption DEF IngestRequests, IngestOrders, Statement

\* What the others hold or claim is not among the rows queued for a claim.
LEMMA OwnBeginClaim ==
    ASSUME TypeOK, OwnInv, NEW w \in Workers, BeginClaim(w)
    PROVE  OwnInv' /\ Lives
<1>1. PICK rows \in SUBSET Claimable :
        /\ batch' = [batch EXCEPT ![w] =
                       {[id |-> j, attempts |-> job[j].attempts + 1] : j \in rows}]
        /\ pc' = [pc EXCEPT ![w] = "commit"]
  BY DEF BeginClaim
<1>2. UNCHANGED <<job, stale, phase>>
  BY DEF BeginClaim
<1>3. pc'[w] = "commit" /\ \A r \in batch'[w] : job[r.id].state = "QUEUED"
  BY <1>1 DEF TypeOK, LoopOK, Claimable
<1>4. \A v \in Workers \ {w} : batch'[v] = batch[v] /\ pc'[v] = pc[v]
  BY <1>1 DEF TypeOK, LoopOK
<1>5. HolderOwnsRow'
  BY <1>2, <1>3, <1>4 DEF OwnInv, HolderOwnsRow
<1>6. ClaimsAreQueued' /\ HeldIsFresh'
  BY <1>2, <1>3, <1>4 DEF OwnInv, ClaimsAreQueued, HeldIsFresh
<1>7. AbsentIsBlank' /\ NobodySignalled'
  BY <1>2 DEF OwnInv, AbsentIsBlank, NobodySignalled
<1>. QED  BY <1>2, <1>5, <1>6, <1>7, SameTableLives DEF OwnInv

LEMMA OwnClaimNothing ==
    ASSUME TypeOK, OwnInv, NEW w \in Workers, ClaimNothing(w)
    PROVE  OwnInv' /\ Lives
<1>1. QuietBatches
  BY GoOnQuiet, LoopIsQuiet DEF ClaimNothing
<1>2. UNCHANGED <<phase, job>> /\ stale' \subseteq stale
  BY DEF ClaimNothing
<1>. QED  BY <1>1, <1>2, NothingWritten, SameTableLives

\* The rows of a claim in flight are nobody else's, so that the commit makes
\* them the process's own.
LEMMA OwnCommitClaim ==
    ASSUME Calm, TypeOK, FenceInv, OwnInv, NEW w \in Workers, CommitClaim(w)
    PROVE  OwnInv' /\ Lives
<1>. pc[w] = "commit" /\ UNCHANGED phase
  BY DEF CommitClaim, Statement
<1>1. CASE NoWrite /\ TickError(w)
  <2>1. QuietBatches
    BY <1>1, TickErrorQuiet, LoopIsQuiet
  <2>2. UNCHANGED <<phase, job>> /\ stale' \subseteq stale
    BY <1>1 DEF NoWrite
  <2>. QED  BY <2>1, <2>2, NothingWritten, SameTableLives
<1>2. CASE TakeRows(w) /\ GoOn(w, batch[w])
  <2>1. /\ batch' = batch
        /\ pc'[w] # "commit"
        /\ \A v \in Workers \ {w} : pc'[v] = pc[v]
    BY <1>2 DEF GoOn, OwnInv, NobodySignalled, Stopping, TypeOK, LoopOK
  <2>2. \A v \in Workers : \A r \in batch[v] :
           r.id \in Jobs /\ r = [id |-> r.id, attempts |-> r.attempts]
    BY DEF TypeOK, LoopOK, ClaimedRow
  <2>3. \A j \in Jobs :
           IF \E r \in batch[w] : r.id = j
           THEN job'[j] = [state |-> "RUNNING", attempts |-> job[j].attempts + 1, worker |-> w]
           ELSE job'[j] = job[j]
    BY <1>2 DEF TakeRows
  <2>4. \A r \in batch[w] : /\ job[r.id].state = "QUEUED"
                            /\ r.attempts = job[r.id].attempts + 1
    BY DEF OwnInv, ClaimsAreQueued, FenceInv
  <2>5. ASSUME NEW v \in Workers \ {w}, NEW q \in batch[v], NEW r \in batch[w]
        PROVE  q.id # r.id
    <3>. SUFFICES ASSUME q.id = r.id
                  PROVE  FALSE
      OBVIOUS
    <3>1. pc[v] = "commit"
      BY <2>4, HeldRow
    <3>2. q.attempts = r.attempts
      BY <3>1 DEF FenceInv
    <3>3. q = r
      BY <2>2, <3>2
    <3>. QED  BY <3>3 DEF FenceInv, AttemptFence
  <2>6. \A r \in batch[w] :
           job'[r.id] = [state |-> "RUNNING", attempts |-> r.attempts, worker |-> w]
    BY <2>2, <2>3, <2>4
  <2>7. \A v \in Workers \ {w} : \A q \in batch[v] : job'[q.id] = job[q.id]
    BY <2>2, <2>3, <2>5
  <2>8. stale' \subseteq stale /\ \A r \in batch[w] : r.id \notin stale'
    BY <1>2 DEF TakeRows
  <2>9. HolderOwnsRow'
    BY <2>1, <2>6, <2>7 DEF OwnInv, HolderOwnsRow
  <2>10. ClaimsAreQueued'
    BY <2>1, <2>7 DEF OwnInv, ClaimsAreQueued
  <2>11. HeldIsFresh'
    BY <2>1, <2>8 DEF OwnInv, HeldIsFresh
  <2>12. AbsentIsBlank'
    <3>1. \A j \in Jobs : job'[j].state = "ABSENT" => job'[j] = job[j]
      <4>. SUFFICES ASSUME NEW j \in Jobs, job'[j] # job[j]
                    PROVE  job'[j].state # "ABSENT"
        OBVIOUS
      <4>1. job'[j] = [state |-> "RUNNING", attempts |-> job[j].attempts + 1, worker |-> w]
        BY <2>3
      <4>. QED  BY <4>1
    <3>. QED  BY <3>1 DEF OwnInv, AbsentIsBlank
  <2>13. OwnInv'
    BY <2>9, <2>10, <2>11, <2>12 DEF OwnInv, NobodySignalled
  <2>14. ASSUME NEW j \in Jobs, NEW r \in batch[w], r.id = j
         PROVE  Table!Claim(j, w)
    BY <2>3, <2>4, <2>14 DEF Table!Claim
  <2>. QED  BY <2>3, <2>13, <2>14 DEF Lives, Table!Step
<1>. QED  BY <1>1, <1>2, NoLostAnswer DEF CommitClaim, Statement

LEMMA OwnTick ==
    ASSUME Calm, TypeOK, FenceInv, OwnInv, NEW w \in Workers, Tick(w)
    PROVE  OwnInv' /\ Lives
BY OwnReclaim, OwnIngest, OwnBeginClaim, OwnClaimNothing, OwnCommitClaim DEF Tick

-----------------------------------------------------------------------------
(* The statements for a row: they write nothing of the table, or the       *)
(* outcome of the row.                                                     *)

LEMMA EffectOwn ==
    ASSUME OwnInv, NEW w \in Workers, QuietLoop(w), UNCHANGED <<job, stale, phase>>
    PROVE  OwnInv' /\ Lives
BY LoopIsQuiet, NothingWritten, SameTableLives

LEMMA OwnEffects ==
    ASSUME TypeOK, OwnInv, NEW w \in Workers,
           \/ Lookup(w) \/ UpdateStatus(w) \/ InsertEvent(w)
           \/ InsertEvidence(w) \/ UpsertProject(w) \/ Observe(w)
    PROVE  OwnInv' /\ Lives
<1>1. CASE Lookup(w)
  BY <1>1, EffectOwn, ContinueQuiet, TickErrorQuiet DEF Lookup, Statement, NoWrite
<1>2. CASE UpdateStatus(w)
  BY <1>2, EffectOwn, ContinueQuiet, ThrowQuiet DEF UpdateStatus, Statement, NoWrite, WriteStatus
<1>3. CASE InsertEvent(w)
  BY <1>3, EffectOwn, ContinueQuiet, ThrowQuiet DEF InsertEvent, Statement, NoWrite, AppendEvent
<1>4. CASE InsertEvidence(w)
  BY <1>4, EffectOwn, ContinueQuiet, ThrowQuiet
     DEF InsertEvidence, Statement, NoWrite, AppendEvidence
<1>5. CASE UpsertProject(w)
  BY <1>5, EffectOwn, ContinueQuiet, ThrowQuiet DEF UpsertProject, Statement, NoWrite, WriteProject
<1>6. CASE Observe(w)
  BY <1>6, EffectOwn, ContinueQuiet DEF Observe, NoWrite
<1>. QED  BY <1>1, <1>2, <1>3, <1>4, <1>5, <1>6

\* The outcomes an execution may write, seen in the table.
LEMMA OutcomeOwn ==
    ASSUME TypeOK, OwnInv, NEW w \in Workers, pc[w] # "commit", NEW r \in batch[w],
           NEW state \in {"SUCCEEDED", "FAILED", AfterError(r)},
           SetState(r.id, state), NextRow(w, r), UNCHANGED phase
    PROVE  OwnInv' /\ Lives
<1>1. state \in JobStates \ {"ABSENT"}
  BY DEF AfterError, JobStates, Finished
<1>2. /\ OwnInv'
      /\ job[r.id].state = "RUNNING"
      /\ job[r.id].attempts = r.attempts
      /\ job'[r.id] = [job[r.id] EXCEPT !.state = state]
      /\ \A j \in Jobs \ {r.id} : job'[j] = job[j]
  BY <1>1, OutcomeWritten
<1>3. CASE state = "SUCCEEDED"
  BY <1>2, <1>3 DEF Lives, Table!Step, Table!Succeed
<1>4. CASE state = "FAILED"
  <2>1. Table!Fail(r.id, FALSE)
    BY <1>2, <1>4 DEF Table!Fail
  <2>. QED  BY <1>2, <2>1 DEF Lives, Table!Step
<1>5. CASE state = AfterError(r)
  <2>1. Table!Fail(r.id, TRUE)
    BY <1>2, <1>5 DEF Table!Fail, AfterError
  <2>. QED  BY <1>2, <2>1 DEF Lives, Table!Step
<1>. QED  BY <1>3, <1>4, <1>5

\* Without a lost answer the outcome is written and the row done with, or
\* nothing is written.
LEMMA OwnOutcomes ==
    ASSUME Calm, TypeOK, OwnInv, NEW w \in Workers,
           NotFound(w) \/ Succeed(w) \/ Catch(w) \/ SucceedOrder(w)
    PROVE  OwnInv' /\ Lives
<1>. pc[w] # "commit" /\ UNCHANGED phase
  BY DEF NotFound, Succeed, Catch, SucceedOrder, Statement
<1>1. CASE NoWrite /\ (TickError(w) \/ Throw(w))
  BY <1>1, EffectOwn, TickErrorQuiet, ThrowQuiet DEF NoWrite
<1>2. CASE \E r \in batch[w] : \E state \in {"SUCCEEDED", "FAILED", AfterError(r)} :
             SetState(r.id, state) /\ NextRow(w, r)
  BY <1>2, OutcomeOwn
<1>. QED
  BY <1>1, <1>2, NoLostAnswer DEF NotFound, Succeed, Catch, SucceedOrder, Statement

LEMMA OwnExecute ==
    ASSUME Calm, TypeOK, OwnInv, NEW w \in Workers, Execute(w)
    PROVE  OwnInv' /\ Lives
BY OwnEffects, OwnOutcomes DEF Execute

LEMMA OwnStutter == OwnInv /\ UNCHANGED vars => OwnInv' /\ Lives
BY DEF vars, OwnInv, HolderOwnsRow, ClaimsAreQueued, HeldIsFresh, AbsentIsBlank,
       NobodySignalled, Lives

LEMMA OwnStep ==
    ASSUME Calm, TypeOK, FenceInv, OwnInv, [Next]_vars
    PROVE  OwnInv' /\ Lives
BY OwnWorld, OwnProcess, OwnShutdown, OwnTick, OwnExecute, OwnStutter DEF Next

-----------------------------------------------------------------------------
(* While nobody is slow, signalled or misled, the row of a job in          *)
(* somebody's hands is RUNNING in the name of that process and counts that *)
(* attempt: the batches of two processes never share a job, and nobody     *)
(* finishes a job for another.                                             *)
THEOREM OwnershipExclusive ==
    ASSUME Calm
    PROVE  Spec => []HolderOwnsRow
<1>1. TypeOK /\ FenceInv /\ OwnInv /\ [Next]_vars => TypeOK' /\ FenceInv' /\ OwnInv'
  BY TypeStep, FenceStep, OwnStep
<1>2. Init => TypeOK /\ FenceInv /\ OwnInv
  BY TypeInit, FenceInit, OwnInit
<1>3. OwnInv => HolderOwnsRow
  BY DEF OwnInv
<1>. QED  BY <1>1, <1>2, <1>3, PTL DEF Spec

\* Under the same conditions the table implements the life cycle of the
\* durable job queue, live/worker.mjs implements
\* scripts/acorn-durable-job-queue.mjs.
THEOREM ImplementsLifecycle ==
    ASSUME Calm
    PROVE  Spec => FollowsLifecycle
<1>1. TypeOK /\ FenceInv /\ OwnInv /\ [Next]_vars => TypeOK' /\ FenceInv' /\ OwnInv'
  BY TypeStep, FenceStep, OwnStep
<1>2. Init => TypeOK /\ FenceInv /\ OwnInv
  BY TypeInit, FenceInit, OwnInit
<1>3. Init => Table!Init
  BY DEF Init, Table!Init, Table!Absent
<1>4. TypeOK /\ TypeOK' /\ FenceInv /\ OwnInv /\ [Next]_vars => [Table!Next]_job
  BY OwnStep DEF Table!Next, Lives, TypeOK, TablesOK
<1>. QED  BY <1>1, <1>2, <1>3, <1>4, PTL DEF Spec, FollowsLifecycle, Table!Spec

-----------------------------------------------------------------------------
(***************************************************************************)
(* What an execution leaves behind is neither too much nor too little, for *)
(* any number of processes and jobs and under every mishap of the model.   *)
(*                                                                         *)
(* Too much: a completion event and an evidence row each use up an attempt *)
(* of the job, one that is in somebody's hands at a place past the INSERT, *)
(* or in nobody's hands any more.  By the fence nobody else works under    *)
(* that number, so an attempt is never used up twice.  Too little: what a  *)
(* place in the program says of the tables stays true, whatever the others *)
(* do, unless the request is erased.                                       *)
(***************************************************************************)

-----------------------------------------------------------------------------
(* The invariant.                                                          *)

\* Where the current row of a process has no completion event yet, and where
\* it has no evidence yet.
BeforeEvent == {"lookup", "status", "event"}
BeforeEvidence == BeforeEvent \cup {"evidence"}

\* The attempts at a job that are in nobody's hands any more, or whose
\* execution has left the places given.
Spent(j, places) ==
    {n \in 1 .. job[j].attempts :
        \A w \in Workers : \A r \in batch[w] :
            pc[w] # "commit" /\ r.id = j /\ r.attempts = n
                => Current(w, r) /\ pc[w] \notin places}

\* Each effect has used up an attempt.
EffectsCounted ==
    \A j \in Jobs : /\ events[j] <= Cardinality(Spent(j, BeforeEvent))
                    /\ evidence[j] <= Cardinality(Spent(j, BeforeEvidence))

\* A batch has a job once, and attempts are counted from 1.
BatchesOK ==
    \A w \in Workers : \A r \in batch[w] :
        /\ r.attempts >= 1
        /\ \A q \in batch[w] : q.id = r.id => q = r

\* What the execution of a row has written when it comes to a place.
WrittenAt(w, r) ==
    /\ pc[w] \in OrderStatements => r.id \notin RequestJobs
    /\ source[r.id] = "present" =>
          /\ pc[w] \in {"event", "evidence", "project", "succeed"} => r.id \in qualified
          /\ pc[w] \in {"evidence", "project", "succeed"} => events[r.id] >= 1
          /\ pc[w] \in {"project", "succeed"} => evidence[r.id] >= 1
          /\ pc[w] = "succeed" => r.id \in projected

WrittenSoFar == \A w \in Workers : \A r \in batch[w] : Current(w, r) => WrittenAt(w, r)

EffectsInv == EffectsCounted /\ BatchesOK /\ WrittenSoFar /\ SucceededHasEffects

LEMMA EffectsInit == Init => EffectsInv
<1>. SUFFICES ASSUME Init
              PROVE  EffectsInv
  OBVIOUS
<1>1. \A j \in Jobs : job[j].attempts = 0 /\ job[j].state = "ABSENT"
                      /\ events[j] = 0 /\ evidence[j] = 0
  BY DEF Init
<1>2. \A w \in Workers : batch[w] = {}
  BY DEF Init
<1>3. ASSUME NEW j \in Jobs, NEW places
      PROVE  Cardinality(Spent(j, places)) = 0
  <2>1. Spent(j, places) = {}
    BY <1>1 DEF Spent
  <2>. QED  BY <2>1, FS_EmptySet
<1>4. EffectsCounted
  BY <1>1, <1>3 DEF EffectsCounted
<1>5. BatchesOK /\ WrittenSoFar
  BY <1>2 DEF BatchesOK, WrittenSoFar
<1>6. SucceededHasEffects
  BY <1>1, ConstantsAssumption DEF SucceededHasEffects
<1>. QED  BY <1>4, <1>5, <1>6 DEF EffectsInv

-----------------------------------------------------------------------------
(* Counting.                                                               *)

LEMMA SpentFinite ==
    ASSUME TypeOK, NEW j \in Jobs, NEW places
    PROVE  IsFiniteSet(Spent(j, places)) /\ Cardinality(Spent(j, places)) \in Nat
<1>1. job[j].attempts \in Nat
  BY DEF TypeOK, TablesOK
<1>2. IsFiniteSet(1 .. job[j].attempts)
  BY <1>1, FS_Interval
<1>3. Spent(j, places) \in SUBSET (1 .. job[j].attempts)
  BY DEF Spent
<1>. QED  BY <1>2, <1>3, FS_Subset, FS_CardinalityType

\* The rows in somebody's hands are new attempts, or they were there before
\* and have not gone back to the places given.
HandsKept(places) ==
    \A v \in Workers : pc'[v] # "commit" =>
        \A r \in batch'[v] :
            \/ r.attempts > job[r.id].attempts
            \/ /\ r \in batch[v]
               /\ pc[v] # "commit"
               /\ Current(v, r) /\ pc[v] \notin places => Current(v, r)' /\ pc'[v] \notin places

LEMMA SpentKept ==
    ASSUME TypeOK, TypeOK', NEW j \in Jobs, NEW places, HandsKept(places),
           job[j].attempts <= job'[j].attempts
    PROVE  /\ Spent(j, places) \subseteq Spent(j, places)'
           /\ Cardinality(Spent(j, places)) <= Cardinality(Spent(j, places)')
           /\ IsFiniteSet(Spent(j, places)') /\ Cardinality(Spent(j, places)') \in Nat
<1>1. job[j].attempts \in Nat /\ job'[j].attempts \in Nat
  BY DEF TypeOK, TablesOK
<1>2. ASSUME NEW n \in Spent(j, places)
      PROVE  n \in Spent(j, places)'
  <2>1. n \in 1 .. job[j].attempts /\ n \in 1 .. job'[j].attempts
    BY <1>1 DEF Spent
  <2>2. ASSUME NEW v \in Workers, NEW r \in batch'[v], pc'[v] # "commit", r.id = j, r.attempts = n
        PROVE  Current(v, r)' /\ pc'[v] \notin places
    <3>1. ~(r.attempts > job[r.id].attempts)
      BY <1>1, <2>1, <2>2
    <3>2. /\ r \in batch[v]
          /\ pc[v] # "commit"
          /\ Current(v, r) /\ pc[v] \notin places => Current(v, r)' /\ pc'[v] \notin places
      BY <2>2, <3>1 DEF HandsKept
    <3>3. Current(v, r) /\ pc[v] \notin places
      BY <2>2, <3>2 DEF Spent
    <3>. QED  BY <3>2, <3>3
  <2>. QED  BY <2>1, <2>2 DEF Spent
<1>3. IsFiniteSet(Spent(j, places)')
  <2>1. IsFiniteSet(1 .. job'[j].attempts)
    BY <1>1, FS_Interval
  <2>2. Spent(j, places)' \in SUBSET (1 .. job'[j].attempts)
    BY DEF Spent
  <2>. QED  BY <2>1, <2>2, FS_Subset
<1>. QED  BY <1>2, <1>3, FS_Subset, FS_CardinalityType

\* An attempt in somebody's hands is not spent before the effect and is after.
LEMMA AttemptSpent ==
    ASSUME TypeOK, TypeOK', FenceInv, BatchesOK, NEW places, HandsKept(places), UNCHANGED job,
           NEW w \in Workers, NEW r \in batch[w], Current(w, r), pc[w] # "commit",
           pc[w] \in places,
           \A v \in Workers \ {w} : batch'[v] = batch[v] /\ pc'[v] = pc[v],
           batch'[w] = {} \/ (batch'[w] = batch[w] /\ pc'[w] \notin places)
    PROVE  Cardinality(Spent(r.id, places)) + 1 <= Cardinality(Spent(r.id, places)')
<1>. DEFINE j == r.id
            n == r.attempts
<1>1. j \in Jobs /\ n \in Nat /\ job[j].attempts \in Nat
  BY DEF TypeOK, TablesOK, LoopOK, ClaimedRow
<1>2. n \in 1 .. job[j].attempts
  BY <1>1 DEF FenceInv, AttemptFence, BatchesOK
<1>3. n \notin Spent(j, places)
  BY DEF Spent
<1>4. n \in Spent(j, places)'
  <2>. SUFFICES ASSUME NEW v \in Workers, NEW q \in batch'[v], pc'[v] # "commit",
                       q.id = j, q.attempts = n
                PROVE  Current(v, q)' /\ pc'[v] \notin places
    BY <1>2 DEF Spent
  <2>1. q \in batch[v]
    OBVIOUS
  <2>2. q = r
    BY <2>1 DEF TypeOK, LoopOK, ClaimedRow
  <2>3. v = w
    BY <2>1, <2>2 DEF FenceInv, AttemptFence
  <2>. QED  BY <2>2, <2>3 DEF Current
<1>5. Spent(j, places) \subseteq Spent(j, places)' /\ IsFiniteSet(Spent(j, places)')
  BY <1>1, SpentKept
<1>6. IsFiniteSet(Spent(j, places)) /\ Cardinality(Spent(j, places)) \in Nat
  BY <1>1, SpentFinite
<1>7. Cardinality(Spent(j, places) \cup {n}) = Cardinality(Spent(j, places)) + 1
  BY <1>3, <1>6, FS_AddElement
<1>8. Spent(j, places) \cup {n} \in SUBSET Spent(j, places)'
  BY <1>4, <1>5
<1>. QED  BY <1>5, <1>7, <1>8, FS_Subset

\* Effects that are not repeated stay counted.
LEMMA CountedKept ==
    ASSUME TypeOK, TypeOK', EffectsCounted, HandsKept(BeforeEvent), HandsKept(BeforeEvidence),
           \A j \in Jobs : /\ job[j].attempts <= job'[j].attempts
                           /\ events'[j] <= events[j]
                           /\ evidence'[j] <= evidence[j]
    PROVE  EffectsCounted'
<1>. SUFFICES ASSUME NEW j \in Jobs
              PROVE  /\ events'[j] <= Cardinality(Spent(j, BeforeEvent)')
                     /\ evidence'[j] <= Cardinality(Spent(j, BeforeEvidence)')
  BY DEF EffectsCounted, BeforeEvent, BeforeEvidence
<1>1. /\ events[j] \in Nat /\ events'[j] \in Nat
      /\ evidence[j] \in Nat /\ evidence'[j] \in Nat
  BY DEF TypeOK, TablesOK
<1>2. /\ Cardinality(Spent(j, BeforeEvent)) \in Nat
      /\ Cardinality(Spent(j, BeforeEvidence)) \in Nat
  BY SpentFinite
<1>3. /\ Cardinality(Spent(j, BeforeEvent)) <= Cardinality(Spent(j, BeforeEvent)')
      /\ Cardinality(Spent(j, BeforeEvent)') \in Nat
  BY SpentKept
<1>4. /\ Cardinality(Spent(j, BeforeEvidence)) <= Cardinality(Spent(j, BeforeEvidence)')
      /\ Cardinality(Spent(j, BeforeEvidence)') \in Nat
  BY SpentKept
<1>5. events[j] <= Cardinality(Spent(j, BeforeEvent))
      /\ evidence[j] <= Cardinality(Spent(j, BeforeEvidence))
  BY DEF EffectsCounted
<1>. QED  BY <1>1, <1>2, <1>3, <1>4, <1>5

-----------------------------------------------------------------------------
(* What a step must respect to keep the invariant.                         *)

Telling == {"event", "evidence", "project", "succeed"} \cup OrderStatements

\* Of a job that exists, effects are not undone unless its request is erased.
EffectsGrow ==
    \A j \in Jobs : source'[j] = "present" /\ job[j].state # "ABSENT" =>
        /\ source[j] = "present"
        /\ j \in qualified => j \in qualified'
        /\ j \in projected => j \in projected'
        /\ events[j] <= events'[j]
        /\ evidence[j] <= evidence'[j]

AllWritten(j) ==
    source[j] = "present" =>
        j \in qualified /\ j \in projected /\ events[j] >= 1 /\ evidence[j] >= 1

\* A request job comes to SUCCEEDED only with all that its execution writes.
SuccessEarned ==
    \A j \in RequestJobs : job'[j].state = "SUCCEEDED" =>
        /\ job[j].state # "ABSENT"
        /\ job[j].state = "SUCCEEDED" \/ AllWritten(j)

WorkersTell ==
    \A v \in Workers :
        \/ batch'[v] = batch[v] /\ pc'[v] = pc[v]
        \/ pc'[v] \notin Telling
        \/ \A r \in batch'[v] : Current(v, r)' => WrittenAt(v, r)'

LEMMA CurrentOnce ==
    ASSUME TypeOK, BatchesOK, NEW w \in Workers, NEW r \in batch[w], NEW q \in batch[w],
           Current(w, r), Current(w, q)
    PROVE  q = r
<1>1. r.id \in Jobs /\ q.id \in Jobs
  BY DEF TypeOK, LoopOK, ClaimedRow
<1>2. CreatedAt[r.id] \in Nat /\ CreatedAt[q.id] \in Nat
  BY <1>1, ConstantsAssumption
<1>3. CreatedAt[r.id] = CreatedAt[q.id]
  BY <1>2 DEF Current
<1>. QED  BY <1>1, <1>3, ConstantsAssumption DEF BatchesOK

LEMMA WrittenKept ==
    ASSUME TypeOK, TypeOK', FenceInv, WrittenSoFar, EffectsGrow, WorkersTell
    PROVE  WrittenSoFar'
<1>. SUFFICES ASSUME NEW v \in Workers, NEW r \in batch'[v], Current(v, r)'
              PROVE  WrittenAt(v, r)'
  BY DEF WrittenSoFar
<1>1. CASE batch'[v] = batch[v] /\ pc'[v] = pc[v]
  <2>1. r \in batch[v] /\ Current(v, r)
    BY <1>1 DEF Current
  <2>2. WrittenAt(v, r)
    BY <2>1 DEF WrittenSoFar
  <2>3. r.id \in Jobs /\ job[r.id].state # "ABSENT"
    BY <2>1 DEF TypeOK, LoopOK, ClaimedRow, FenceInv
  <2>4. /\ events[r.id] \in Nat /\ events'[r.id] \in Nat
        /\ evidence[r.id] \in Nat /\ evidence'[r.id] \in Nat
    BY <2>3 DEF TypeOK, TablesOK
  <2>. QED  BY <1>1, <2>2, <2>3, <2>4 DEF WrittenAt, EffectsGrow
<1>2. CASE pc'[v] \notin Telling
  BY <1>2 DEF WrittenAt, Telling
<1>. QED  BY <1>1, <1>2 DEF WorkersTell

LEMMA SucceededKept ==
    ASSUME TypeOK, TypeOK', SucceededHasEffects, EffectsGrow, SuccessEarned
    PROVE  SucceededHasEffects'
<1>. SUFFICES ASSUME NEW j \in RequestJobs, job'[j].state = "SUCCEEDED", source'[j] = "present"
              PROVE  j \in qualified' /\ j \in projected' /\ events'[j] >= 1 /\ evidence'[j] >= 1
  BY DEF SucceededHasEffects
<1>1. j \in Jobs /\ job[j].state # "ABSENT"
  BY ConstantsAssumption DEF SuccessEarned
<1>2. /\ events[j] \in Nat /\ events'[j] \in Nat
      /\ evidence[j] \in Nat /\ evidence'[j] \in Nat
  BY <1>1 DEF TypeOK, TablesOK
<1>3. source[j] = "present" /\ AllWritten(j)
  BY <1>1 DEF EffectsGrow, SuccessEarned, SucceededHasEffects, AllWritten
<1>. QED  BY <1>1, <1>2, <1>3 DEF EffectsGrow, AllWritten

LEMMA BatchesShrink ==
    ASSUME BatchesOK, \A v \in Workers : batch'[v] \subseteq batch[v]
    PROVE  BatchesOK'
BY DEF BatchesOK

SameAttempts == \A j \in Jobs : job'[j].attempts = job[j].attempts

\* No process goes on.
LEMMA StillStep ==
    ASSUME TypeOK, TypeOK', FenceInv, EffectsInv, UNCHANGED <<pc, batch>>, SameAttempts,
           \A j \in Jobs : events'[j] <= events[j] /\ evidence'[j] <= evidence[j],
           EffectsGrow, SuccessEarned
    PROVE  EffectsInv'
<1>1. \A j \in Jobs : job[j].attempts \in Nat
  BY DEF TypeOK, TablesOK
<1>2. HandsKept(BeforeEvent) /\ HandsKept(BeforeEvidence)
  BY DEF HandsKept, Current
<1>3. EffectsCounted'
  BY <1>1, <1>2, CountedKept DEF EffectsInv, SameAttempts
<1>4. BatchesOK'
  BY BatchesShrink DEF EffectsInv
<1>5. WrittenSoFar'
  BY WrittenKept DEF EffectsInv, WorkersTell
<1>6. SucceededHasEffects'
  BY SucceededKept DEF EffectsInv
<1>. QED  BY <1>3, <1>4, <1>5, <1>6 DEF EffectsInv

\* A process does not go back before an effect with the row it is at.
RowsAdvance(w) ==
    \A r \in batch'[w] : Current(w, r) =>
        /\ pc'[w] \in BeforeEvent => pc[w] \in BeforeEvent
        /\ pc'[w] \in BeforeEvidence => pc[w] \in BeforeEvidence

\* What a process knows where it goes.
Tells(w) == pc'[w] \notin Telling \/ \A r \in batch'[w] : Current(w, r)' => WrittenAt(w, r)'

LEMMA LoopHands ==
    ASSUME NEW w \in Workers, QuietLoop(w), RowsAdvance(w)
    PROVE  HandsKept(BeforeEvent) /\ HandsKept(BeforeEvidence)
<1>. SUFFICES ASSUME NEW v \in Workers, pc'[v] # "commit", NEW r \in batch'[v]
              PROVE  /\ r \in batch[v]
                     /\ pc[v] # "commit"
                     /\ Current(v, r) => Current(v, r)'
                     /\ Current(v, r) /\ pc[v] \notin BeforeEvent => pc'[v] \notin BeforeEvent
                     /\ Current(v, r) /\ pc[v] \notin BeforeEvidence => pc'[v] \notin BeforeEvidence
  BY DEF HandsKept
<1>1. CASE v = w
  BY <1>1 DEF QuietLoop, RowsAdvance, Current
<1>2. CASE v # w
  BY <1>2 DEF QuietLoop, Current
<1>. QED  BY <1>1, <1>2

\* The loop of one process goes on.
LEMMA LoopStep ==
    ASSUME TypeOK, TypeOK', FenceInv, EffectsInv, NEW w \in Workers, QuietLoop(w), Tells(w),
           EffectsCounted', EffectsGrow, SuccessEarned
    PROVE  EffectsInv'
<1>1. BatchesOK'
  BY BatchesShrink DEF EffectsInv, QuietLoop
<1>2. WrittenSoFar'
  BY WrittenKept DEF EffectsInv, WorkersTell, QuietLoop, Tells
<1>3. SucceededHasEffects'
  BY SucceededKept DEF EffectsInv
<1>. QED  BY <1>1, <1>2, <1>3 DEF EffectsInv

LEMMA LoopCounted ==
    ASSUME TypeOK, TypeOK', EffectsInv, NEW w \in Workers, QuietLoop(w), RowsAdvance(w),
           SameAttempts, UNCHANGED <<events, evidence>>
    PROVE  EffectsCounted'
<1>1. \A j \in Jobs : job[j].attempts \in Nat /\ events[j] \in Nat /\ evidence[j] \in Nat
  BY DEF TypeOK, TablesOK
<1>. QED  BY <1>1, LoopHands, CountedKept DEF EffectsInv, SameAttempts

-----------------------------------------------------------------------------
(* Where the loop goes on to.                                              *)

\* A batch that is dropped, or a place that tells nothing.
Silent(w) ==
    /\ pc'[w] \notin Telling
    /\ batch'[w] = {} \/ pc'[w] \notin BeforeEvidence

LEMMA SilentAdvance ==
    ASSUME NEW w \in Workers, Silent(w)
    PROVE  RowsAdvance(w) /\ Tells(w)
BY DEF Silent, RowsAdvance, Tells, BeforeEvidence

LEMMA TickErrorSilent ==
    ASSUME TypeOK, NEW w \in Workers, TickError(w)
    PROVE  Silent(w)
BY DEF TickError, GoOn, TypeOK, LoopOK, Silent, Telling, BeforeEvidence, BeforeEvent, OrderStatements

LEMMA ThrowSilent ==
    ASSUME TypeOK, NEW w \in Workers, Throw(w)
    PROVE  Silent(w)
BY DEF Throw, Continue, TypeOK, LoopOK, Silent, Telling, BeforeEvidence, BeforeEvent, OrderStatements

LEMMA ContinueSilent ==
    ASSUME TypeOK, NEW w \in Workers, NEW place, place \notin Telling \cup BeforeEvidence,
           Continue(w, place)
    PROVE  Silent(w)
BY DEF Continue, TypeOK, LoopOK, Silent, Telling, BeforeEvidence, BeforeEvent, OrderStatements

LEMMA NextRowAdvance ==
    ASSUME TypeOK, BatchesOK, NEW w \in Workers, NEW r \in batch[w], Current(w, r), NextRow(w, r)
    PROVE  RowsAdvance(w) /\ Tells(w)
<1>1. \A q \in batch'[w] : q \in batch[w] /\ q # r
  BY DEF NextRow, GoOn, TypeOK, LoopOK
<1>2. RowsAdvance(w)
  BY <1>1, CurrentOnce DEF RowsAdvance
<1>3. pc'[w] \notin Telling
  BY DEF NextRow, GoOn, TypeOK, LoopOK, Telling, OrderStatements
<1>. QED  BY <1>2, <1>3 DEF Tells

\* The next statement for the row r: what it says of r is all there is to show.
LEMMA ContinueTells ==
    ASSUME TypeOK, BatchesOK, NEW w \in Workers, NEW r \in batch[w], Current(w, r),
           NEW place, Continue(w, place),
           place \in BeforeEvent => pc[w] \in BeforeEvent,
           place \in BeforeEvidence => pc[w] \in BeforeEvidence,
           pc'[w] = place => WrittenAt(w, r)'
    PROVE  RowsAdvance(w) /\ Tells(w)
<1>1. CASE phase[w] = "closing"
  <2>1. batch'[w] = {}
    BY <1>1 DEF Continue, TypeOK, LoopOK
  <2>. QED  BY <2>1 DEF RowsAdvance, Tells
<1>2. CASE phase[w] # "closing"
  <2>1. pc'[w] = place /\ batch' = batch
    BY <1>2 DEF Continue, TypeOK, LoopOK
  <2>2. ASSUME NEW q \in batch'[w], Current(w, q)'
        PROVE  q = r
    <3>1. q \in batch[w] /\ Current(w, q)
      BY <2>1, <2>2 DEF Current
    <3>. QED  BY <3>1, CurrentOnce
  <2>. QED  BY <2>1, <2>2 DEF RowsAdvance, Tells
<1>. QED  BY <1>1, <1>2

-----------------------------------------------------------------------------
(* One lemma per group of actions.                                         *)

LEMMA NothingEffected ==
    ASSUME TypeOK, UNCHANGED <<source, effects, job>>
    PROVE  EffectsGrow /\ SuccessEarned /\ SameAttempts
<1>1. EffectsGrow
  BY DEF effects, EffectsGrow, TypeOK, TablesOK
<1>2. SuccessEarned /\ SameAttempts
  BY DEF SuccessEarned, SameAttempts
<1>. QED  BY <1>1, <1>2

LEMMA EffectsWorld ==
    ASSUME TypeOK, TypeOK', FenceInv, EffectsInv, NEW j \in Jobs,
           Submit(j) \/ Enqueue(j) \/ Erase(j) \/ RowAges(j)
    PROVE  EffectsInv'
<1>. \A k \in Jobs : events[k] \in Nat /\ evidence[k] \in Nat
  BY DEF TypeOK, TablesOK
<1>1. CASE Submit(j)
  <2>1. job[j].state = "ABSENT"
    BY <1>1 DEF Submit, FenceInv
  <2>2. /\ \A k \in Jobs \ {j} : source'[k] = source[k]
        /\ UNCHANGED <<job, effects, pc, batch>>
    BY <1>1 DEF Submit, TypeOK, TablesOK
  <2>3. EffectsGrow /\ SuccessEarned /\ SameAttempts
    BY <2>1, <2>2 DEF EffectsGrow, SuccessEarned, SameAttempts, effects
  <2>. QED  BY <2>2, <2>3, StillStep DEF effects
<1>2. CASE Enqueue(j)
  <2>1. job[j].state = "ABSENT" /\ job[j].attempts = 0
    BY <1>2 DEF Enqueue, FenceInv
  <2>2. /\ \A k \in Jobs \ {j} : source'[k] = source[k] /\ job'[k] = job[k]
        /\ job'[j].state = "QUEUED" /\ job'[j].attempts = 0
        /\ UNCHANGED <<effects, pc, batch>>
    BY <1>2 DEF Enqueue, NewJob, TypeOK, TablesOK
  <2>3. EffectsGrow
    BY <2>1, <2>2 DEF EffectsGrow, effects
  <2>4. SuccessEarned /\ SameAttempts
    BY <2>1, <2>2, ConstantsAssumption DEF SuccessEarned, SameAttempts
  <2>. QED  BY <2>2, <2>3, <2>4, StillStep DEF effects
<1>3. CASE Erase(j)
  <2>1. /\ \A k \in Jobs \ {j} : source'[k] = source[k] /\ events'[k] = events[k]
        /\ source'[j] = "erased" /\ events'[j] = 0
        /\ qualified' = qualified \ {j}
        /\ UNCHANGED <<job, evidence, projected, pc, batch>>
    BY <1>3 DEF Erase, TypeOK, TablesOK
  <2>2. EffectsGrow
    BY <2>1 DEF EffectsGrow
  <2>3. SuccessEarned /\ SameAttempts
    BY <2>1 DEF SuccessEarned, SameAttempts
  <2>. QED  BY <2>1, <2>2, <2>3, StillStep
<1>4. CASE RowAges(j)
  <2>1. UNCHANGED <<source, effects, job, pc, batch>>
    BY <1>4 DEF RowAges
  <2>. QED  BY <2>1, NothingEffected, StillStep DEF effects
<1>. QED  BY <1>1, <1>2, <1>3, <1>4

\* A step of the loop that leaves the tables alone and tells nothing.
LEMMA SilentStep ==
    ASSUME TypeOK, TypeOK', FenceInv, EffectsInv, NEW w \in Workers, QuietLoop(w),
           RowsAdvance(w), Tells(w), UNCHANGED <<source, effects, job>>
    PROVE  EffectsInv'
<1>1. EffectsGrow /\ SuccessEarned /\ SameAttempts
  BY NothingEffected
<1>2. EffectsCounted'
  BY <1>1, LoopCounted DEF effects
<1>. QED  BY <1>1, <1>2, LoopStep

LEMMA EffectsProcess ==
    ASSUME TypeOK, TypeOK', FenceInv, EffectsInv, NEW w \in Workers,
           Start(w) \/ Crash(w) \/ Signal(w)
    PROVE  EffectsInv'
<1>1. CASE Start(w) \/ Crash(w)
  <2>1. QuietLoop(w)
    BY <1>1 DEF Start, Crash, Dead, TypeOK, LoopOK, QuietLoop
  <2>2. Silent(w)
    BY <1>1 DEF Start, Crash, TypeOK, LoopOK, Silent, Telling, BeforeEvidence, BeforeEvent,
                OrderStatements
  <2>3. UNCHANGED <<source, effects, job>>
    BY <1>1 DEF Start, Crash
  <2>. QED  BY <2>1, <2>2, <2>3, SilentAdvance, SilentStep
<1>2. CASE Signal(w)
  <2>1. UNCHANGED <<source, effects, job, pc, batch>>
    BY <1>2 DEF Signal
  <2>. QED  BY <2>1, NothingEffected, StillStep DEF effects, TypeOK, TablesOK
<1>. QED  BY <1>1, <1>2

\* A requeue changes no attempt and finishes nothing.
LEMMA RequeueHarmless ==
    ASSUME TypeOK, NEW rows \in SUBSET {j \in Jobs : job[j].state = "RUNNING"},
           Requeue(rows), UNCHANGED source
    PROVE  EffectsGrow /\ SuccessEarned /\ SameAttempts
<1>1. \A j \in rows : /\ j \in Jobs
                      /\ job'[j] = [job[j] EXCEPT !.state = "QUEUED", !.worker = NoWorker]
  BY DEF Requeue
<1>2. \A j \in Jobs \ rows : job'[j] = job[j]
  BY DEF Requeue
<1>3. ASSUME NEW j \in rows
      PROVE  job'[j].state = "QUEUED" /\ job'[j].attempts = job[j].attempts
  <2>1. job[j] \in [state : JobStates, attempts : Nat, worker : Workers \cup {NoWorker}]
    BY <1>1 DEF TypeOK, TablesOK
  <2>. QED  BY <1>1, <2>1
<1>4. UNCHANGED effects
  BY DEF Requeue
<1>5. EffectsGrow
  BY <1>4 DEF EffectsGrow, effects, TypeOK, TablesOK
<1>6. SuccessEarned
  BY <1>2, <1>3, ConstantsAssumption DEF SuccessEarned
<1>7. SameAttempts
  BY <1>2, <1>3 DEF SameAttempts
<1>. QED  BY <1>5, <1>6, <1>7

LEMMA EffectsShutdown ==
    ASSUME TypeOK, TypeOK', FenceInv, EffectsInv, NEW w \in Workers, Shutdown(w)
    PROVE  EffectsInv'
<1>. \A k \in Jobs : events[k] \in Nat /\ evidence[k] \in Nat
  BY DEF TypeOK, TablesOK
<1>1. CASE RequeueOwn(w)
  <2>1. UNCHANGED <<source, effects, pc, batch>>
    BY <1>1 DEF RequeueOwn, NoWrite, Requeue
  <2>2. EffectsGrow /\ SuccessEarned /\ SameAttempts
    BY <1>1, <2>1, RequeueHarmless, NothingEffected DEF RequeueOwn, NoWrite
  <2>. QED  BY <2>1, <2>2, StillStep DEF effects
<1>2. CASE ClosePool(w)
  <2>1. UNCHANGED <<source, effects, job, pc, batch>>
    BY <1>2 DEF ClosePool
  <2>. QED  BY <2>1, NothingEffected, StillStep DEF effects
<1>3. CASE Exit(w)
  <2>1. QuietLoop(w)
    BY <1>3 DEF Exit, TypeOK, LoopOK, QuietLoop
  <2>2. Silent(w)
    BY <1>3 DEF Exit, TypeOK, LoopOK, Silent, Telling, BeforeEvidence, BeforeEvent, OrderStatements
  <2>3. UNCHANGED <<source, effects, job>>
    BY <1>3 DEF Exit
  <2>. QED  BY <2>1, <2>2, <2>3, SilentAdvance, SilentStep
<1>. QED  BY <1>1, <1>2, <1>3 DEF Shutdown

\* A step of the loop that writes jobs and nothing else.
LEMMA JobStep ==
    ASSUME TypeOK, TypeOK', FenceInv, EffectsInv, NEW w \in Workers, QuietLoop(w),
           RowsAdvance(w), Tells(w), UNCHANGED <<source, effects>>, SuccessEarned, SameAttempts
    PROVE  EffectsInv'
<1>1. EffectsGrow
  BY DEF effects, EffectsGrow, TypeOK, TablesOK
<1>2. EffectsCounted'
  BY LoopCounted DEF effects
<1>. QED  BY <1>1, <1>2, LoopStep

LEMMA EffectsReclaim ==
    ASSUME TypeOK, TypeOK', FenceInv, EffectsInv, NEW w \in Workers, Reclaim(w)
    PROVE  EffectsInv'
<1>1. QuietLoop(w)
  BY ContinueQuiet, TickErrorQuiet DEF Reclaim, Statement
<1>2. RowsAdvance(w) /\ Tells(w)
  BY ContinueSilent, TickErrorSilent, SilentAdvance
     DEF Reclaim, Statement, Telling, OrderStatements, BeforeEvent, BeforeEvidence
<1>3. UNCHANGED <<source, effects>>
  BY DEF Reclaim, Statement, NoWrite, Requeue
<1>4. SuccessEarned /\ SameAttempts
  BY RequeueHarmless, NothingEffected DEF Reclaim, Statement, NoWrite, TypeOK, TablesOK
<1>. QED  BY <1>1, <1>2, <1>3, <1>4, JobStep

LEMMA EffectsIngest ==
    ASSUME TypeOK, TypeOK', FenceInv, EffectsInv, NEW w \in Workers,
           IngestRequests(w) \/ IngestOrders(w)
    PROVE  EffectsInv'
<1>1. QuietLoop(w)
  BY ContinueQuiet, TickErrorQuiet DEF IngestRequests, IngestOrders, Statement
<1>2. RowsAdvance(w) /\ Tells(w)
  BY ContinueSilent, TickErrorSilent, SilentAdvance
     DEF IngestRequests, IngestOrders, Statement, Telling, OrderStatements, BeforeEvent, BeforeEvidence
<1>3. UNCHANGED <<source, effects>>
  BY DEF IngestRequests, IngestOrders, Statement, NoWrite, Insert
<1>4. CASE NoWrite
  BY <1>1, <1>2, <1>3, <1>4, NothingEffected, JobStep DEF NoWrite
<1>5. CASE \E rows \in SUBSET Jobs : Insert(Missing(rows))
  <2>1. PICK rows \in SUBSET Jobs : Insert(Missing(rows))
    BY <1>5
  <2>2. \A j \in Jobs : \/ job'[j] = job[j]
                        \/ /\ job[j].state = "ABSENT" /\ job[j].attempts = 0
                           /\ job'[j].state = "QUEUED" /\ job'[j].attempts = 0
    BY <2>1 DEF Insert, Missing, NewJob, FenceInv
  <2>3. SuccessEarned /\ SameAttempts
    BY <2>2, ConstantsAssumption DEF SuccessEarned, SameAttempts
  <2>. QED  BY <1>1, <1>2, <1>3, <2>3, JobStep
<1>. QED  BY <1>4, <1>5, ConstantsAssumption DEF IngestRequests, IngestOrders, Statement

\* The steps of a claim write no effect and tell nothing; what they add to
\* somebody's hands is new attempts.
LEMMA ClaimStep ==
    ASSUME TypeOK, TypeOK', FenceInv, EffectsInv, UNCHANGED <<source, effects>>,
           HandsKept(BeforeEvent), HandsKept(BeforeEvidence), BatchesOK', WorkersTell,
           SuccessEarned, \A j \in Jobs : job[j].attempts <= job'[j].attempts
    PROVE  EffectsInv'
<1>1. EffectsGrow
  BY DEF effects, EffectsGrow, TypeOK, TablesOK
<1>2. EffectsCounted'
  BY CountedKept DEF EffectsInv, effects, TypeOK, TablesOK
<1>3. WrittenSoFar'
  BY <1>1, WrittenKept DEF EffectsInv
<1>4. SucceededHasEffects'
  BY <1>1, SucceededKept DEF EffectsInv
<1>. QED  BY <1>2, <1>3, <1>4 DEF EffectsInv

LEMMA EffectsBeginClaim ==
    ASSUME TypeOK, TypeOK', FenceInv, EffectsInv, NEW w \in Workers, BeginClaim(w)
    PROVE  EffectsInv'
<1>1. PICK rows \in SUBSET Claimable :
        /\ batch' = [batch EXCEPT ![w] =
                       {[id |-> j, attempts |-> job[j].attempts + 1] : j \in rows}]
        /\ pc' = [pc EXCEPT ![w] = "commit"]
  BY DEF BeginClaim
<1>2. UNCHANGED <<source, effects, job>>
  BY DEF BeginClaim
<1>3. pc'[w] = "commit" /\ \A r \in batch'[w] : \E j \in rows :
        r = [id |-> j, attempts |-> job[j].attempts + 1]
  BY <1>1 DEF TypeOK, LoopOK
<1>4. \A v \in Workers \ {w} : batch'[v] = batch[v] /\ pc'[v] = pc[v]
  BY <1>1 DEF TypeOK, LoopOK
<1>5. HandsKept(BeforeEvent) /\ HandsKept(BeforeEvidence)
  BY <1>3, <1>4 DEF HandsKept, Current
<1>6. BatchesOK'
  <2>1. \A r \in batch'[w] : /\ r.attempts >= 1
                             /\ \A q \in batch'[w] : q.id = r.id => q = r
    BY <1>3 DEF Claimable, TypeOK, TablesOK
  <2>. QED  BY <1>4, <2>1 DEF EffectsInv, BatchesOK
<1>7. WorkersTell
  BY <1>3, <1>4 DEF WorkersTell, Telling, OrderStatements
<1>8. SuccessEarned /\ \A j \in Jobs : job[j].attempts <= job'[j].attempts
  BY <1>2 DEF SuccessEarned, TypeOK, TablesOK
<1>. QED  BY <1>2, <1>5, <1>6, <1>7, <1>8, ClaimStep

LEMMA EffectsCommitClaim ==
    ASSUME TypeOK, TypeOK', FenceInv, EffectsInv, NEW w \in Workers, CommitClaim(w)
    PROVE  EffectsInv'
<1>. pc[w] = "commit" /\ UNCHANGED source
  BY DEF CommitClaim, Statement
<1>1. CASE NoWrite /\ TickError(w)
  <2>1. QuietLoop(w) /\ RowsAdvance(w) /\ Tells(w)
    BY <1>1, TickErrorQuiet, TickErrorSilent, SilentAdvance
  <2>. QED  BY <1>1, <2>1, SilentStep DEF NoWrite
<1>2. CASE TakeRows(w) /\ (GoOn(w, batch[w]) \/ TickError(w))
  <2>1. /\ batch'[w] \subseteq batch[w]
        /\ pc'[w] \notin Telling
        /\ \A v \in Workers \ {w} : batch'[v] = batch[v] /\ pc'[v] = pc[v]
    BY <1>2 DEF GoOn, TickError, TypeOK, LoopOK, Telling, OrderStatements
  <2>2. \A j \in Jobs : \/ job'[j] = job[j]
                        \/ /\ job'[j].state = "RUNNING"
                           /\ job'[j].attempts = job[j].attempts + 1
    BY <1>2 DEF TakeRows
  <2>3. \A r \in batch[w] : r.attempts > job[r.id].attempts
    BY DEF FenceInv, TypeOK, LoopOK, TablesOK, ClaimedRow
  <2>4. HandsKept(BeforeEvent) /\ HandsKept(BeforeEvidence)
    BY <2>1, <2>3 DEF HandsKept, Current
  <2>5. BatchesOK'
    BY <2>1, BatchesShrink DEF EffectsInv
  <2>6. WorkersTell
    BY <2>1 DEF WorkersTell
  <2>7. SuccessEarned /\ \A j \in Jobs : job[j].attempts <= job'[j].attempts
    BY <2>2, ConstantsAssumption DEF SuccessEarned, TypeOK, TablesOK
  <2>8. UNCHANGED effects
    BY <1>2 DEF TakeRows
  <2>. QED  BY <2>4, <2>5, <2>6, <2>7, <2>8, ClaimStep
<1>. QED  BY <1>1, <1>2 DEF CommitClaim, Statement

LEMMA EffectsTick ==
    ASSUME TypeOK, TypeOK', FenceInv, EffectsInv, NEW w \in Workers, Tick(w)
    PROVE  EffectsInv'
<1>1. CASE ClaimNothing(w)
  <2>1. QuietLoop(w)
    BY <1>1, GoOnQuiet DEF ClaimNothing
  <2>2. Silent(w)
    BY <1>1, TickErrorSilent DEF ClaimNothing, TickError
  <2>3. UNCHANGED <<source, effects, job>>
    BY <1>1 DEF ClaimNothing
  <2>. QED  BY <2>1, <2>2, <2>3, SilentAdvance, SilentStep
<1>. QED
  BY <1>1, EffectsReclaim, EffectsIngest, EffectsBeginClaim, EffectsCommitClaim DEF Tick

-----------------------------------------------------------------------------
(* The statements for a row.                                               *)

\* What is known of the current row before its statement.
LEMMA AtRow ==
    ASSUME TypeOK, FenceInv, EffectsInv, NEW w \in Workers, NEW r \in batch[w], Current(w, r)
    PROVE  /\ r.id \in Jobs
           /\ job[r.id].state # "ABSENT"
           /\ WrittenAt(w, r)
           /\ events[r.id] \in Nat /\ evidence[r.id] \in Nat
BY DEF TypeOK, TablesOK, LoopOK, ClaimedRow, FenceInv, EffectsInv, WrittenSoFar

LEMMA EffectsLookup ==
    ASSUME TypeOK, TypeOK', FenceInv, EffectsInv, NEW w \in Workers, Lookup(w)
    PROVE  EffectsInv'
<1>1. PICK r \in batch[w] :
        /\ Current(w, r)
        /\ LET found == IF r.id \in RequestJobs THEN "status" ELSE "observe"
           IN  Statement(NoWrite,
                         Continue(w, IF source[r.id] = "present" THEN found ELSE "notFound"),
                         TickError(w))
  BY DEF Lookup
<1>2. pc[w] = "lookup"
  BY DEF Lookup
<1>3. UNCHANGED <<source, effects, job>>
  BY <1>1 DEF Statement, NoWrite
<1>4. QuietLoop(w)
  BY <1>1, <1>2, ContinueQuiet, TickErrorQuiet DEF Statement
<1>5. ASSUME NEW place \in {"status", "observe", "notFound"}, Continue(w, place),
             place = "observe" => r.id \notin RequestJobs
      PROVE  RowsAdvance(w) /\ Tells(w)
  <2>1. pc'[w] = place => WrittenAt(w, r)'
    BY <1>5 DEF WrittenAt, OrderStatements
  <2>. QED  BY <1>1, <1>2, <1>5, <2>1, ContinueTells DEF EffectsInv, BeforeEvent, BeforeEvidence
<1>6. RowsAdvance(w) /\ Tells(w)
  BY <1>1, <1>5, TickErrorSilent, SilentAdvance DEF Statement
<1>. QED  BY <1>3, <1>4, <1>6, SilentStep

LEMMA EffectsUpdateStatus ==
    ASSUME TypeOK, TypeOK', FenceInv, EffectsInv, NEW w \in Workers, UpdateStatus(w)
    PROVE  EffectsInv'
<1>1. PICK r \in batch[w] : /\ Current(w, r)
                            /\ Statement(WriteStatus(r.id), Continue(w, "event"), Throw(w))
  BY DEF UpdateStatus
<1>2. pc[w] = "status"
  BY DEF UpdateStatus
<1>3. QuietLoop(w)
  BY <1>1, <1>2, ContinueQuiet, ThrowQuiet DEF Statement
<1>4. UNCHANGED <<source, events, evidence, projected, job>> /\ qualified \subseteq qualified'
  BY <1>1 DEF Statement, WriteStatus, NoWrite, effects
<1>5. EffectsGrow
  BY <1>4 DEF EffectsGrow, TypeOK, TablesOK
<1>6. SuccessEarned /\ SameAttempts
  BY <1>4 DEF SuccessEarned, SameAttempts
<1>7. CASE WriteStatus(r.id) /\ Continue(w, "event")
  <2>1. pc'[w] = "event" => WrittenAt(w, r)'
    BY <1>4, <1>7 DEF WriteStatus, WrittenAt, OrderStatements
  <2>. QED
    BY <1>1, <1>2, <1>7, <2>1, ContinueTells, <1>3, <1>4, <1>5, <1>6, LoopCounted, LoopStep
       DEF EffectsInv, BeforeEvent, BeforeEvidence
<1>8. CASE Throw(w)
  BY <1>8, ThrowSilent, SilentAdvance, <1>3, <1>4, <1>5, <1>6, LoopCounted, LoopStep
<1>. QED  BY <1>1, <1>7, <1>8 DEF Statement

\* An effect is counted when an attempt is spent with it.
Affords(count, j, places) ==
    \/ count'[j] <= count[j]
    \/ /\ count'[j] = count[j] + 1
       /\ Cardinality(Spent(j, places)) + 1 <= Cardinality(Spent(j, places)')

LEMMA CountedAppended ==
    ASSUME TypeOK, TypeOK', EffectsCounted, HandsKept(BeforeEvent), HandsKept(BeforeEvidence),
           UNCHANGED job,
           \A j \in Jobs : Affords(events, j, BeforeEvent) /\ Affords(evidence, j, BeforeEvidence)
    PROVE  EffectsCounted'
<1>. SUFFICES ASSUME NEW j \in Jobs
              PROVE  /\ events'[j] <= Cardinality(Spent(j, BeforeEvent)')
                     /\ evidence'[j] <= Cardinality(Spent(j, BeforeEvidence)')
  BY DEF EffectsCounted, BeforeEvent, BeforeEvidence
<1>1. /\ events[j] \in Nat /\ events'[j] \in Nat /\ job[j].attempts \in Nat
      /\ evidence[j] \in Nat /\ evidence'[j] \in Nat
  BY DEF TypeOK, TablesOK
<1>2. /\ Cardinality(Spent(j, BeforeEvent)) \in Nat
      /\ Cardinality(Spent(j, BeforeEvidence)) \in Nat
  BY SpentFinite
<1>3. /\ Cardinality(Spent(j, BeforeEvent)) <= Cardinality(Spent(j, BeforeEvent)')
      /\ Cardinality(Spent(j, BeforeEvent)') \in Nat
  BY <1>1, SpentKept
<1>4. /\ Cardinality(Spent(j, BeforeEvidence)) <= Cardinality(Spent(j, BeforeEvidence)')
      /\ Cardinality(Spent(j, BeforeEvidence)') \in Nat
  BY <1>1, SpentKept
<1>5. /\ events[j] <= Cardinality(Spent(j, BeforeEvent))
      /\ evidence[j] <= Cardinality(Spent(j, BeforeEvidence))
  BY DEF EffectsCounted
<1>6. /\ Affords(events, j, BeforeEvent)
      /\ Affords(evidence, j, BeforeEvidence)
  OBVIOUS
<1>7. events'[j] <= Cardinality(Spent(j, BeforeEvent)')
  BY <1>1, <1>2, <1>3, <1>5, <1>6 DEF Affords
<1>8. evidence'[j] <= Cardinality(Spent(j, BeforeEvidence)')
  BY <1>1, <1>2, <1>4, <1>5, <1>6 DEF Affords
<1>. QED  BY <1>7, <1>8

LEMMA EffectsInsertEvent ==
    ASSUME TypeOK, TypeOK', FenceInv, EffectsInv, NEW w \in Workers, InsertEvent(w)
    PROVE  EffectsInv'
<1>1. PICK r \in batch[w] :
        /\ Current(w, r)
        /\ \/ Statement(AppendEvent(r.id), Continue(w, "evidence"), Throw(w))
           \/ Throw(w) /\ NoWrite /\ UNCHANGED <<source, phase, mishaps>>
  BY DEF InsertEvent
<1>2. pc[w] = "event"
  BY DEF InsertEvent
<1>3. QuietLoop(w)
  BY <1>1, <1>2, ContinueQuiet, ThrowQuiet DEF Statement
<1>4. CASE NoWrite /\ Throw(w)
  <2>1. UNCHANGED <<source, effects, job>>
    BY <1>1, <1>4 DEF NoWrite, Statement
  <2>. QED  BY <1>3, <1>4, <2>1, ThrowSilent, SilentAdvance, SilentStep
<1>5. CASE AppendEvent(r.id) /\ UNCHANGED source /\ (Continue(w, "evidence") \/ Throw(w))
  <2>1. /\ r.id \in Jobs /\ events[r.id] \in Nat /\ WrittenAt(w, r)
        /\ events'[r.id] = events[r.id] + 1
        /\ \A j \in Jobs \ {r.id} : events'[j] = events[j]
        /\ UNCHANGED <<source, job, qualified, evidence, projected>>
    BY <1>1, <1>5, AtRow DEF AppendEvent, TypeOK, TablesOK
  <2>2. EffectsGrow /\ SuccessEarned /\ SameAttempts
    BY <2>1 DEF EffectsGrow, SuccessEarned, SameAttempts, TypeOK, TablesOK
  <2>3. pc'[w] = "evidence" => WrittenAt(w, r)'
    BY <1>2, <2>1 DEF WrittenAt, OrderStatements
  <2>4. RowsAdvance(w) /\ Tells(w)
    <3>1. CASE Continue(w, "evidence")
      BY <1>1, <1>2, <2>3, <3>1, ContinueTells DEF EffectsInv, BeforeEvent, BeforeEvidence
    <3>2. CASE Throw(w)
      BY <3>2, ThrowSilent, SilentAdvance
    <3>. QED  BY <1>5, <3>1, <3>2
  <2>5. batch'[w] = {} \/ (batch'[w] = batch[w] /\ pc'[w] \notin BeforeEvent)
    BY <1>5 DEF Throw, Continue, TypeOK, LoopOK, BeforeEvent
  <2>6. \A v \in Workers \ {w} : batch'[v] = batch[v] /\ pc'[v] = pc[v]
    BY <1>3 DEF QuietLoop
  <2>7. HandsKept(BeforeEvent) /\ HandsKept(BeforeEvidence)
    BY <1>3, <2>4, LoopHands
  <2>8. Cardinality(Spent(r.id, BeforeEvent)) + 1 <= Cardinality(Spent(r.id, BeforeEvent)')
    BY <1>1, <1>2, <2>1, <2>5, <2>6, <2>7, AttemptSpent DEF EffectsInv, BeforeEvent
  <2>9. ASSUME NEW j \in Jobs
        PROVE  Affords(events, j, BeforeEvent) /\ Affords(evidence, j, BeforeEvidence)
    BY <2>1, <2>8 DEF Affords, TypeOK, TablesOK
  <2>10. EffectsCounted'
    BY <2>1, <2>7, <2>9, CountedAppended DEF EffectsInv
  <2>. QED  BY <1>3, <2>2, <2>4, <2>10, LoopStep
<1>. QED  BY <1>1, <1>4, <1>5 DEF Statement

LEMMA EffectsInsertEvidence ==
    ASSUME TypeOK, TypeOK', FenceInv, EffectsInv, NEW w \in Workers, InsertEvidence(w)
    PROVE  EffectsInv'
<1>1. PICK r \in batch[w] :
        /\ Current(w, r)
        /\ Statement(AppendEvidence(r.id), Continue(w, "project"), Throw(w))
  BY DEF InsertEvidence
<1>2. pc[w] = "evidence"
  BY DEF InsertEvidence
<1>3. QuietLoop(w)
  BY <1>1, <1>2, ContinueQuiet, ThrowQuiet DEF Statement
<1>4. CASE NoWrite /\ Throw(w)
  <2>1. UNCHANGED <<source, effects, job>>
    BY <1>1, <1>4 DEF NoWrite, Statement
  <2>. QED  BY <1>3, <1>4, <2>1, ThrowSilent, SilentAdvance, SilentStep
<1>5. CASE AppendEvidence(r.id) /\ UNCHANGED source /\ (Continue(w, "project") \/ Throw(w))
  <2>1. /\ r.id \in Jobs /\ evidence[r.id] \in Nat /\ WrittenAt(w, r)
        /\ evidence'[r.id] = evidence[r.id] + 1
        /\ \A j \in Jobs \ {r.id} : evidence'[j] = evidence[j]
        /\ UNCHANGED <<source, job, qualified, events, projected>>
    BY <1>1, <1>5, AtRow DEF AppendEvidence, TypeOK, TablesOK
  <2>2. EffectsGrow /\ SuccessEarned /\ SameAttempts
    BY <2>1 DEF EffectsGrow, SuccessEarned, SameAttempts, TypeOK, TablesOK
  <2>3. pc'[w] = "project" => WrittenAt(w, r)'
    BY <1>2, <2>1 DEF WrittenAt, OrderStatements
  <2>4. RowsAdvance(w) /\ Tells(w)
    <3>1. CASE Continue(w, "project")
      BY <1>1, <1>2, <2>3, <3>1, ContinueTells DEF EffectsInv, BeforeEvent, BeforeEvidence
    <3>2. CASE Throw(w)
      BY <3>2, ThrowSilent, SilentAdvance
    <3>. QED  BY <1>5, <3>1, <3>2
  <2>5. batch'[w] = {} \/ (batch'[w] = batch[w] /\ pc'[w] \notin BeforeEvidence)
    BY <1>5 DEF Throw, Continue, TypeOK, LoopOK, BeforeEvent, BeforeEvidence
  <2>6. \A v \in Workers \ {w} : batch'[v] = batch[v] /\ pc'[v] = pc[v]
    BY <1>3 DEF QuietLoop
  <2>7. HandsKept(BeforeEvent) /\ HandsKept(BeforeEvidence)
    BY <1>3, <2>4, LoopHands
  <2>8. Cardinality(Spent(r.id, BeforeEvidence)) + 1 <= Cardinality(Spent(r.id, BeforeEvidence)')
    BY <1>1, <1>2, <2>1, <2>5, <2>6, <2>7, AttemptSpent DEF EffectsInv, BeforeEvidence
  <2>9. ASSUME NEW j \in Jobs
        PROVE  Affords(events, j, BeforeEvent) /\ Affords(evidence, j, BeforeEvidence)
    BY <2>1, <2>8 DEF Affords, TypeOK, TablesOK
  <2>10. EffectsCounted'
    BY <2>1, <2>7, <2>9, CountedAppended DEF EffectsInv
  <2>. QED  BY <1>3, <2>2, <2>4, <2>10, LoopStep
<1>. QED  BY <1>1, <1>4, <1>5 DEF Statement

LEMMA EffectsUpsertProject ==
    ASSUME TypeOK, TypeOK', FenceInv, EffectsInv, NEW w \in Workers, UpsertProject(w)
    PROVE  EffectsInv'
<1>1. PICK r \in batch[w] : /\ Current(w, r)
                            /\ Statement(WriteProject(r.id), Continue(w, "succeed"), Throw(w))
  BY DEF UpsertProject
<1>2. pc[w] = "project" /\ WrittenAt(w, r)
  BY <1>1, AtRow DEF UpsertProject
<1>3. QuietLoop(w)
  BY <1>1, <1>2, ContinueQuiet, ThrowQuiet DEF Statement
<1>4. UNCHANGED <<source, events, evidence, qualified, job>> /\ projected \subseteq projected'
  BY <1>1 DEF Statement, WriteProject, NoWrite, effects
<1>5. EffectsGrow
  BY <1>4 DEF EffectsGrow, TypeOK, TablesOK
<1>6. SuccessEarned /\ SameAttempts
  BY <1>4 DEF SuccessEarned, SameAttempts
<1>7. CASE WriteProject(r.id) /\ Continue(w, "succeed")
  <2>1. r.id \in projected'
    BY <1>7 DEF WriteProject
  <2>2. pc'[w] = "succeed" => WrittenAt(w, r)'
    BY <1>2, <1>4, <2>1 DEF WrittenAt, OrderStatements
  <2>3. RowsAdvance(w) /\ Tells(w)
    BY <1>1, <1>2, <1>7, <2>2, ContinueTells DEF EffectsInv, BeforeEvent, BeforeEvidence
  <2>. QED  BY <1>3, <1>4, <1>5, <1>6, <2>3, LoopCounted, LoopStep
<1>8. CASE Throw(w)
  BY <1>8, ThrowSilent, SilentAdvance, <1>3, <1>4, <1>5, <1>6, LoopCounted, LoopStep
<1>. QED  BY <1>1, <1>7, <1>8 DEF Statement

\* The outcome of a row is written, and the loop goes on or fails.
LEMMA OutcomeStep ==
    ASSUME TypeOK, TypeOK', FenceInv, EffectsInv, NEW w \in Workers, pc[w] # "commit",
           NEW r \in batch[w], Current(w, r), UNCHANGED source,
           NEW state \in JobStates \ {"ABSENT"},
           state = "SUCCEEDED" => r.id \notin RequestJobs \/ AllWritten(r.id),
           SetState(r.id, state),
           NextRow(w, r) \/ TickError(w) \/ Throw(w)
    PROVE  EffectsInv'
<1>1. QuietLoop(w)
  BY NextRowQuiet, TickErrorQuiet, ThrowQuiet
<1>2. RowsAdvance(w) /\ Tells(w)
  BY NextRowAdvance, TickErrorSilent, ThrowSilent, SilentAdvance DEF EffectsInv
<1>3. r.id \in Jobs /\ job[r.id].state # "ABSENT"
  BY AtRow
<1>4. /\ job'[r.id].state = state
      /\ job'[r.id].attempts = job[r.id].attempts
      /\ \A j \in Jobs \ {r.id} : job'[j] = job[j]
  BY <1>3 DEF SetState, TypeOK, TablesOK
<1>5. SuccessEarned
  BY <1>3, <1>4, ConstantsAssumption DEF SuccessEarned
<1>6. SameAttempts
  BY <1>4 DEF SameAttempts
<1>. QED  BY <1>1, <1>2, <1>5, <1>6, JobStep DEF SetState

\* The outcome is not written.
LEMMA ErrorStep ==
    ASSUME TypeOK, TypeOK', FenceInv, EffectsInv, NEW w \in Workers, pc[w] # "commit",
           UNCHANGED source, NoWrite, TickError(w) \/ Throw(w)
    PROVE  EffectsInv'
<1>1. QuietLoop(w)
  BY TickErrorQuiet, ThrowQuiet
<1>2. RowsAdvance(w) /\ Tells(w)
  BY TickErrorSilent, ThrowSilent, SilentAdvance
<1>. QED  BY <1>1, <1>2, SilentStep DEF NoWrite

LEMMA EffectsOutcomes ==
    ASSUME TypeOK, TypeOK', FenceInv, EffectsInv, NEW w \in Workers,
           NotFound(w) \/ Succeed(w) \/ Catch(w) \/ SucceedOrder(w)
    PROVE  EffectsInv'
<1>1. CASE NotFound(w)
  BY <1>1, OutcomeStep, ErrorStep DEF NotFound, Statement, JobStates, Finished
<1>2. CASE Succeed(w)
  <2>1. PICK r \in batch[w] : /\ Current(w, r)
                              /\ Statement(SetState(r.id, "SUCCEEDED"), NextRow(w, r), Throw(w))
    BY <1>2 DEF Succeed
  <2>2. pc[w] = "succeed"
    BY <1>2 DEF Succeed
  <2>3. AllWritten(r.id)
    BY <2>1, <2>2, AtRow DEF WrittenAt, AllWritten
  <2>. QED  BY <2>1, <2>2, <2>3, OutcomeStep, ErrorStep DEF Statement, JobStates, Finished
<1>3. CASE Catch(w)
  BY <1>3, OutcomeStep, ErrorStep DEF Catch, Statement, AfterError, JobStates, Finished
<1>4. CASE SucceedOrder(w)
  <2>1. PICK r \in batch[w] : /\ Current(w, r)
                              /\ Statement(SetState(r.id, "SUCCEEDED"), NextRow(w, r), TickError(w))
    BY <1>4 DEF SucceedOrder
  <2>2. pc[w] = "succeedOrder"
    BY <1>4 DEF SucceedOrder
  <2>3. r.id \notin RequestJobs
    BY <2>1, <2>2, AtRow DEF WrittenAt, OrderStatements
  <2>. QED  BY <2>1, <2>2, <2>3, OutcomeStep, ErrorStep DEF Statement, JobStates, Finished
<1>. QED  BY <1>1, <1>2, <1>3, <1>4

LEMMA EffectsObserve ==
    ASSUME TypeOK, TypeOK', FenceInv, EffectsInv, NEW w \in Workers, Observe(w)
    PROVE  EffectsInv'
<1>1. pc[w] = "observe" /\ Continue(w, "succeedOrder") /\ UNCHANGED <<source, effects, job>>
  BY DEF Observe, NoWrite
<1>2. QuietLoop(w)
  BY <1>1, ContinueQuiet
<1>3. RowsAdvance(w)
  BY <1>1 DEF RowsAdvance, Continue, BeforeEvent, BeforeEvidence, TypeOK, LoopOK
<1>4. Tells(w)
  <2>. SUFFICES ASSUME NEW r \in batch'[w], Current(w, r)', pc'[w] \in Telling
                PROVE  WrittenAt(w, r)'
    BY DEF Tells
  <2>1. batch' = batch /\ pc'[w] = "succeedOrder"
    BY <1>1 DEF Continue, Telling, OrderStatements, TypeOK, LoopOK
  <2>2. Current(w, r)
    BY <2>1 DEF Current
  <2>3. r.id \notin RequestJobs
    BY <1>1, <2>1, <2>2, AtRow DEF WrittenAt, OrderStatements
  <2>. QED  BY <2>1, <2>3 DEF WrittenAt
<1>. QED  BY <1>1, <1>2, <1>3, <1>4, SilentStep

LEMMA EffectsExecute ==
    ASSUME TypeOK, TypeOK', FenceInv, EffectsInv, NEW w \in Workers, Execute(w)
    PROVE  EffectsInv'
BY EffectsLookup, EffectsUpdateStatus, EffectsInsertEvent, EffectsInsertEvidence,
   EffectsUpsertProject, EffectsOutcomes, EffectsObserve DEF Execute

-----------------------------------------------------------------------------
LEMMA EffectsStutter ==
    ASSUME TypeOK, TypeOK', FenceInv, EffectsInv, UNCHANGED vars
    PROVE  EffectsInv'
<1>1. UNCHANGED <<source, effects, job, pc, batch>>
  BY DEF vars, effects
<1>2. \A j \in Jobs : events'[j] <= events[j] /\ evidence'[j] <= evidence[j]
  BY <1>1 DEF effects, TypeOK, TablesOK
<1>. QED  BY <1>1, <1>2, NothingEffected, StillStep

LEMMA EffectsStep == TypeOK /\ FenceInv /\ EffectsInv /\ [Next]_vars => EffectsInv'
<1>. SUFFICES ASSUME TypeOK, FenceInv, EffectsInv, [Next]_vars
              PROVE  EffectsInv'
  OBVIOUS
<1>1. TypeOK'
  BY TypeStep
<1>. QED
  BY <1>1, EffectsWorld, EffectsProcess, EffectsTick, EffectsExecute, EffectsShutdown,
     EffectsStutter DEF Next

LEMMA CountUpTo ==
    ASSUME NEW k \in Nat
    PROVE  IsFiniteSet(1 .. k) /\ Cardinality(1 .. k) = k
<1>1. IsFiniteSet(1 .. k) /\ Cardinality(1 .. k) = IF 1 > k THEN 0 ELSE k - 1 + 1
  BY FS_Interval
<1>2. CASE k = 0
  BY <1>1, <1>2
<1>3. CASE k # 0
  BY <1>1, <1>3
<1>. QED  BY <1>2, <1>3

\* A count of spent attempts is at most the attempts.
LEMMA EffectsBound ==
    ASSUME TypeOK, FenceInv, EffectsInv
    PROVE  EffectsFollowAttempts
<1>1. ASSUME NEW j \in Jobs
      PROVE  /\ job[j].attempts <= MaxAttempts
             /\ events[j] <= job[j].attempts
             /\ evidence[j] <= job[j].attempts
  <2>1. job[j].attempts \in Nat /\ events[j] \in Nat /\ evidence[j] \in Nat
    BY DEF TypeOK, TablesOK
  <2>2. ASSUME NEW places
        PROVE  /\ Cardinality(Spent(j, places)) <= job[j].attempts
               /\ Cardinality(Spent(j, places)) \in Nat
    <3>1. IsFiniteSet(1 .. job[j].attempts) /\ Cardinality(1 .. job[j].attempts) = job[j].attempts
      BY <2>1, CountUpTo
    <3>2. Spent(j, places) \in SUBSET (1 .. job[j].attempts)
      BY DEF Spent
    <3>3. Cardinality(Spent(j, places)) <= Cardinality(1 .. job[j].attempts)
      BY <3>1, <3>2, FS_Subset
    <3>. QED  BY <3>1, <3>3, SpentFinite
  <2>3. /\ events[j] <= Cardinality(Spent(j, BeforeEvent))
        /\ evidence[j] <= Cardinality(Spent(j, BeforeEvidence))
    BY DEF EffectsInv, EffectsCounted
  <2>4. /\ Cardinality(Spent(j, BeforeEvent)) <= job[j].attempts
        /\ Cardinality(Spent(j, BeforeEvent)) \in Nat
        /\ Cardinality(Spent(j, BeforeEvidence)) <= job[j].attempts
        /\ Cardinality(Spent(j, BeforeEvidence)) \in Nat
    BY <2>2
  <2>5. job[j].attempts <= MaxAttempts
    BY DEF FenceInv
  <2>. QED  BY <2>1, <2>3, <2>4, <2>5
<1>. QED  BY <1>1 DEF EffectsFollowAttempts, EffectsBounded, EffectsInv

\* Retries never leave more than one event and one evidence row for each
\* attempt, and a request that reads SUCCEEDED has all four effects, whatever
\* crashes, is slow, is signalled or loses its answer.
THEOREM EffectsAccounted == Spec => []EffectsFollowAttempts
<1>1. Init => TypeOK /\ FenceInv /\ EffectsInv
  BY TypeInit, FenceInit, EffectsInit
<1>2. TypeOK /\ FenceInv /\ EffectsInv /\ [Next]_vars => TypeOK' /\ FenceInv' /\ EffectsInv'
  BY TypeStep, FenceStep, EffectsStep
<1>3. TypeOK /\ FenceInv /\ EffectsInv => EffectsFollowAttempts
  BY EffectsBound
<1>. QED  BY <1>1, <1>2, <1>3, PTL DEF Spec
=============================================================================
