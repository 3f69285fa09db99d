----------------------------- MODULE LiveWorker -----------------------------
(***************************************************************************)
(* The asynchronous worker of ACORN LIVE, live/worker.mjs.                 *)
(*                                                                         *)
(* Any number of worker processes poll one PostgreSQL table, acorn_jobs.   *)
(* One turn of a process's loop (a "tick") requeues stale rows, ingests    *)
(* the requests and orders that have no job yet, claims a batch of queued  *)
(* jobs in a transaction and executes them one after the other.  Every     *)
(* SQL statement outside the claim transaction commits on its own, so one  *)
(* action of this module is one statement: any other process, the SIGTERM  *)
(* handler of the same process and a crash can come between two of them.   *)
(*                                                                         *)
(* An element of Workers is one instance the platform runs, with the       *)
(* WORKER_ID its environment sets; the platform starts it again when its   *)
(* process has ended.  (Without that variable every start draws a fresh    *)
(* identifier, which is the start of another element of Workers.)          *)
(***************************************************************************)
EXTENDS Integers, FiniteSets

CONSTANTS
    Workers,      \* worker instances, restarted by the platform
    NoWorker,     \* worker_id IS NULL
    Jobs,         \* the rows acorn_jobs may ever hold
    RequestJobs,  \* the jobs of kind CUSTOMER_REQUEST; the others are commercial
    Ingested,     \* jobs the worker inserts itself; the commercial API enqueues the others
    CreatedAt,    \* rank of created_at, the order in which jobs are claimed
    MaxAttempts,  \* max_attempts of a row
    BatchLimit,   \* LIMIT of the claim query
    Faults,       \* the mishaps this instance admits, see FaultKinds
    MaxMishaps    \* bound on their number in a behaviour

(***************************************************************************)
(* What can go wrong.  "error": a statement is rejected and has no effect. *)
(* "lostAnswer": a statement takes effect but the client sees an error.    *)
(* "crash": a process is killed.  "sigterm": a process is told to stop.    *)
(* "erase": the customer row is deleted, which cascades to its requests.   *)
(* "slow": a process may still be busy with a row when STALE_MS has gone   *)
(* by since it claimed it; without it a batch always ends in time.         *)
(***************************************************************************)
FaultKinds == {"error", "lostAnswer", "crash", "sigterm", "erase", "slow"}

ASSUME ConstantsAssumption ==
    /\ NoWorker \notin Workers
    /\ RequestJobs \subseteq Jobs
    /\ RequestJobs \subseteq Ingested
    /\ Ingested \subseteq Jobs
    /\ IsFiniteSet(Jobs)
    /\ CreatedAt \in [Jobs -> Nat]
    /\ \A j, k \in Jobs : CreatedAt[j] = CreatedAt[k] => j = k
    /\ MaxAttempts \in Nat \ {0}
    /\ BatchLimit \in Nat \ {0}
    /\ MaxMishaps \in Nat
    /\ Faults \subseteq FaultKinds

VARIABLES
    source,     \* the requests / commercial_orders row a job is about
    job,        \* table acorn_jobs
    stale,      \* rows whose updated_at is older than STALE_MS
    qualified,  \* requests whose status the worker has set
    events,     \* WORKER_EXECUTION_COMPLETED rows in events, by job
    evidence,   \* worker_execution rows in acorn_evidence, by job
    projected,  \* requests whose PROJECT state the worker has written
    pc,         \* the statement the main loop of a process is at
    batch,      \* the claimed rows a process has still to execute
    phase,      \* how far the SIGTERM handler of a process has come
    mishaps     \* number of mishaps so far

effects == <<qualified, events, evidence, projected>>
vars == <<source, job, stale, qualified, events, evidence, projected,
          pc, batch, phase, mishaps>>

-----------------------------------------------------------------------------
(* Types.                                                                  *)

Finished == {"SUCCEEDED", "FAILED"}
JobStates == {"ABSENT", "QUEUED", "RUNNING"} \cup Finished

\* A row as the claim query returned it: attempts is the value at that time.
ClaimedRow == [id : Jobs, attempts : Nat]

TryStatements == {"status", "event", "evidence", "project", "succeed"}
OrderStatements == {"observe", "succeedOrder"}
Dead == {"off", "exited", "crashed"}
Places == Dead \cup TryStatements \cup OrderStatements \cup
          {"reclaim", "ingestRequests", "ingestOrders", "claim", "commit",
           "lookup", "notFound", "catch", "halt"}

TablesOK ==
    /\ source \in [Jobs -> {"none", "present", "erased"}]
    /\ job \in [Jobs -> [state : JobStates, attempts : Nat,
                         worker : Workers \cup {NoWorker}]]
    /\ stale \subseteq Jobs
    /\ qualified \subseteq Jobs
    /\ events \in [Jobs -> Nat]
    /\ evidence \in [Jobs -> Nat]
    /\ projected \subseteq Jobs

LoopOK ==
    /\ pc \in [Workers -> Places]
    /\ batch \in [Workers -> SUBSET ClaimedRow]

SignalsOK ==
    /\ phase \in [Workers -> {"up", "stopping", "requeued", "closing"}]
    /\ mishaps \in Nat

TypeOK == TablesOK /\ LoopOK /\ SignalsOK

Init ==
    /\ source = [j \in Jobs |-> "none"]
    /\ job = [j \in Jobs |-> [state |-> "ABSENT", attempts |-> 0, worker |-> NoWorker]]
    /\ stale = {}
    /\ qualified = {}
    /\ events = [j \in Jobs |-> 0]
    /\ evidence = [j \in Jobs |-> 0]
    /\ projected = {}
    /\ pc = [w \in Workers |-> "off"]
    /\ batch = [w \in Workers |-> {}]
    /\ phase = [w \in Workers |-> "up"]
    /\ mishaps = 0

-----------------------------------------------------------------------------
(* Vocabulary of the actions.                                              *)

Alive(w) == pc[w] \notin Dead
Stopping(w) == phase[w] # "up"

\* Rows a claim transaction has updated and not yet committed: row locks.
Locked == UNION {{r.id : r \in batch[w]} : w \in {v \in Workers : pc[v] = "commit"}}

\* Rows in the hands of a process, claimed and committed.
Holds(w, j) == pc[w] # "commit" /\ \E r \in batch[w] : r.id = j

\* The row the loop over the batch is at: rows come in the order of created_at.
Current(w, r) ==
    /\ r \in batch[w]
    /\ \A q \in batch[w] : CreatedAt[r.id] <= CreatedAt[q.id]

Mishap(kind) ==
    /\ kind \in Faults
    /\ mishaps < MaxMishaps
    /\ mishaps' = mishaps + 1

\* The main loop goes on to another statement for the same row.  Once the
\* pool is closing the next pool.query is rejected and the loop ends.
Continue(w, place) ==
    IF phase[w] = "closing"
    THEN /\ pc' = [pc EXCEPT ![w] = "halt"]
         /\ batch' = [batch EXCEPT ![w] = {}]
    ELSE /\ pc' = [pc EXCEPT ![w] = place]
         /\ UNCHANGED batch

\* The loop over the batch goes on with the rows in rest: none is executed
\* once the process is stopping.
GoOn(w, rest) ==
    /\ batch' = [batch EXCEPT ![w] = IF Stopping(w) THEN {} ELSE rest]
    /\ pc' = [pc EXCEPT ![w] = IF Stopping(w) THEN "halt"
                               ELSE IF rest = {} THEN "reclaim" ELSE "lookup"]

\* WORKER_TICK_ERROR: an error outside execute's try drops the whole batch.
TickError(w) == GoOn(w, {})

\* A plausible bug: errors of the effects are swallowed, as Observe's are.
ThrowSwallowed(w) == Continue(w, "succeed")

\* An error inside execute's try.
Throw(w) == Continue(w, "catch")

NextRow(w, r) == GoOn(w, batch[w] \ {r})

\* Overwrite a row of acorn_jobs: "WHERE id=..." and nothing else.  The
\* statement waits for a row lock and refreshes updated_at.
SetState(j, state) ==
    /\ j \notin Locked
    /\ job' = [job EXCEPT ![j].state = state]
    /\ stale' = stale \ {j}
    /\ UNCHANGED effects

NoWrite == UNCHANGED <<job, stale, effects>>

\* One statement: it succeeds, is rejected, or succeeds with its answer lost.
Statement(write, then, error) ==
    /\ UNCHANGED <<source, phase>>
    /\ \/ write /\ then /\ UNCHANGED mishaps
       \/ NoWrite /\ error /\ Mishap("error")
       \/ write /\ error /\ Mishap("lostAnswer")

-----------------------------------------------------------------------------
(* The rest of the system.                                                 *)

\* POST /requests or POST /orders stores the row a job will be about.
Submit(j) ==
    /\ j \in Ingested
    /\ source[j] = "none"
    /\ source' = [source EXCEPT ![j] = "present"]
    /\ UNCHANGED <<job, stale, effects, pc, batch, phase, mishaps>>

NewJob == [state |-> "QUEUED", attempts |-> 0, worker |-> NoWorker]

\* The commercial API inserts a job in the transaction that stores its order.
Enqueue(j) ==
    /\ j \notin Ingested
    /\ source[j] = "none"
    /\ source' = [source EXCEPT ![j] = "present"]
    /\ job' = [job EXCEPT ![j] = NewJob]
    /\ UNCHANGED <<stale, effects, pc, batch, phase, mishaps>>

\* Deleting a customer deletes its requests and their events (ON DELETE
\* CASCADE); jobs, evidence and states carry no foreign key and stay.
Erase(j) ==
    /\ j \in RequestJobs
    /\ source[j] = "present"
    /\ Mishap("erase")
    /\ source' = [source EXCEPT ![j] = "erased"]
    /\ events' = [events EXCEPT ![j] = 0]
    /\ qualified' = qualified \ {j}
    /\ UNCHANGED <<job, stale, evidence, projected, pc, batch, phase>>

\* STALE_MS go by since the last update of a running row.
RowAges(j) ==
    /\ job[j].state = "RUNNING"
    /\ j \notin stale
    /\ "slow" \in Faults \/ \A w \in Workers : ~Holds(w, j)
    /\ stale' = stale \cup {j}
    /\ UNCHANGED <<source, job, effects, pc, batch, phase, mishaps>>

\* A new process: nothing of an earlier one is left but the tables.
Start(w) ==
    /\ pc[w] \in Dead
    /\ pc' = [pc EXCEPT ![w] = "reclaim"]
    /\ phase' = [phase EXCEPT ![w] = "up"]
    /\ UNCHANGED <<source, job, stale, effects, batch, mishaps>>

Crash(w) ==
    /\ Alive(w)
    /\ Mishap("crash")
    /\ pc' = [pc EXCEPT ![w] = "crashed"]
    /\ batch' = [batch EXCEPT ![w] = {}]
    /\ UNCHANGED <<source, job, stale, effects, phase>>

-----------------------------------------------------------------------------
(* The head of a tick.                                                     *)

\* A plausible bug: the requeue also resets attempts.
RequeueFresh(rows) ==
    /\ job' = [j \in Jobs |-> IF j \in rows
                              THEN [state |-> "QUEUED", attempts |-> 0, worker |-> NoWorker]
                              ELSE job[j]]
    /\ stale' = stale \ rows
    /\ UNCHANGED effects

Requeue(rows) ==
    /\ job' = [j \in Jobs |-> IF j \in rows
                              THEN [job[j] EXCEPT !.state = "QUEUED", !.worker = NoWorker]
                              ELSE job[j]]
    /\ stale' = stale \ rows
    /\ UNCHANGED effects

\* reclaimStale: attempts keeps its value.
Reclaim(w) ==
    /\ pc[w] = "reclaim"
    /\ Statement(Requeue({j \in stale : job[j].state = "RUNNING"}),
                 Continue(w, "ingestRequests"), TickError(w))

Insert(rows) ==
    /\ job' = [j \in Jobs |-> IF j \in rows THEN NewJob ELSE job[j]]
    /\ UNCHANGED <<stale, effects>>

Missing(rows) == {j \in rows : source[j] = "present" /\ job[j].state = "ABSENT"}

IngestRequests(w) ==
    /\ pc[w] = "ingestRequests"
    /\ Statement(Insert(Missing(RequestJobs)), Continue(w, "ingestOrders"), TickError(w))

IngestOrders(w) ==
    /\ pc[w] = "ingestOrders"
    /\ Statement(Insert(Missing(Ingested \ RequestJobs)), Continue(w, "claim"), TickError(w))

\* Plausible bugs: no row locks; an off-by-one in the attempts left.
ClaimableUnlocked == {j \in Jobs : job[j].state = "QUEUED" /\ job[j].attempts < MaxAttempts}
ClaimableShort == {j \in Jobs \ Locked : job[j].state = "QUEUED" /\ job[j].attempts + 1 < MaxAttempts}

\* What "FOR UPDATE SKIP LOCKED" may return, oldest rows first.
Claimable == {j \in Jobs \ Locked : job[j].state = "QUEUED" /\ job[j].attempts < MaxAttempts}

IsBatch(rows) ==
    /\ rows \subseteq Claimable
    /\ Cardinality(rows) <= BatchLimit
    /\ rows # Claimable => Cardinality(rows) = BatchLimit
    /\ \A j \in rows, k \in Claimable \ rows : CreatedAt[j] < CreatedAt[k]

\* BEGIN, SELECT and UPDATEs: the rows are locked and the change is not yet
\* visible.  With nothing to claim the transaction is empty.
BeginClaim(w) ==
    /\ pc[w] = "claim"
    /\ \E rows \in SUBSET Claimable :
          /\ IsBatch(rows)
          /\ rows # {}
          /\ batch' = [batch EXCEPT ![w] =
                          {[id |-> j, attempts |-> job[j].attempts + 1] : j \in rows}]
          /\ pc' = [pc EXCEPT ![w] = "commit"]
    /\ UNCHANGED <<source, job, stale, effects, phase, mishaps>>

ClaimNothing(w) ==
    /\ pc[w] = "claim"
    /\ Claimable = {}
    /\ GoOn(w, {})
    /\ UNCHANGED <<source, job, stale, effects, phase, mishaps>>

\* A plausible bug: the claim does not count the attempt.
TakeRowsUncounted(w) ==
    /\ job' = [j \in Jobs |->
                 IF \E r \in batch[w] : r.id = j
                 THEN [job[j] EXCEPT !.state = "RUNNING", !.worker = w]
                 ELSE job[j]]
    /\ stale' = stale \ {r.id : r \in batch[w]}
    /\ UNCHANGED effects

TakeRows(w) ==
    /\ job' = [j \in Jobs |->
                 IF \E r \in batch[w] : r.id = j
                 THEN [state |-> "RUNNING", attempts |-> job[j].attempts + 1, worker |-> w]
                 ELSE job[j]]
    /\ stale' = stale \ {r.id : r \in batch[w]}
    /\ UNCHANGED effects

\* COMMIT, or ROLLBACK and rethrow.  The client is checked out of the pool,
\* so a closing pool waits for this transaction.
CommitClaim(w) ==
    /\ pc[w] = "commit"
    /\ Statement(TakeRows(w), GoOn(w, batch[w]), TickError(w))

-----------------------------------------------------------------------------
(* execute(job): the statements for the current row of the batch.          *)

\* SELECT of the request or order, for this tenant.
Lookup(w) ==
    /\ pc[w] = "lookup"
    /\ \E r \in batch[w] :
          /\ Current(w, r)
          /\ LET found == IF r.id \in RequestJobs THEN "status" ELSE "observe"
             IN  Statement(NoWrite,
                           Continue(w, IF source[r.id] = "present" THEN found ELSE "notFound"),
                           TickError(w))

\* REQUEST_NOT_FOUND, ORDER_NOT_FOUND.
NotFound(w) ==
    /\ pc[w] = "notFound"
    /\ \E r \in batch[w] :
          /\ Current(w, r)
          /\ Statement(SetState(r.id, "FAILED"), NextRow(w, r), TickError(w))

WriteStatus(j) ==
    /\ qualified' = IF source[j] = "present" THEN qualified \cup {j} ELSE qualified
    /\ UNCHANGED <<job, stale, events, evidence, projected>>

UpdateStatus(w) ==
    /\ pc[w] = "status"
    /\ \E r \in batch[w] :
          /\ Current(w, r)
          /\ Statement(WriteStatus(r.id), Continue(w, "event"), Throw(w))

AppendEvent(j) ==
    /\ events' = [events EXCEPT ![j] = @ + 1]
    /\ UNCHANGED <<job, stale, qualified, evidence, projected>>

\* events.request_id references requests(id): without the request it fails.
InsertEvent(w) ==
    /\ pc[w] = "event"
    /\ \E r \in batch[w] :
          /\ Current(w, r)
          /\ IF source[r.id] = "present"
             THEN Statement(AppendEvent(r.id), Continue(w, "evidence"), Throw(w))
             ELSE Throw(w) /\ NoWrite /\ UNCHANGED <<source, phase, mishaps>>

\* A fresh evidence id on every execution, so ON CONFLICT never applies.
AppendEvidence(j) ==
    /\ evidence' = [evidence EXCEPT ![j] = @ + 1]
    /\ UNCHANGED <<job, stale, qualified, events, projected>>

InsertEvidence(w) ==
    /\ pc[w] = "evidence"
    /\ \E r \in batch[w] :
          /\ Current(w, r)
          /\ Statement(AppendEvidence(r.id), Continue(w, "project"), Throw(w))

WriteProject(j) ==
    /\ projected' = projected \cup {j}
    /\ UNCHANGED <<job, stale, qualified, events, evidence>>

UpsertProject(w) ==
    /\ pc[w] = "project"
    /\ \E r \in batch[w] :
          /\ Current(w, r)
          /\ Statement(WriteProject(r.id), Continue(w, "succeed"), Throw(w))

Succeed(w) ==
    /\ pc[w] = "succeed"
    /\ \E r \in batch[w] :
          /\ Current(w, r)
          /\ Statement(SetState(r.id, "SUCCEEDED"), NextRow(w, r), Throw(w))

\* Plausible bugs: a state the queue does not know; no bound on the retries.
AfterErrorUnbounded(r) == "QUEUED"

\* catch (e): the decision to retry reads the row as it was claimed.
AfterError(r) == IF r.attempts < MaxAttempts THEN "QUEUED" ELSE "FAILED"

Catch(w) ==
    /\ pc[w] = "catch"
    /\ \E r \in batch[w] :
          /\ Current(w, r)
          /\ Statement(SetState(r.id, AfterError(r)), NextRow(w, r), TickError(w))

\* COMMERCIAL_JOB_OBSERVED is inserted with the order's id as request_id,
\* which no requests row has: the foreign key rejects it, and the error is
\* swallowed.
Observe(w) ==
    /\ pc[w] = "observe"
    /\ Continue(w, "succeedOrder")
    /\ NoWrite
    /\ UNCHANGED <<source, phase, mishaps>>

SucceedOrder(w) ==
    /\ pc[w] = "succeedOrder"
    /\ \E r \in batch[w] :
          /\ Current(w, r)
          /\ Statement(SetState(r.id, "SUCCEEDED"), NextRow(w, r), TickError(w))

-----------------------------------------------------------------------------
(* shutdown(): runs beside the main loop, which goes on until it looks at  *)
(* the flag.                                                               *)

Signal(w) ==
    /\ Alive(w)
    /\ phase[w] = "up"
    /\ Mishap("sigterm")
    /\ phase' = [phase EXCEPT ![w] = "stopping"]
    /\ UNCHANGED <<source, job, stale, effects, pc, batch>>

\* try { UPDATE ... } finally { ... }: an error goes on to the close as well.
RequeueOwn(w) ==
    /\ Alive(w)
    /\ phase[w] = "stopping"
    /\ \/ Requeue({j \in Jobs : job[j].state = "RUNNING" /\ job[j].worker = w})
          /\ UNCHANGED mishaps
       \/ NoWrite /\ Mishap("error")
    /\ phase' = [phase EXCEPT ![w] = "requeued"]
    /\ UNCHANGED <<source, pc, batch>>

\* db.close(): the statement in flight still completes, later ones are rejected.
ClosePool(w) ==
    /\ Alive(w)
    /\ phase[w] = "requeued"
    /\ phase' = [phase EXCEPT ![w] = "closing"]
    /\ UNCHANGED <<source, job, stale, effects, pc, batch, mishaps>>

\* process.exit(0), with no statement in flight.
Exit(w) ==
    /\ phase[w] = "closing"
    /\ pc[w] \in {"reclaim", "halt"}
    /\ pc' = [pc EXCEPT ![w] = "exited"]
    /\ UNCHANGED <<source, job, stale, effects, batch, phase, mishaps>>

-----------------------------------------------------------------------------
Tick(w) == Reclaim(w) \/ IngestRequests(w) \/ IngestOrders(w)
           \/ BeginClaim(w) \/ ClaimNothing(w) \/ CommitClaim(w)

Execute(w) == Lookup(w) \/ NotFound(w) \/ UpdateStatus(w) \/ InsertEvent(w)
              \/ InsertEvidence(w) \/ UpsertProject(w) \/ Succeed(w) \/ Catch(w)
              \/ Observe(w) \/ SucceedOrder(w)

Shutdown(w) == RequeueOwn(w) \/ ClosePool(w) \/ Exit(w)

Next ==
    \/ \E j \in Jobs : Submit(j) \/ Enqueue(j) \/ Erase(j) \/ RowAges(j)
    \/ \E w \in Workers : Start(w) \/ Crash(w) \/ Signal(w)
    \/ \E w \in Workers : Tick(w) \/ Execute(w) \/ Shutdown(w)

Spec == Init /\ [][Next]_vars

\* The event loop of a live process keeps turning, the platform keeps worker
\* processes running, and time passes.
Fairness ==
    /\ \A w \in Workers : WF_vars(Start(w)) /\ WF_vars(Tick(w) \/ Execute(w))
                          /\ WF_vars(Shutdown(w))
    /\ \A j \in Jobs : WF_vars(RowAges(j))

FairSpec == Spec /\ Fairness

-----------------------------------------------------------------------------
(* Properties.                                                             *)

\* Every claim that is still in the hands of a process carries an attempt
\* number of its own: two processes that work on the same job, after a
\* reclaim or a SIGTERM, never do so under the same number, and none is ahead
\* of the row.  The number could serve as a fencing token.
AttemptFence ==
    \A v, w \in Workers : \A q \in batch[v], r \in batch[w] :
        /\ pc[v] # "commit" => q.attempts <= job[q.id].attempts
        /\ q = r => v = w

\* What makes AttemptFence inductive: a claim in flight holds the only next
\* attempt of its rows, and no row in a batch can be created once more.
FenceInv ==
    /\ AttemptFence
    /\ \A w \in Workers : \A r \in batch[w] :
          /\ job[r.id].state # "ABSENT"
          /\ pc[w] = "commit" => /\ r.attempts = job[r.id].attempts + 1
                                 /\ r.attempts <= MaxAttempts
    /\ \A j \in Jobs :
          /\ job[j].attempts <= MaxAttempts
          /\ job[j].state = "ABSENT" => job[j].attempts = 0
          /\ source[j] = "none" => job[j].state = "ABSENT"

\* Retries are bounded and so is what they leave behind: a job is executed at
\* most MaxAttempts times, and it never has more completion events or more
\* evidence rows than it has been claimed, whatever crashes, is slow or is
\* signalled.
EffectsBounded ==
    \A j \in Jobs : /\ job[j].attempts <= MaxAttempts
                    /\ events[j] <= job[j].attempts
                    /\ evidence[j] <= job[j].attempts

\* A request job that reads SUCCEEDED has all that its execution writes: the
\* status, a completion event, an evidence row and the project state, although
\* they are separate statements and the row may be written by another process
\* than the one recorded in it.
SucceededHasEffects ==
    \A j \in RequestJobs :
        job[j].state = "SUCCEEDED" /\ source[j] = "present" =>
            /\ j \in qualified
            /\ j \in projected
            /\ events[j] >= 1
            /\ evidence[j] >= 1

\* What jobs leave behind is neither too much nor too little: retries do not
\* multiply it past the attempts, and success does not come without it.
EffectsFollowAttempts == EffectsBounded /\ SucceededHasEffects

\* As long as no process is slow, signalled or misled by a lost answer, the
\* row of a job in somebody's hands is RUNNING, names that process and counts
\* that attempt: no two processes hold it, and nobody else finished it.
HolderOwnsRow ==
    \A w \in Workers : \A r \in batch[w] :
        pc[w] # "commit" => job[r.id] = [state |-> "RUNNING", attempts |-> r.attempts, worker |-> w]

\* Under the same conditions every row of the table lives the life that the
\* durable job queue describes: only RUNNING jobs finish, a failure is retried
\* until the attempts are used up, and a finished job stays as it is.
Table == INSTANCE JobLifecycle
    WITH job <- job, Jobs <- Jobs, Workers <- Workers,
         NoWorker <- NoWorker, MaxAttempts <- MaxAttempts
FollowsLifecycle == Table!Spec

\* A finished job stays finished: no process, however late, takes a job back
\* that the table already shows as SUCCEEDED or FAILED.
FinishedIsFinal ==
    [][\A j \in Jobs : job[j].state \in Finished => job'[j].state = job[j].state]_vars

\* SIGTERM requeues in-flight work: when a process has exited after its
\* handler ran without an error, no row is left RUNNING in its name.
\* Not kept by the code: a claim that commits after the UPDATE of the
\* handler stays RUNNING until STALE_MS have gone by.
SigtermRequeues ==
    \A w \in Workers : pc[w] = "exited" =>
        \A j \in Jobs : ~(job[j].state = "RUNNING" /\ job[j].worker = w)

\* A queued job is executed to the end, one way or the other, as long as its
\* attempts last: only a job whose last process was killed can be left over,
\* queued with no attempt to its credit.
Settled(j) ==
    \/ job[j].state \in Finished
    \/ job[j].state = "QUEUED" /\ job[j].attempts = MaxAttempts
QueuedJobsFinish == \A j \in Jobs : job[j].state = "QUEUED" ~> Settled(j)
=============================================================================
