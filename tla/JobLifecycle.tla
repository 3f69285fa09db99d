---------------------------- MODULE JobLifecycle ----------------------------
(***************************************************************************)
(* The life of durable jobs, scripts/acorn-durable-job-queue.mjs:          *)
(* QUEUED -> RUNNING -> SUCCEEDED | FAILED, with bounded retries, and      *)
(* BLOCKED or CANCELLED at any time once a job exists.                     *)
(*                                                                         *)
(* Those functions are pure: they map a job record to the next one.  The   *)
(* live worker adds one step, Requeue, for a job whose process is gone.    *)
(* This is what a table of jobs promises to whoever reads it, whatever the *)
(* number of processes behind it; one transaction may change many jobs.    *)
(***************************************************************************)
EXTENDS Integers

CONSTANTS Jobs, Workers, NoWorker, MaxAttempts

VARIABLE job    \* job[j] is the record of job j; "ABSENT" before createJob

Absent == [state |-> "ABSENT", attempts |-> 0, worker |-> NoWorker]

Init == job = [j \in Jobs |-> Absent]

Create(j) ==
    /\ job[j] = Absent
    /\ job'[j] = [Absent EXCEPT !.state = "QUEUED"]

Claim(j, w) ==
    /\ job[j].state = "QUEUED"
    /\ job'[j] = [state |-> "RUNNING", attempts |-> job[j].attempts + 1, worker |-> w]

Succeed(j) ==
    /\ job[j].state = "RUNNING"
    /\ job'[j] = [job[j] EXCEPT !.state = "SUCCEEDED"]

Fail(j, retry) ==
    /\ job[j].state = "RUNNING"
    /\ job'[j] = [job[j] EXCEPT !.state = IF retry /\ job[j].attempts < MaxAttempts
                                          THEN "QUEUED" ELSE "FAILED"]

Block(j) ==
    /\ job[j].state # "ABSENT"
    /\ job'[j] = [job[j] EXCEPT !.state = "BLOCKED"]

Cancel(j) ==
    /\ job[j].state # "ABSENT"
    /\ job'[j] = [job[j] EXCEPT !.state = "CANCELLED"]

\* The worker's recovery of a row left RUNNING.
Requeue(j) ==
    /\ job[j].state = "RUNNING"
    /\ job'[j] = [job[j] EXCEPT !.state = "QUEUED", !.worker = NoWorker]

Step(j) ==
    \/ Create(j)
    \/ \E w \in Workers : Claim(j, w)
    \/ Succeed(j)
    \/ \E retry \in BOOLEAN : Fail(j, retry)
    \/ Block(j)
    \/ Cancel(j)
    \/ Requeue(j)

Next ==
    /\ DOMAIN job' = Jobs
    /\ \A j \in Jobs : Step(j) \/ job'[j] = job[j]

Spec == Init /\ [][Next]_job
=============================================================================
