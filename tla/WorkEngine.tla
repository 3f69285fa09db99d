----------------------------- MODULE WorkEngine -----------------------------
(***************************************************************************)
(* The continuous work engine, scripts/acorn-work-engine.mjs, driven by    *)
(* the loop of scripts/acorn-cloud-runner.mjs: every run reads the state   *)
(* file, discovers work, takes it in the order of its priority while the   *)
(* governor's budget lasts, and at its end alone writes the state file.    *)
(*                                                                         *)
(* The process may die anywhere: it is killed, or a task throws, which     *)
(* nothing catches.  The file is not replaced but rewritten, so that a     *)
(* death in between leaves one that does not parse, and the next run takes *)
(* it for an absent one.  Under GitHub Actions a cancelled job is such a   *)
(* death, and the artifact is the file.                                    *)
(*                                                                         *)
(* Scores, the tasks themselves and the counters that nothing reads        *)
(* (attempts, cycle_count, history) are left out.                          *)
(***************************************************************************)
EXTENDS ResourceGovernor, FiniteSets

CONSTANTS
    Work, NoWork,
    Always,     \* the work every discovery pushes
    Priority,   \* scoreWork, the same in every run
    Cost,       \* resource_cost of defaultTaskFor
    MaxTasks,   \* ACORN_WORK_MAX_TASKS
    MaxDeaths   \* bound on the deaths of the process

ASSUME EngineAssumption ==
    /\ NoWork \notin Work
    /\ Always \subseteq Work
    /\ Priority \in [Work -> Nat]
    /\ Cost \in [Work -> Usage]
    /\ MaxTasks \in Nat \ {0}
    /\ MaxDeaths \in Nat

VARIABLES
    file,     \* the state file, as a run that reads it now would take it
    pc,       \* where the runner is
    run,      \* the run in progress
    stopping, \* SIGTERM or SIGINT was received
    deaths,   \* how often the process died
    spent     \* history: what the tasks started so far have consumed

vars == <<file, pc, run, stopping, deaths, spent>>

Terminal == {"COMPLETED", "REJECTED", "QUARANTINED"}
Living == {"READY", "VERIFYING", "BLOCKED_BUDGET", "WAITING_HUMAN"}
NotQueued == "absent"
QueueStates == Living \cup Terminal \cup {NotQueued}

Snapshot == [queue : [Work -> QueueStates], usage : Usage]
Run == [queue : [Work -> QueueStates], \* graph.queue, with the results so far
        todo : SUBSET Work,            \* candidates the loop has not come to
        human : SUBSET Work,           \* human_required
        task : Work \cup {NoWork}, completed : SUBSET Work, usage : Usage]

Absent == [queue |-> [w \in Work |-> NotQueued], usage |-> NoUsage]
NoRun == [queue |-> [w \in Work |-> NotQueued], todo |-> {}, human |-> {}, task |-> NoWork,
          completed |-> {}, usage |-> NoUsage]

TypeOK ==
    /\ file \in Snapshot
    /\ pc \in {"between", "consider", "execute", "write", "stopped", "dead"}
    /\ run \in Run
    /\ stopping \in BOOLEAN
    /\ deaths \in 0 .. MaxDeaths
    /\ spent \in Usage

Init ==
    /\ file = Absent
    /\ pc = "between"
    /\ run = NoRun
    /\ stopping = FALSE
    /\ deaths = 0
    /\ spent = NoUsage

-----------------------------------------------------------------------------
(* What a run knows. *)

(* The state of discovered work, given the state the file has for it. *)
Carried(prior) == IF prior \in {NotQueued, "COMPLETED"} THEN "READY" ELSE prior

(* What canonicalWorkFromRuntime may find. *)
Discoveries == {found \in SUBSET Work : Always \subseteq found}

Ranked(queue) == {w \in Work : queue[w] \notin Terminal \cup {NotQueued}}
Queued(queue) == [w \in Work |-> IF w \in Ranked(queue) THEN queue[w] ELSE NotQueued]

First(w) == w \in run.todo /\ \A v \in run.todo : Priority[v] <= Priority[w]
Affordable(w) == CanConsume(run.usage, Cost[w])
Full == Cardinality(run.completed) >= MaxTasks
(* Mutant: the loop is left at the first candidate the budget does not pay for. *)
FinishedAtHold == run.todo = {} \/ Full \/ \E w \in Work \ run.todo : run.queue[w] = "BLOCKED_BUDGET"
Finished == run.todo = {} \/ Full

-----------------------------------------------------------------------------
(* The loop of the runner. *)

(* Mutant: the flag is looked at only by the run that is about to begin. *)
ContinuesAnyhow == TRUE
Continues == ~ stopping

StartRun ==
    /\ pc = "between" /\ Continues
    /\ \E found \in Discoveries, human \in SUBSET (Work \ Always) :
        /\ human \subseteq found
        /\ LET graph == [w \in Work |-> IF w \in found THEN Carried(file.queue[w]) ELSE NotQueued]
           IN run' = [NoRun EXCEPT !.queue = Queued(graph), !.todo = Ranked(graph),
                                   !.human = human, !.usage = file.usage]
    /\ pc' = "consider"
    /\ UNCHANGED <<file, stopping, deaths, spent>>

StopRunner ==
    /\ pc = "between" /\ ~ Continues
    /\ pc' = "stopped"
    /\ UNCHANGED <<file, run, stopping, deaths, spent>>

Signal ==
    /\ pc \notin {"stopped", "dead"} /\ ~ stopping
    /\ stopping' = TRUE
    /\ UNCHANGED <<file, pc, run, deaths, spent>>

-----------------------------------------------------------------------------
(* A run: the candidates in order, one task at a time. *)

Blocked(w, state) ==
    /\ run' = [run EXCEPT !.todo = @ \ {w}, !.queue[w] = state]
    /\ UNCHANGED <<file, pc, stopping, deaths, spent>>

HoldForHuman ==
    /\ pc = "consider" /\ ~ Finished
    /\ \E w \in run.human : First(w) /\ Blocked(w, "WAITING_HUMAN")

HoldForBudget ==
    /\ pc = "consider" /\ ~ Finished
    /\ \E w \in Work \ run.human : First(w) /\ ~ Affordable(w) /\ Blocked(w, "BLOCKED_BUDGET")

Execute ==
    /\ pc = "consider" /\ ~ Finished
    /\ \E w \in Work \ run.human :
        /\ First(w) /\ Affordable(w)
        /\ run' = [run EXCEPT !.todo = @ \ {w}, !.task = w, !.usage = Reserved(@, Cost[w])]
        /\ spent' = Reserved(spent, Cost[w])
    /\ pc' = "execute"
    /\ UNCHANGED <<file, stopping, deaths>>

(* What executeWorkTask answers, if it answers. *)
Outcomes == {"COMPLETED", "FAILED", "WAITING_HUMAN"}

Executed ==
    /\ pc = "execute"
    /\ \E w \in Work, outcome \in Outcomes :
        /\ w = run.task
        /\ run' = [run EXCEPT !.task = NoWork,
                !.queue[w] = IF outcome = "COMPLETED" THEN "COMPLETED" ELSE "VERIFYING",
                !.completed = IF outcome = "COMPLETED" THEN @ \cup {w} ELSE @]
    /\ pc' = "consider"
    /\ UNCHANGED <<file, stopping, deaths, spent>>

(* writeFileSync: the file is emptied, and then it has the new content. *)
BeginWrite ==
    /\ pc = "consider" /\ Finished
    /\ file' = Absent
    /\ pc' = "write"
    /\ UNCHANGED <<run, stopping, deaths, spent>>

EndWrite ==
    /\ pc = "write"
    /\ file' = [queue |-> Queued(run.queue), usage |-> run.usage]
    /\ run' = NoRun
    /\ pc' = "between"
    /\ UNCHANGED <<stopping, deaths, spent>>

-----------------------------------------------------------------------------
(* The process: a kill or an exception, and whoever starts it again. *)

Die ==
    /\ pc \notin {"stopped", "dead"} /\ deaths < MaxDeaths
    /\ pc' = "dead"
    /\ deaths' = deaths + 1
    /\ run' = NoRun
    /\ stopping' = FALSE
    /\ UNCHANGED <<file, spent>>

Restart ==
    /\ pc \in {"stopped", "dead"}
    /\ pc' = "between"
    /\ stopping' = FALSE
    /\ UNCHANGED <<file, run, deaths, spent>>

Engine ==
    \/ StartRun \/ StopRunner
    \/ HoldForHuman \/ HoldForBudget \/ Execute \/ Executed
    \/ BeginWrite \/ EndWrite

Next == Engine \/ Signal \/ Die \/ Restart

Spec == Init /\ [][Next]_vars
(* The loop goes on by itself: every await of it ends, tasks have a timeout. *)
FairSpec == Spec /\ WF_vars(Engine)

-----------------------------------------------------------------------------
(* Properties. *)

(* However often the process dies, and whatever it forgets of what it had      *)
(* consumed, each death costs at most one budget: runContinuousWorkEngine      *)
(* reserves before it executes and keeps the usage from run to run.            *)
BudgetPerLife ==
    \A axis \in Axes : spent[axis] <= (deaths + 1) * Limits[axis]

(* A run that ends has left nothing undone that it might have done: work that  *)
(* was ranked and not executed waits for a human, or what is left of the       *)
(* budget does not pay for it, or the run had completed its MaxTasks.          *)
NothingAffordableSkipped ==
    pc = "write" =>
        \A w \in Ranked(run.queue) :
            \/ Full
            \/ run.queue[w] = "VERIFYING" /\ w \notin run.todo
            \/ w \in run.human
            \/ ~ Affordable(w)

(* A runner that was told to stop stops, with the run in progress ended and    *)
(* written, unless it dies first (runCloudRunner).                             *)
SignalStops == stopping ~> pc \in {"stopped", "dead"}

(* Work goes on: what is completed and rediscovered is executed again, so that *)
(* a runner that lives always comes to another task ("COMPLETED -> OBSERVE     *)
(* AGAIN -> RE-MEASURE -> RE-RANK -> CONTINUE").                               *)
(* Not kept by the code: the usage is carried over and never lowered.          *)
KeepsWorking == []<>(pc \in {"execute", "stopped", "dead"})
=============================================================================
