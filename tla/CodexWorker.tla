---------------------------- MODULE CodexWorker ----------------------------
(***************************************************************************)
(* The autonomous Codex worker, scripts/codex-autonomous-worker.mjs with   *)
(* the decisions of scripts/codex-autonomy.mjs: a run is triggered, takes  *)
(* tasks from the issues one by one, lets Codex edit the worktree, tests,  *)
(* closes the issue and at its end publishes one pull request.             *)
(*                                                                         *)
(* GitHub runs one job at a time for a branch.  Carl, who merges, and      *)
(* whoever opens issues act between the steps of a run.  The worktree is   *)
(* gone when the job ends; the memory is what the last job that ended      *)
(* saved.  An event tells its SHA, and the events of the branch start runs *)
(* in their order; the checkout may be later.  Scores, prompts, statuses   *)
(* and the hours of debounce and cooldown are left out: which independent  *)
(* task is best, and whether a delay is over, is a choice.                 *)
(***************************************************************************)
EXTENDS Integers, FiniteSets

CONSTANTS
    Tasks, NoTask,
    SharesFiles, \* pairs of tasks whose metadata name a common file
    Triggers,    \* the events that start a run, see TriggerKinds
    Faults,      \* the mishaps this instance admits, see FaultKinds
    MaxTasks,    \* CODEX_MAX_TASKS
    MaxRepair,   \* CODEX_REPAIR_ATTEMPTS
    MaxSame,     \* MAX_IDENTICAL_ERRORS
    MaxSha,      \* bound on the commits of main
    MaxRuns      \* bound on the runs

TriggerKinds == {"schedule", "push", "issues", "failure", "dispatch"}
(***************************************************************************)
(* "crash": the job dies; "amnesia": no artifact of an earlier run is      *)
(* found; "checkout": the memory that a dispatch copies from the checkout  *)
(* is no stub, but the last one saved; "issues", "prs", "close",           *)
(* "publish": GitHub refuses that call; "auth": there is no                *)
(* authentication.                                                         *)
(***************************************************************************)
FaultKinds == {"crash", "amnesia", "checkout", "issues", "prs", "close", "publish", "auth"}

ASSUME WorkerConstants ==
    /\ NoTask \notin Tasks
    /\ SharesFiles \subseteq Tasks \X Tasks
    /\ \A t, u \in Tasks : <<t, u>> \in SharesFiles => <<u, t>> \in SharesFiles
    /\ Triggers \subseteq TriggerKinds
    /\ Faults \subseteq FaultKinds
    /\ {MaxTasks, MaxRepair, MaxSame, MaxSha, MaxRuns} \subseteq Nat

VARIABLES
    issue,  \* the issues with the label codex-task
    prs,    \* the open pull requests of codex/ branches
    main,   \* the SHA of main
    memory, \* worker-memory.json as it was last saved
    run,    \* the run in progress
    runs,   \* how many were started
    event,  \* the SHA of the event of the last one
    owed,   \* history: tasks reported as completed with changes of their own, until
            \* Carl decides on them or an error takes them
    failed  \* history: tasks given up, with the SHA, that the memory should know

vars == <<issue, prs, main, memory, run, runs, event, owed, failed>>
started == <<runs, event>>
github == <<issue, prs, main>>

Shas == 0 .. MaxSha
IssueStates == {"absent", "open", "closed"}
Outcomes == {"PATCHED", "NO_CHANGE", "FAILED"}
Categories == {"AUTH", "ENVIRONMENT", "PERMISSION", "OTHER"}
Places == {"idle", "gate", "select", "codex", "judge", "test", "repair", "close", "finish"}

Memory == [skipped : SUBSET (Tasks \X Shas), \* skipped_tasks
           errors : [Shas -> 0 .. MaxSame],  \* error_signatures, one error per SHA
           cooled : SUBSET Shas,             \* cooldowns
           measured : SUBSET Shas,           \* the SHA of the last measurement
           synced : SUBSET Shas]             \* last_main_sha
PullRequest == [tasks : SUBSET Tasks, content : SUBSET Tasks]

Run == [pc : Places, trigger : TriggerKinds,
        hint : Shas, sha : Shas, \* CODEX_HEAD_SHA, and the SHA that was checked out
        known : BOOLEAN, memory : Memory,
        skipped : SUBSET Tasks, completed : SUBSET Tasks, task : Tasks \cup {NoTask},
        attempt : 0 .. MaxRepair, repairs : 0 .. MaxRepair, \* of the Codex run, of the tests
        cheaper : BOOLEAN, \* CODEX_CHEAPER_TRIED
        outcome : Outcomes, category : Categories, patchSource : BOOLEAN,
        dirty : SUBSET Tasks, committed : SUBSET Tasks] \* whose changes the worktree holds

TypeOK ==
    /\ issue \in [Tasks -> IssueStates]
    /\ prs \subseteq PullRequest
    /\ main \in Shas
    /\ memory \in Memory
    /\ run \in Run
    /\ runs \in 0 .. MaxRuns
    /\ event \in Shas
    /\ owed \subseteq Tasks
    /\ failed \subseteq Tasks \X Shas

EmptyMemory == [skipped |-> {}, errors |-> [s \in Shas |-> 0], cooled |-> {},
                measured |-> {}, synced |-> {}]
Idle == [pc |-> "idle", trigger |-> "dispatch", hint |-> 0, sha |-> 0, known |-> FALSE,
         memory |-> EmptyMemory, skipped |-> {}, completed |-> {}, task |-> NoTask,
         attempt |-> 0, repairs |-> 0,
         cheaper |-> FALSE, outcome |-> "NO_CHANGE", category |-> "OTHER",
         patchSource |-> FALSE, dirty |-> {}, committed |-> {}]

Init ==
    /\ issue \in [Tasks -> {"absent", "open"}]
    /\ prs = {}
    /\ main = 0
    /\ memory = EmptyMemory
    /\ run = Idle
    /\ runs = 0
    /\ event = 0
    /\ owed = {}
    /\ failed = {}

At(place) == run.pc = place
GoTo(place) == run' = [run EXCEPT !.pc = place]
Open == {t \in Tasks : issue[t] = "open"}
Tree == run.dirty \cup run.committed
history == <<owed, failed>>
-----------------------------------------------------------------------------
(***************************************************************************)
(* The end of a run.  The memory keeps the skipped tasks of this run       *)
(* alone, at the SHA of its event, and the SHA the worktree ended at: when *)
(* Codex committed that is none of main.                                   *)
(***************************************************************************)
SavedWithoutSkips == [run.memory EXCEPT !.measured = {run.sha}]
Saved == [run.memory EXCEPT
             !.skipped = {<<t, run.hint>> : t \in run.skipped},
             !.measured = IF run.committed = {} THEN {run.sha} ELSE {}]

End ==
    /\ run' = Idle
    /\ memory' = Saved

\* stop(): the evidence is written, nothing is published.
Stop ==
    /\ End
    /\ UNCHANGED <<github, started, failed>>

StopOnError ==
    /\ Stop
    /\ owed' = owed \ Tree

Crash ==
    /\ "crash" \in Faults
    /\ ~At("idle")
    /\ run' = Idle
    /\ owed' = owed \ Tree
    /\ failed' = failed \ (run.skipped \X {run.hint})
    /\ UNCHANGED <<github, memory, started>>

(***************************************************************************)
(* The beginning.  The memory comes from the last run, or is empty when    *)
(* nothing of it is found.  A dispatch copies that of the checkout and     *)
(* empties its skips, all or those of one task; a stub has no continuity,  *)
(* and gives way to the last run's, skips and all.                         *)
(***************************************************************************)
ExplicitWake(mem, tasks) == [mem EXCEPT !.skipped = {s \in @ : s[1] \notin tasks}]

\* The memories a run may begin with, and the tasks whose skips are gone from it.
RestoredMemories(trigger) ==
    {<<memory, {}>>}
    \cup (IF "amnesia" \in Faults THEN {<<EmptyMemory, Tasks>>} ELSE {})
    \cup (IF "checkout" \in Faults /\ trigger = "dispatch"
          THEN {<<ExplicitWake(memory, tasks), tasks>> : tasks \in {Tasks} \cup {{t} : t \in Tasks}}
          ELSE {})

\* Skips count for the SHA they were made at.  A push tells the SHA before it, in
\* place of one the memory does not know; where it is another, all skips go.
SkippedForSha(mem, sha) == {t \in Tasks : <<t, sha>> \in mem.skipped}
PreviousSha(mem, trigger, hint) ==
    IF mem.synced = {} /\ trigger = "push" THEN {hint - 1} ELSE mem.synced
AfterMergeSync(mem, previous, hint) ==
    IF previous \in {{}, {hint}} THEN mem
    ELSE [mem EXCEPT !.synced = {hint}, !.cooled = @ \cap {hint}, !.skipped = {}]

Start(trigger, hint, mem, gone) ==
    /\ At("idle")
    /\ runs < MaxRuns
    /\ hint \in event .. main
    /\ trigger = "push" => hint > 0
    /\ <<mem, gone>> \in RestoredMemories(trigger)
    /\ runs' = runs + 1
    /\ event' = hint
    /\ LET previous == PreviousSha(mem, trigger, hint)
           synced == AfterMergeSync(mem, previous, hint)
       IN  run' = [Idle EXCEPT !.pc = "gate", !.trigger = trigger, !.hint = hint, !.sha = main,
                               !.known = previous = {hint}, !.memory = synced,
                               !.skipped = SkippedForSha(synced, hint)]
    /\ failed' = IF trigger = "push" /\ mem.synced = {} THEN {}
                 ELSE {f \in failed : f[1] \notin gone}
    /\ UNCHANGED <<github, memory, owed>>

\* applyLoopGuards: a schedule may have to wait for this SHA.
MustWait == \/ run.hint \in run.memory.measured
            \/ run.hint \in run.memory.cooled
\* evaluateTrigger: an error seen MaxSame times is not repaired once more.
Repeated == run.memory.errors[run.hint] >= MaxSame
\* wakeOpenCodexTask: main has not moved since the last run, and among the issues
\* that were listed no open task is left to run.
NothingNew(listed) == run.known /\ listed \subseteq run.skipped

\* A list of issues, or of pull requests, that GitHub refuses counts as empty.
ListedIssues == {Open} \cup (IF "issues" \in Faults THEN {{}} ELSE {})
ListedPrs == {prs} \cup (IF "prs" \in Faults THEN {{}} ELSE {})

Stops(listed) ==
    \/ run.trigger = "failure" /\ Repeated
    \/ run.trigger = "push" /\ NothingNew(listed)

GateStops ==
    /\ At("gate")
    /\ \/ run.trigger = "schedule" /\ MustWait
       \/ \E listed \in ListedIssues : Stops(listed)
    /\ Stop
    /\ UNCHANGED owed

BlameForever(mem, sha) == [mem EXCEPT !.errors[sha] = @ + 1]
Blame(mem, sha) == [mem EXCEPT !.errors[sha] = IF @ < MaxSame THEN @ + 1 ELSE @]
CoolDown(mem, sha) == [mem EXCEPT !.cooled = @ \cup {sha}]

\* Without authentication the run only leaves an error and a cooldown behind.
Unauthenticated ==
    /\ At("gate")
    /\ "auth" \in Faults
    /\ \E listed \in ListedIssues : ~Stops(listed)
    /\ run' = Idle
    /\ memory' = CoolDown(Blame(Saved, run.hint), run.hint)
    /\ UNCHANGED <<github, started, history>>

\* What only the gate looks at is forgotten here.
GatePasses ==
    /\ At("gate")
    /\ \E listed \in ListedIssues : ~Stops(listed)
    /\ run' = [run EXCEPT !.pc = "select", !.trigger = "dispatch", !.known = FALSE,
                          !.memory.skipped = {}, !.memory.measured = {}]
    /\ UNCHANGED <<github, memory, started, history>>

-----------------------------------------------------------------------------
(***************************************************************************)
(* The choice of a task.                                                   *)
(***************************************************************************)
Dependent(t, pr) == t \in pr.tasks \/ \E u \in pr.content : <<t, u>> \in SharesFiles
NeverDeferred(t, seen) == FALSE
Deferred(t, seen) == \E pr \in seen : Dependent(t, pr)
Runnable == Open \ run.skipped

ListFails ==
    /\ At("select")
    /\ "issues" \in Faults
    /\ StopOnError

\* Time or the task budget is over, or no task may be taken now.
Leave ==
    /\ At("select")
    /\ GoTo("finish")
    /\ UNCHANGED <<github, memory, started, history>>

Within == Cardinality(run.completed) < MaxTasks

Take(t) == run' = [run EXCEPT !.pc = "codex", !.task = t]

Select(t) ==
    /\ At("select") /\ Within
    /\ t \in Runnable
    /\ \E seen \in ListedPrs : ~Deferred(t, seen)
    /\ Take(t)
    /\ UNCHANGED <<github, memory, started, history>>

\* Nothing is left to run: Codex may find a task that is worth an issue.
Discovers == Runnable = {} /\ (run.skipped = {} \/ run.completed # {})

CreateTask(t) ==
    /\ At("select") /\ Within
    /\ Discovers
    /\ issue[t] = "absent"
    /\ \E seen \in ListedPrs : ~Deferred(t, seen)
    /\ issue' = [issue EXCEPT ![t] = "open"]
    /\ Take(t)
    /\ UNCHANGED <<prs, main, memory, started, history>>

CreateFails ==
    /\ At("select") /\ Within
    /\ "issues" \in Faults
    /\ Discovers
    /\ StopOnError

-----------------------------------------------------------------------------
(***************************************************************************)
(* Codex.  Whatever it ends with it may have edited, and may have          *)
(* committed all there was to commit.  A run that exits 0 is PATCHED when  *)
(* it committed or when anything is dirty, whoever left it so: the         *)
(* worktree as it was before the run is not compared.                      *)
(***************************************************************************)
Edited(edits, commits) ==
    LET changed == run.dirty \cup (IF edits THEN {run.task} ELSE {})
    IN  [run EXCEPT !.dirty = IF commits THEN {} ELSE changed,
                    !.committed = IF commits THEN @ \cup changed ELSE @]

Patched(edits, commits) == commits \/ run.dirty # {} \/ edits

RunCodex(exits, edits, commits, category) ==
    /\ run.pc \in {"codex", "repair"}
    /\ commits => edits \/ run.dirty # {}
    /\ LET outcome == IF ~exits THEN "FAILED"
                      ELSE IF Patched(edits, commits) THEN "PATCHED" ELSE "NO_CHANGE"
       IN  run' = [Edited(edits, commits) EXCEPT
                      !.pc = IF At("codex") THEN "judge"
                             ELSE IF outcome = "PATCHED" THEN "test" ELSE "finish",
                      !.outcome = outcome,
                      !.category = IF At("codex") /\ outcome # "PATCHED" THEN category ELSE "OTHER",
                      !.patchSource = outcome = "PATCHED"]
    /\ UNCHANGED <<github, memory, started, history>>

\* A patched task goes to its tests.
Accept ==
    /\ At("judge")
    /\ run.outcome = "PATCHED"
    /\ GoTo("test")
    /\ UNCHANGED <<github, memory, started, history>>

(***************************************************************************)
(* A failed run is blamed on its SHA and repeated: with a cheaper model,   *)
(* once, when the provider refused it, and at once for any other reason    *)
(* but a missing model or an error seen MaxSame times.                     *)
(***************************************************************************)
Blamed == Blame(run.memory, run.sha)
MayRepair == run.outcome = "FAILED" /\ run.attempt < MaxRepair
RepairsAgain ==
    IF run.category = "AUTH" THEN ~run.cheaper
    ELSE run.category # "ENVIRONMENT" /\ Blamed.errors[run.sha] < MaxSame

RepairCodex ==
    /\ At("judge")
    /\ MayRepair
    /\ RepairsAgain
    /\ run' = [run EXCEPT !.pc = "codex", !.attempt = @ + 1, !.memory = Blamed,
                          !.cheaper = @ \/ run.category = "AUTH", !.category = "OTHER"]
    /\ UNCHANGED <<github, memory, started, history>>

\* What the memory keeps of a failure that is not repaired.
Resigned ==
    IF ~MayRepair THEN run.memory
    ELSE IF run.category = "AUTH" THEN CoolDown(Blamed, run.sha) ELSE Blamed

SkipNothing == run.skipped
Skipping == run.skipped \cup {run.task}

GiveUp ==
    /\ At("judge")
    /\ run.outcome # "PATCHED"
    /\ MayRepair => ~RepairsAgain \/ run.category = "AUTH" \* no cheaper model
    /\ run' = [run EXCEPT !.pc = IF run.category \in {"AUTH", "PERMISSION"}
                                 THEN "finish" ELSE "select",
                          !.skipped = Skipping, !.memory = Resigned, !.task = NoTask,
                          !.attempt = 0, !.outcome = "NO_CHANGE", !.category = "OTHER"]
    /\ failed' = failed \cup {<<run.task, run.hint>>}
    /\ UNCHANGED <<github, memory, started, owed>>

-----------------------------------------------------------------------------
(***************************************************************************)
(* Tests, and the end of a task.                                           *)
(***************************************************************************)
TestsPass ==
    /\ At("test")
    /\ GoTo("close")
    /\ UNCHANGED <<github, memory, started, history>>

TestsFail ==
    /\ At("test")
    /\ run' = IF run.repairs < MaxRepair
              THEN [run EXCEPT !.pc = "repair", !.repairs = @ + 1]
              ELSE [run EXCEPT !.pc = "finish"]
    /\ UNCHANGED <<github, memory, started, history>>

\* The issue is closed before anything is published; an error is only noted.
Close(succeeds) ==
    /\ At("close")
    /\ succeeds \/ "close" \in Faults
    /\ issue' = IF succeeds THEN [issue EXCEPT ![run.task] = "closed"] ELSE issue
    /\ run' = [run EXCEPT !.pc = "select", !.completed = @ \cup {run.task},
                          !.skipped = Skipping, !.task = NoTask, !.attempt = 0, !.repairs = 0]
    /\ owed' = IF run.task \in Tree THEN owed \cup {run.task} ELSE owed
    /\ UNCHANGED <<prs, main, memory, started, failed>>

PublishableIfDirty == run.completed # {} /\ run.dirty # {} /\ run.patchSource
Publishable == run.completed # {} /\ Tree # {} /\ run.patchSource

\* One pull request with whatever the worktree holds.
Publish ==
    /\ At("finish")
    /\ Publishable
    /\ prs' = prs \cup {[tasks |-> run.completed, content |-> Tree]}
    /\ End
    /\ UNCHANGED <<issue, main, started, history>>

FinishUnpublished ==
    /\ At("finish")
    /\ Publishable => "publish" \in Faults
    /\ Stop
    /\ owed' = IF Publishable \/ ~run.patchSource THEN owed \ Tree ELSE owed

-----------------------------------------------------------------------------
(***************************************************************************)
(* Carl and the repository.                                                *)
(***************************************************************************)
Decide(pr, merges) ==
    /\ pr \in prs
    /\ prs' = prs \ {pr}
    /\ merges => main < MaxSha
    /\ main' = IF merges THEN main + 1 ELSE main
    /\ owed' = owed \ pr.content
    /\ UNCHANGED <<issue, memory, run, started, failed>>

Push ==
    /\ main < MaxSha
    /\ main' = main + 1
    /\ UNCHANGED <<issue, prs, memory, run, started, history>>

OpenIssue(t) ==
    /\ issue[t] = "absent"
    /\ issue' = [issue EXCEPT ![t] = "open"]
    /\ UNCHANGED <<prs, main, memory, run, started, history>>

Worker ==
    \/ GateStops \/ Unauthenticated \/ GatePasses
    \/ ListFails \/ Leave \/ CreateFails
    \/ \E t \in Tasks : Select(t) \/ CreateTask(t)
    \/ \E exits, edits, commits \in BOOLEAN, category \in Categories :
           RunCodex(exits, edits, commits, category)
    \/ Accept \/ RepairCodex \/ GiveUp
    \/ TestsPass \/ TestsFail
    \/ \E succeeds \in BOOLEAN : Close(succeeds)
    \/ Publish \/ FinishUnpublished

Repository ==
    \/ \E pr \in prs, merges \in BOOLEAN : Decide(pr, merges)
    \/ Push
    \/ \E t \in Tasks : OpenIssue(t)

Next ==
    \/ \E trigger \in Triggers, hint \in Shas :
           \E restored \in RestoredMemories(trigger) :
               Start(trigger, hint, restored[1], restored[2])
    \/ Worker
    \/ Crash
    \/ Repository

Spec == Init /\ [][Next]_vars
FairSpec == Spec /\ WF_vars(Worker)

(***************************************************************************)
(* Properties.                                                             *)
(***************************************************************************)
Executing(t) == run.task = t /\ run.pc \in {"codex", "judge", "test", "repair", "close"}

\* Independent work goes on, dependent work waits for the human merge
\* (BRANCHES.md:22): no two open pull requests change what one file has to do
\* with, although a run keeps what a given up task left behind, lists the requests
\* before Codex works, and publishes after Carl has decided on others.
NoRivalRequests ==
    \A p, q \in prs : p # q =>
        \A t \in p.content, u \in q.content : <<t, u>> \notin SharesFiles

\* What was reported as completed, with changes of its own, is in the worktree or in
\* a pull request until Carl decides on it; only an error takes it: a crash, GitHub
\* refusing a call, or a last task that Codex did not patch.
WorkIsKept ==
    owed \subseteq Tree \cup UNION {pr.content : pr \in prs}

\* A task that Codex gave up is not worked on again for an event of the same SHA, in
\* this run or a later one, unless the memory of it was lost, an explicit wake emptied
\* the skips, or a push came to a memory that did not know the SHA of main yet.
GivenUpOnce == \A t \in Tasks : Executing(t) => <<t, run.hint>> \notin failed

\* A run ends, however its tasks fail: each turn of its loop finishes a task, skips
\* one, or leaves.
RunsEnd == ~At("idle") ~> At("idle")

\* "keeps a structured same-SHA skip" (test/codex-autonomous-worker.test.js:919): a
\* run begins with the skips that the last one saved at its SHA.
\* Not kept by the code: the push of a commit that a scheduled run came to first takes
\* the commit before it for the last one known, and empties them.
SkipsAreKept ==
    [][At("idle") /\ run'.pc = "gate"
       => SkippedForSha(memory, run'.hint) \subseteq run'.skipped]_vars

\* A Codex run that exits 0 without a diff is NO_CHANGE
\* (test/codex-autonomous-worker.test.js:237): an issue is closed as completed only
\* when Codex changed something for it.
\* Not kept by the code: what an earlier task left dirty counts as a patch.
ClosedHasWork ==
    [][\A t \in Tasks : issue[t] = "open" /\ issue'[t] = "closed" => t \in Tree]_vars
=============================================================================
