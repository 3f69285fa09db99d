------------------------- MODULE CodexWorkerProofs -------------------------
(***************************************************************************)
(* Theorems of the autonomous Codex worker, for any tasks, files they      *)
(* share, triggers, mishaps and bounds.                                    *)
(***************************************************************************)
EXTENDS CodexWorker, TLAPS

\* The places where a task is in hand.
Working == run.pc \in {"codex", "judge", "test", "repair", "close"}

\* A task in hand is one, and has an issue; a run begins with a clean worktree.
InHand ==
    /\ Working => run.task \in Tasks /\ issue[run.task] # "absent"
    /\ run.pc \in {"idle", "gate"} => Tree = {}

TypeInv == TypeOK /\ InHand

-----------------------------------------------------------------------------
(* Typing. *)

USE DEF At

LEMMA Bounds ==
    /\ MaxTasks \in Nat /\ MaxRepair \in Nat /\ MaxSame \in Nat
    /\ MaxSha \in Nat /\ MaxRuns \in Nat
    /\ NoTask \notin Tasks
BY WorkerConstants

LEMMA EmptyTypes == EmptyMemory \in Memory /\ Idle \in Run
<1>1. EmptyMemory \in Memory
  BY Bounds DEF EmptyMemory, Memory, Shas
<1> QED BY <1>1, Bounds DEF Idle, Run, Places, TriggerKinds, Shas, Outcomes, Categories

LEMMA BlameType ==
    ASSUME NEW mem \in Memory, NEW sha \in Shas
    PROVE  /\ Blame(mem, sha) \in Memory /\ CoolDown(mem, sha) \in Memory
           /\ Blame(mem, sha).skipped = mem.skipped /\ CoolDown(mem, sha).skipped = mem.skipped
           /\ Blame(mem, sha).synced = mem.synced /\ CoolDown(mem, sha).synced = mem.synced
<1>1. (IF mem.errors[sha] < MaxSame THEN mem.errors[sha] + 1 ELSE mem.errors[sha]) \in 0 .. MaxSame
  BY Bounds DEF Memory
<1> QED BY <1>1 DEF Blame, CoolDown, Memory

LEMMA SavedType ==
    ASSUME run \in Run
    PROVE  /\ Saved \in Memory
           /\ Saved.skipped = {<<t, run.hint>> : t \in run.skipped}
           /\ Saved.synced = run.memory.synced
<1>1. /\ run.memory \in Memory /\ run.sha \in Shas /\ run.hint \in Shas
      /\ {<<t, run.hint>> : t \in run.skipped} \in SUBSET (Tasks \X Shas)
      /\ (IF run.committed = {} THEN {run.sha} ELSE {}) \in SUBSET Shas
  BY DEF Run
<1> QED BY <1>1 DEF Saved, Memory

LEMMA InitType == Init => TypeInv
<1> SUFFICES ASSUME Init PROVE TypeInv
  OBVIOUS
<1>1. TypeOK
  BY EmptyTypes, Bounds DEF Init, TypeOK, IssueStates, Shas
<1>2. InHand
  BY DEF Init, InHand, Idle, Working, Tree
<1> QED BY <1>1, <1>2 DEF TypeInv

\* Where a run ends, its memory is saved and nothing is left in hand.
LEMMA EndType ==
    ASSUME TypeOK, End, UNCHANGED started, issue' \in [Tasks -> IssueStates],
           prs' \subseteq PullRequest,
           main' \in Shas, owed' \subseteq Tasks, failed' \subseteq Tasks \X Shas
    PROVE  TypeInv'
<1>1. memory' \in Memory /\ run' = Idle
  BY SavedType DEF TypeOK, End
<1>2. InHand'
  BY <1>1 DEF InHand, Idle, Working, Tree
<1> QED BY <1>1, <1>2, EmptyTypes DEF TypeInv, TypeOK, started

LEMMA StopType ==
    ASSUME TypeOK, Stop, owed' \subseteq owed
    PROVE  TypeInv'
BY EndType DEF Stop, github, TypeOK

\* What a step of a run leaves of it is a run.
RunKeeps == run' \in Run /\ InHand'

LEMMA StepType ==
    ASSUME TypeOK, RunKeeps, UNCHANGED <<prs, main, memory, started, failed>>,
           issue' \in [Tasks -> IssueStates], owed' \subseteq Tasks
    PROVE  TypeInv'
BY DEF RunKeeps, TypeInv, TypeOK, started

\* The memory a run begins with, and the tasks whose skips are gone from it.
LEMMA RestoredType ==
    ASSUME memory \in Memory, NEW trigger, NEW mem, NEW gone,
           <<mem, gone>> \in RestoredMemories(trigger)
    PROVE  /\ mem \in Memory
           /\ gone = Tasks \/ /\ mem.synced = memory.synced
                              /\ \A t \in Tasks \ gone, s \in Shas :
                                     <<t, s>> \in memory.skipped => <<t, s>> \in mem.skipped
<1>1. CASE mem = memory /\ gone = {}
  BY <1>1
<1>2. CASE mem = EmptyMemory /\ gone = Tasks
  BY <1>2, EmptyTypes
<1>3. ASSUME NEW tasks, mem = ExplicitWake(memory, tasks), gone = tasks
      PROVE  /\ mem \in Memory /\ mem.synced = memory.synced
             /\ \A t \in Tasks \ gone, s \in Shas :
                    <<t, s>> \in memory.skipped => <<t, s>> \in mem.skipped
  BY <1>3 DEF ExplicitWake, Memory
<1> QED BY <1>1, <1>2, <1>3 DEF RestoredMemories

LEMMA StartType ==
    ASSUME TypeInv, NEW trigger \in TriggerKinds, NEW hint \in Shas, NEW mem, NEW gone,
           Start(trigger, hint, mem, gone)
    PROVE  TypeInv'
<1> DEFINE previous == PreviousSha(mem, trigger, hint)
           synced == AfterMergeSync(mem, previous, hint)
<1>1. mem \in Memory
  BY RestoredType DEF Start, TypeInv, TypeOK
<1>2. synced \in Memory
  BY <1>1 DEF AfterMergeSync, Memory, TypeInv, TypeOK
<1>3. SkippedForSha(synced, hint) \subseteq Tasks /\ main \in Shas /\ (previous = {hint}) \in BOOLEAN
  BY DEF SkippedForSha, TypeInv, TypeOK
<1>4. run' = [Idle EXCEPT !.pc = "gate", !.trigger = trigger, !.hint = hint, !.sha = main,
                          !.known = previous = {hint}, !.memory = synced,
                          !.skipped = SkippedForSha(synced, hint)]
  BY DEF Start
<1> HIDE DEF previous, synced
<1>5. run' \in Run
  BY <1>2, <1>3, <1>4, EmptyTypes DEF Run, Places
<1>6. run'.pc = "gate" /\ run'.dirty = {} /\ run'.committed = {}
  BY <1>4 DEF Idle
<1>7. InHand'
  BY <1>6 DEF InHand, Working, Tree
<1>8. runs' \in 0 .. MaxRuns
  BY Bounds DEF Start, TypeInv, TypeOK
<1> QED BY <1>5, <1>7, <1>8 DEF Start, github, TypeInv, TypeOK

LEMMA CrashType == ASSUME TypeInv, Crash PROVE TypeInv'
<1>1. run' = Idle
  BY DEF Crash
<1>2. InHand'
  BY <1>1 DEF InHand, Idle, Working, Tree
<1> QED BY <1>1, <1>2, EmptyTypes DEF Crash, github, started, TypeInv, TypeOK

LEMMA UnauthenticatedType == ASSUME TypeInv, Unauthenticated PROVE TypeInv'
<1>1. run' = Idle /\ run.hint \in Shas
  BY DEF Unauthenticated, TypeInv, TypeOK, Run
<1>2. memory' \in Memory
  BY <1>1, SavedType, BlameType DEF Unauthenticated, TypeInv, TypeOK
<1>3. InHand'
  BY <1>1 DEF InHand, Idle, Working, Tree
<1> QED BY <1>1, <1>2, <1>3, EmptyTypes DEF Unauthenticated, github, started, history, TypeInv, TypeOK

\* A step that only changes the place.
LEMMA MoveKeeps ==
    ASSUME TypeInv, UNCHANGED issue, NEW place \in Places, run' = [run EXCEPT !.pc = place],
           place # "idle", place # "gate",
           place \in {"codex", "judge", "test", "repair", "close"} => Working
    PROVE  RunKeeps
<1>1. run' \in Run /\ run'.pc = place /\ run'.task = run.task
  BY DEF Run, TypeInv, TypeOK
<1> QED BY <1>1 DEF RunKeeps, InHand, TypeInv, Working

\* The gate forgets what only it looks at.
LEMMA GateKeeps == ASSUME TypeInv, GatePasses PROVE RunKeeps
<1>1. run \in Run /\ run.memory \in Memory
  BY DEF TypeInv, TypeOK, Run
<1>2. [run.memory EXCEPT !.skipped = {}, !.measured = {}] \in Memory
  BY <1>1 DEF Memory
<1>3. run' = [run EXCEPT !.pc = "select", !.trigger = "dispatch", !.known = FALSE,
                         !.memory = [run.memory EXCEPT !.skipped = {}, !.measured = {}]]
  BY <1>1 DEF GatePasses, Run
<1>4. run' \in Run /\ run'.pc = "select"
  BY <1>1, <1>2, <1>3 DEF Run, Places, TriggerKinds
<1> QED BY <1>4 DEF RunKeeps, InHand, Working

LEMMA TakeKeeps ==
    ASSUME TypeInv, NEW t \in Tasks, Take(t), issue'[t] # "absent"
    PROVE  RunKeeps
<1>1. run' \in Run /\ run'.pc = "codex" /\ run'.task = t
  BY DEF Take, Run, Places, TypeInv, TypeOK
<1> QED BY <1>1 DEF RunKeeps, InHand, Working

LEMMA RunCodexKeeps ==
    ASSUME TypeInv, NEW exits \in BOOLEAN, NEW edits \in BOOLEAN, NEW commits \in BOOLEAN,
           NEW category \in Categories, RunCodex(exits, edits, commits, category)
    PROVE  RunKeeps
<1> DEFINE changed == run.dirty \cup (IF edits THEN {run.task} ELSE {})
           outcome == IF ~exits THEN "FAILED"
                      ELSE IF Patched(edits, commits) THEN "PATCHED" ELSE "NO_CHANGE"
           place == IF At("codex") THEN "judge" ELSE IF outcome = "PATCHED" THEN "test" ELSE "finish"
           dirty == IF commits THEN {} ELSE changed
           committed == IF commits THEN run.committed \cup changed ELSE run.committed
           because == IF At("codex") /\ outcome # "PATCHED" THEN category ELSE "OTHER"
<1>1. run \in Run /\ Working /\ run.task \in Tasks /\ issue[run.task] # "absent"
  BY DEF TypeInv, TypeOK, InHand, Working, RunCodex
<1>2. dirty \subseteq Tasks /\ committed \subseteq Tasks
  BY <1>1 DEF Run
<1>3. outcome \in Outcomes /\ place \in Places /\ place \notin {"idle", "gate"}
  BY DEF Outcomes, Places
<1>4. because \in Categories /\ (outcome = "PATCHED") \in BOOLEAN
  BY DEF Categories
<1>5. run' = [run EXCEPT !.dirty = dirty, !.committed = committed, !.pc = place, !.outcome = outcome,
                         !.category = because, !.patchSource = outcome = "PATCHED"]
  <2> HIDE DEF outcome
  <2> QED BY <1>1 DEF RunCodex, Edited, Run, outcome
<1> HIDE DEF outcome, place, dirty, committed, because
<1>6. run' \in Run /\ run'.task = run.task /\ run'.pc = place
  BY <1>1, <1>2, <1>3, <1>4, <1>5 DEF Run
<1>7. UNCHANGED issue
  BY DEF RunCodex, github
<1> QED BY <1>1, <1>3, <1>6, <1>7 DEF RunKeeps, InHand, Working

LEMMA RepairCodexKeeps == ASSUME TypeInv, RepairCodex PROVE RunKeeps
<1>1. run \in Run /\ run.sha \in Shas /\ run.memory \in Memory /\ Working
  BY DEF TypeInv, TypeOK, Run, Working, RepairCodex
<1>2. Blamed \in Memory
  BY <1>1, BlameType DEF Blamed
<1>3. run.attempt + 1 \in 0 .. MaxRepair
  BY <1>1, Bounds DEF RepairCodex, MayRepair, Run
<1>4. (run.cheaper \/ run.category = "AUTH") \in BOOLEAN
  OBVIOUS
<1>5. run' \in Run /\ run'.task = run.task /\ run'.pc = "codex"
  BY <1>1, <1>2, <1>3, <1>4 DEF RepairCodex, Run, Places, Categories
<1> QED BY <1>1, <1>5 DEF RepairCodex, github, RunKeeps, TypeInv, InHand, Working

LEMMA GiveUpType == ASSUME TypeInv, GiveUp PROVE TypeInv'
<1> DEFINE place == IF run.category \in {"AUTH", "PERMISSION"} THEN "finish" ELSE "select"
<1>1. /\ run \in Run /\ run.sha \in Shas /\ run.hint \in Shas
      /\ run.memory \in Memory /\ run.task \in Tasks
  BY DEF TypeInv, TypeOK, InHand, Run, Working, GiveUp
<1>2. Resigned \in Memory
  BY <1>1, BlameType DEF Resigned, Blamed
<1>3. place \in Places /\ place \in {"finish", "select"}
  BY DEF Places
<1>4. run' = [run EXCEPT !.pc = place, !.skipped = Skipping, !.memory = Resigned, !.task = NoTask,
                         !.attempt = 0, !.outcome = "NO_CHANGE", !.category = "OTHER"]
  BY DEF GiveUp
<1> HIDE DEF place
<1>5. Skipping \subseteq Tasks /\ 0 \in 0 .. MaxRepair
  BY <1>1, Bounds DEF Skipping, Run
<1>6. run' \in Run /\ run'.pc = place
  BY <1>1, <1>2, <1>3, <1>4, <1>5 DEF Run, Outcomes, Categories
<1>7. InHand'
  BY <1>3, <1>6 DEF InHand, Working
<1>8. failed' \subseteq Tasks \X Shas
  BY <1>1 DEF GiveUp, TypeInv, TypeOK
<1> QED BY <1>6, <1>7, <1>8 DEF GiveUp, github, started, TypeInv, TypeOK

LEMMA TestsFailKeeps == ASSUME TypeInv, TestsFail PROVE RunKeeps
<1>1. run \in Run /\ Working
  BY DEF TypeInv, TypeOK, Working, TestsFail
<1>2. CASE run.repairs < MaxRepair
  <2>1. run.repairs + 1 \in 0 .. MaxRepair
    BY <1>1, <1>2, Bounds DEF Run
  <2>2. run' \in Run /\ run'.task = run.task /\ run'.pc = "repair"
    BY <1>1, <1>2, <2>1 DEF TestsFail, Run, Places
  <2> QED BY <1>1, <2>2 DEF TestsFail, github, RunKeeps, TypeInv, InHand, Working
<1>3. CASE ~(run.repairs < MaxRepair)
  <2>1. UNCHANGED issue /\ run' = [run EXCEPT !.pc = "finish"]
    BY <1>3 DEF TestsFail, github
  <2> QED BY <2>1, MoveKeeps DEF Places
<1> QED BY <1>2, <1>3

LEMMA CloseType ==
    ASSUME TypeInv, NEW succeeds \in BOOLEAN, Close(succeeds)
    PROVE  TypeInv'
<1>1. run \in Run /\ run.task \in Tasks /\ issue \in [Tasks -> IssueStates]
  BY DEF TypeInv, TypeOK, InHand, Working, Close
<1>2. /\ Skipping \subseteq Tasks /\ 0 \in 0 .. MaxRepair
      /\ run.completed \cup {run.task} \subseteq Tasks
  BY <1>1, Bounds DEF Skipping, Run
<1>3. run' \in Run /\ run'.pc = "select"
  BY <1>1, <1>2 DEF Close, Run, Places
<1>4. RunKeeps
  BY <1>3 DEF RunKeeps, InHand, Working
<1>5. issue' \in [Tasks -> IssueStates] /\ owed' \subseteq Tasks
  BY <1>1 DEF Close, IssueStates, TypeInv, TypeOK
<1> QED BY <1>4, <1>5, StepType DEF Close, TypeInv

LEMMA PublishType == ASSUME TypeInv, Publish PROVE TypeInv'
<1>1. [tasks |-> run.completed, content |-> Tree] \in PullRequest
  BY DEF TypeInv, TypeOK, Run, Tree, PullRequest
<1>2. prs' \subseteq PullRequest
  BY <1>1 DEF Publish, TypeInv, TypeOK
<1> QED BY <1>2, EndType DEF Publish, history, TypeInv, TypeOK

LEMMA RepositoryType == ASSUME TypeInv, Repository PROVE TypeInv'
<1>1. ASSUME NEW pr \in prs, NEW merges \in BOOLEAN, Decide(pr, merges) PROVE TypeInv'
  <2>1. main' \in Shas
    BY <1>1, Bounds DEF Decide, Shas, TypeInv, TypeOK
  <2> QED BY <1>1, <2>1 DEF Decide, started, TypeInv, TypeOK, InHand, Working, Tree
<1>2. CASE Push
  <2>1. main' \in Shas
    BY <1>2, Bounds DEF Push, Shas, TypeInv, TypeOK
  <2> QED BY <1>2, <2>1 DEF Push, started, history, TypeInv, TypeOK, InHand, Working, Tree
<1>3. ASSUME NEW t \in Tasks, OpenIssue(t) PROVE TypeInv'
  BY <1>3 DEF OpenIssue, started, history, IssueStates, TypeInv, TypeOK, InHand, Working, Tree
<1> QED BY <1>1, <1>2, <1>3 DEF Repository

\* The steps of a run that only move it on.
LEMMA MoveType ==
    ASSUME TypeInv, GatePasses \/ Leave \/ Accept \/ TestsPass
    PROVE  TypeInv'
<1>1. RunKeeps
  BY MoveKeeps, GateKeeps DEF Leave, Accept, TestsPass, GoTo, github, Places, Working
<1> QED BY <1>1, StepType
  DEF GatePasses, Leave, Accept, TestsPass, github, history, TypeInv, TypeOK

LEMMA WorkerType == ASSUME TypeInv, Worker PROVE TypeInv'
<1> USE DEF github, started, history
<1>1. CASE GateStops \/ ListFails \/ CreateFails \/ FinishUnpublished
  BY <1>1, StopType DEF GateStops, ListFails, CreateFails, StopOnError, FinishUnpublished, TypeInv
<1>2. ASSUME NEW t \in Tasks, Select(t) \/ CreateTask(t) PROVE TypeInv'
  <2>1. issue' \in [Tasks -> IssueStates] /\ issue'[t] # "absent"
    BY <1>2 DEF Select, CreateTask, Runnable, Open, IssueStates, TypeInv, TypeOK
  <2>2. RunKeeps
    BY <1>2, <2>1, TakeKeeps DEF Select, CreateTask
  <2> QED BY <1>2, <2>1, <2>2, StepType DEF Select, CreateTask, TypeInv, TypeOK
<1>3. ASSUME NEW exits \in BOOLEAN, NEW edits \in BOOLEAN, NEW commits \in BOOLEAN,
             NEW category \in Categories, RunCodex(exits, edits, commits, category)
      PROVE  TypeInv'
  <2>1. RunKeeps
    BY <1>3, RunCodexKeeps
  <2> QED BY <1>3, <2>1, StepType DEF RunCodex, TypeInv, TypeOK
<1>4. CASE RepairCodex
  BY <1>4, RepairCodexKeeps, StepType DEF RepairCodex, TypeInv, TypeOK
<1>5. CASE TestsFail
  BY <1>5, TestsFailKeeps, StepType DEF TestsFail, TypeInv, TypeOK
<1> QED
  BY <1>1, <1>2, <1>3, <1>4, <1>5, UnauthenticatedType, MoveType, GiveUpType, CloseType, PublishType
  DEF Worker

LEMMA NextType == ASSUME TypeInv, [Next]_vars PROVE TypeInv'
<1>1. CASE UNCHANGED vars
  BY <1>1 DEF vars, TypeInv, TypeOK, InHand, Working, Tree
<1>2. ASSUME NEW trigger \in Triggers, NEW hint \in Shas, NEW mem, NEW gone,
             Start(trigger, hint, mem, gone)
      PROVE  TypeInv'
  BY <1>2, StartType, WorkerConstants
<1> QED BY <1>1, <1>2, WorkerType, CrashType, RepositoryType DEF Next

\* Each step of a run, of Carl and of the repository leaves issues, requests, memory
\* and run of their types: attempts, repairs and errors stay within their bounds.
THEOREM CodexTypeCorrect == Spec => []TypeOK
<1>1. TypeInv => TypeOK
  BY DEF TypeInv
<1> QED BY <1>1, InitType, NextType, PTL DEF Spec

-----------------------------------------------------------------------------
(* Completed work. *)

Content == UNION {pr.content : pr \in prs}

\* What is owed for this run is among its completed tasks: a run that completed none
\* may leave its worktree behind.
Kept == owed \subseteq (Tree \cap run.completed) \cup Content

LEMMA KeptInit == Init => Kept
BY DEF Init, Kept

\* A run that ends owes nothing but what is in a request.
LEMMA KeptNext == ASSUME TypeInv, Kept, [Next]_vars PROVE Kept'
<1> USE DEF Kept, Content, Tree, github, started, history, Stop, End, Idle
<1>r. run \in Run /\ prs \subseteq PullRequest
  BY DEF TypeInv, TypeOK
<1>1. CASE UNCHANGED vars
  BY <1>1 DEF vars
<1>2. ASSUME NEW trigger \in Triggers, NEW hint \in Shas, NEW mem, NEW gone,
             Start(trigger, hint, mem, gone)
      PROVE  Kept'
  <2>1. Tree = {} /\ owed \subseteq Content
    BY <1>2 DEF Start, TypeInv, InHand
  <2> QED BY <1>2, <2>1 DEF Start
<1>3. CASE GateStops \/ Unauthenticated
  <2>1. Tree = {} /\ owed \subseteq Content
    BY <1>3 DEF GateStops, Unauthenticated, TypeInv, InHand
  <2> QED BY <1>3, <2>1 DEF GateStops, Unauthenticated
<1>4. CASE ListFails \/ CreateFails \/ Crash
  BY <1>4 DEF ListFails, CreateFails, Crash, StopOnError
<1>5. CASE FinishUnpublished
  BY <1>5 DEF FinishUnpublished, Publishable
<1>6. CASE Publish
  <2>1. PICK pr : pr.content = Tree /\ prs' = prs \cup {pr}
    BY <1>6 DEF Publish
  <2> QED BY <1>6, <2>1 DEF Publish
<1>7. ASSUME NEW succeeds \in BOOLEAN, Close(succeeds) PROVE Kept'
  <2>1. /\ run'.dirty = run.dirty /\ run'.committed = run.committed
        /\ run'.completed = run.completed \cup {run.task}
    BY <1>7, <1>r DEF Close, Run
  <2> QED BY <1>7, <2>1 DEF Close
<1>8. ASSUME NEW exits \in BOOLEAN, NEW edits \in BOOLEAN, NEW commits \in BOOLEAN,
             NEW category \in Categories, RunCodex(exits, edits, commits, category)
      PROVE  Kept'
  <2>1. run'.completed = run.completed /\ Tree \subseteq Tree'
    BY <1>8, <1>r DEF RunCodex, Edited, Run
  <2> QED BY <1>8, <2>1 DEF RunCodex
<1>9. ASSUME UNCHANGED <<run.dirty, run.committed, run.completed, owed, prs>> PROVE Kept'
  BY <1>9
<1>10. ASSUME NEW pr \in prs, NEW merges \in BOOLEAN, Decide(pr, merges) PROVE Kept'
  BY <1>10 DEF Decide
<1>11. CASE GatePasses \/ Leave \/ Accept \/ RepairCodex \/ GiveUp \/ TestsPass \/ TestsFail
  <2>1. UNCHANGED <<run.dirty, run.committed, run.completed, owed, prs>>
    BY <1>11, <1>r
    DEF GatePasses, Leave, Accept, RepairCodex, GiveUp, TestsPass, TestsFail, GoTo, Run
  <2> QED BY <2>1, <1>9
<1>12. ASSUME NEW t \in Tasks, Select(t) \/ CreateTask(t) PROVE Kept'
  <2>1. UNCHANGED <<run.dirty, run.committed, run.completed, owed, prs>>
    BY <1>12, <1>r DEF Select, CreateTask, Take, Run
  <2> QED BY <2>1, <1>9
<1>13. ASSUME Push \/ \E t \in Tasks : OpenIssue(t) PROVE Kept'
  BY <1>13, <1>9 DEF Push, OpenIssue
<1> QED
  BY <1>1, <1>2, <1>3, <1>4, <1>5, <1>6, <1>7, <1>8, <1>10, <1>11, <1>12, <1>13
  DEF Next, Worker, Repository

\* Whatever a run keeps, skips, repairs or fails at, what it reported as completed is
\* in the worktree or in an open request until Carl decides on it or an error takes it.
THEOREM CompletedIsKept == Spec => []WorkIsKept
<1>1. Kept => WorkIsKept
  BY DEF Kept, Content, WorkIsKept
<1> QED BY <1>1, InitType, NextType, KeptInit, KeptNext, PTL DEF Spec

-----------------------------------------------------------------------------
(* Tasks given up. *)

\* A task that was given up at the SHA of the present event is skipped: by the run in
\* progress, or by the memory the next one reads, which then knows no other SHA of main.
\* The SHAs of events go up, so those of the past need not be remembered.
Remembered ==
    /\ event \in Shas
    /\ ~At("idle") => run.hint = event /\ run.memory.synced \subseteq {event}
    /\ \A t \in Tasks, s \in Shas : <<t, s>> \in failed =>
           /\ issue[t] # "absent"
           /\ s <= event
           /\ At("idle") /\ s = event => <<t, s>> \in memory.skipped /\ memory.synced \subseteq {s}
           /\ ~At("idle") /\ s = event => t \in run.skipped

GivenUpInv == Remembered /\ GivenUpOnce

LEMMA GivenUpInit == Init => GivenUpInv
BY Bounds DEF Init, Idle, GivenUpInv, Remembered, GivenUpOnce, Executing, Shas

\* A run that ends with its memory saved.
LEMMA EndRemembers ==
    ASSUME TypeInv, GivenUpInv, ~At("idle"), run' = Idle,
           memory'.skipped = Saved.skipped, memory'.synced = Saved.synced,
           UNCHANGED <<issue, event, failed>>
    PROVE  GivenUpInv'
<1>1. /\ Saved.skipped = {<<t, run.hint>> : t \in run.skipped}
      /\ Saved.synced = run.memory.synced
  BY SavedType DEF TypeInv, TypeOK
<1>2. run'.pc = "idle"
  BY DEF Idle
<1>3. Remembered'
  BY <1>1, <1>2 DEF GivenUpInv, Remembered
<1>4. GivenUpOnce'
  BY <1>2 DEF GivenUpOnce, Executing
<1> QED BY <1>3, <1>4 DEF GivenUpInv

\* A step of a run that skips no task less and takes none.
LEMMA StepRemembers ==
    ASSUME TypeInv, GivenUpInv, ~At("idle"), run'.pc # "idle", run'.hint = run.hint,
           run'.memory.synced = run.memory.synced,
           run.skipped \subseteq run'.skipped, UNCHANGED <<issue, event, failed>>,
           run'.pc \in {"codex", "judge", "test", "repair", "close"} =>
               Working /\ run'.task = run.task
    PROVE  GivenUpInv'
BY DEF GivenUpInv, Remembered, GivenUpOnce, Executing, Working

\* A run that does not begin by forgetting skips what was given up at its SHA.
LEMMA StartSkips ==
    ASSUME TypeInv, GivenUpInv, NEW trigger, NEW hint \in Shas, NEW mem, NEW gone,
           Start(trigger, hint, mem, gone), NEW t \in Tasks, <<t, hint>> \in failed'
    PROVE  t \in run'.skipped
<1> DEFINE previous == PreviousSha(mem, trigger, hint)
<1>1. /\ ~(trigger = "push" /\ mem.synced = {})
      /\ <<t, hint>> \in failed /\ t \notin gone
      /\ At("idle") /\ event <= hint /\ <<mem, gone>> \in RestoredMemories(trigger)
      /\ run'.skipped = SkippedForSha(AfterMergeSync(mem, previous, hint), hint)
  BY Bounds DEF Start, Idle, Shas, TypeInv, TypeOK
<1>2. hint = event /\ <<t, hint>> \in memory.skipped /\ memory.synced \subseteq {hint}
  <2>1. hint <= event /\ event \in Shas
    BY <1>1 DEF GivenUpInv, Remembered
  <2>2. hint = event
    BY <1>1, <2>1, Bounds DEF Shas
  <2> QED BY <1>1, <2>2 DEF GivenUpInv, Remembered
<1>3. gone # Tasks /\ mem.synced = memory.synced /\ <<t, hint>> \in mem.skipped
  <2>1. memory \in Memory /\ gone # Tasks
    BY <1>1 DEF TypeInv, TypeOK
  <2>2. /\ mem.synced = memory.synced
        /\ \A u \in Tasks \ gone, s \in Shas : <<u, s>> \in memory.skipped => <<u, s>> \in mem.skipped
    <3>1. <<mem, gone>> \in RestoredMemories(trigger)
      BY <1>1
    <3>2. \/ gone = Tasks
          \/ /\ mem.synced = memory.synced
             /\ \A u \in Tasks \ gone, s \in Shas : <<u, s>> \in memory.skipped => <<u, s>> \in mem.skipped
      BY <2>1, <3>1, RestoredType
    <3> QED BY <2>1, <3>2
  <2> QED BY <1>1, <1>2, <2>1, <2>2
<1>4. previous \in {{}, {hint}}
  BY <1>1, <1>2, <1>3 DEF PreviousSha
<1> QED BY <1>1, <1>3, <1>4 DEF AfterMergeSync, SkippedForSha

LEMMA StartRemembers ==
    ASSUME TypeInv, GivenUpInv, NEW trigger, NEW hint \in Shas, NEW mem, NEW gone,
           Start(trigger, hint, mem, gone)
    PROVE  GivenUpInv'
<1>1. /\ run'.pc = "gate" /\ run'.hint = hint /\ event' = hint /\ event <= hint
      /\ At("idle") /\ UNCHANGED issue /\ failed' \subseteq failed
  BY Bounds DEF Start, Idle, github, Shas, TypeInv, TypeOK
<1>2. run'.memory.synced \subseteq {hint}
  <2>1. run'.memory = AfterMergeSync(mem, PreviousSha(mem, trigger, hint), hint) /\ mem \in Memory
    BY RestoredType DEF Start, Idle, TypeInv, TypeOK
  <2> QED BY <2>1 DEF AfterMergeSync, PreviousSha, Memory
<1>3. ASSUME NEW t \in Tasks, NEW s \in Shas, <<t, s>> \in failed'
      PROVE  /\ issue'[t] # "absent" /\ s <= hint
             /\ s = hint => t \in run'.skipped
  <2>1. issue[t] # "absent" /\ s <= event /\ event \in Shas
    BY <1>1, <1>3 DEF GivenUpInv, Remembered
  <2>2. s <= hint
    BY <1>1, <2>1, Bounds DEF Shas
  <2> QED BY <1>1, <1>3, <2>1, <2>2, StartSkips
<1>4. Remembered'
  BY <1>1, <1>2, <1>3 DEF Remembered
<1>5. GivenUpOnce'
  BY <1>1 DEF GivenUpOnce, Executing
<1> QED BY <1>4, <1>5 DEF GivenUpInv

LEMMA TakeRemembers ==
    ASSUME TypeInv, GivenUpInv, NEW t \in Tasks, Select(t) \/ CreateTask(t)
    PROVE  GivenUpInv'
<1>1. /\ run' = [run EXCEPT !.pc = "codex", !.task = t] /\ run \in Run /\ At("select")
      /\ UNCHANGED <<event, failed>>
      /\ t \notin run.skipped \/ issue[t] = "absent"
      /\ \A u \in Tasks : issue[u] # "absent" => issue'[u] # "absent"
  BY DEF Select, CreateTask, Take, Runnable, github, started, history, TypeInv, TypeOK
<1>2. /\ run'.pc = "codex" /\ run'.task = t /\ run'.hint = run.hint
      /\ run'.skipped = run.skipped /\ run'.memory = run.memory
  BY <1>1 DEF Run
<1>3. Remembered'
  BY <1>1, <1>2 DEF GivenUpInv, Remembered
<1>4. <<t, run.hint>> \notin failed
  BY <1>1 DEF GivenUpInv, Remembered, Run
<1> QED BY <1>1, <1>2, <1>3, <1>4 DEF GivenUpInv, GivenUpOnce, Executing

LEMMA ResignedSynced ==
    ASSUME run \in Run PROVE Resigned.synced = run.memory.synced /\ Blamed.synced = run.memory.synced
<1>1. run.memory \in Memory /\ run.sha \in Shas
  BY DEF Run
<1> QED BY <1>1, BlameType DEF Resigned, Blamed

LEMMA GiveUpRemembers == ASSUME TypeInv, GivenUpInv, GiveUp PROVE GivenUpInv'
<1>1. run \in Run /\ run.task \in Tasks /\ issue[run.task] # "absent" /\ At("judge")
  BY DEF GiveUp, TypeInv, TypeOK, InHand, Working
<1>2. /\ run'.pc \in {"finish", "select"} /\ run'.hint = run.hint
      /\ run'.skipped = run.skipped \cup {run.task}
      /\ run'.memory = Resigned
      /\ failed' = failed \cup {<<run.task, run.hint>>}
      /\ UNCHANGED <<issue, event>>
  BY <1>1 DEF GiveUp, Skipping, github, started, Run
<1>3. run.hint = event /\ event \in Shas /\ event <= event /\ Resigned.synced \subseteq {event}
  BY <1>1, ResignedSynced DEF GivenUpInv, Remembered, Shas
<1>4. Remembered'
  <2> SUFFICES ASSUME NEW t \in Tasks, NEW s \in Shas, <<t, s>> \in failed'
               PROVE  /\ issue[t] # "absent" /\ s <= event
                      /\ s = event => t \in run.skipped \cup {run.task}
    BY <1>2, <1>3 DEF Remembered
  <2>1. CASE <<t, s>> \in failed
    BY <2>1, <1>1 DEF GivenUpInv, Remembered
  <2>2. CASE t = run.task /\ s = run.hint
    BY <2>2, <1>1, <1>3
  <2> QED BY <1>2, <2>1, <2>2
<1> QED BY <1>2, <1>4 DEF GivenUpInv, GivenUpOnce, Executing

LEMMA CrashRemembers == ASSUME TypeInv, GivenUpInv, Crash PROVE GivenUpInv'
<1>1. /\ run'.pc = "idle" /\ failed' = failed \ (run.skipped \X {run.hint})
      /\ UNCHANGED <<issue, event, memory>> /\ ~At("idle")
  BY DEF Crash, Idle, github, started, TypeInv, TypeOK
<1>2. ASSUME NEW t \in Tasks, NEW s \in Shas, <<t, s>> \in failed'
      PROVE  issue[t] # "absent" /\ s <= event /\ s # event
  BY <1>1, <1>2 DEF GivenUpInv, Remembered
<1>3. Remembered'
  BY <1>1, <1>2 DEF GivenUpInv, Remembered
<1> QED BY <1>1, <1>3 DEF GivenUpInv, GivenUpOnce, Executing

LEMMA RepositoryRemembers == ASSUME TypeInv, GivenUpInv, Repository PROVE GivenUpInv'
<1>1. /\ UNCHANGED <<memory, run, event, failed>>
      /\ \A t \in Tasks : issue[t] # "absent" => issue'[t] # "absent"
  BY DEF Repository, Decide, Push, OpenIssue, started, history, TypeInv, TypeOK
<1>2. Remembered'
  BY <1>1 DEF GivenUpInv, Remembered
<1> QED BY <1>1, <1>2 DEF GivenUpInv, GivenUpOnce, Executing

LEMMA GivenUpNext == ASSUME TypeInv, GivenUpInv, [Next]_vars PROVE GivenUpInv'
<1> USE DEF github, started, history
<1>r. run \in Run /\ run.hint \in Shas /\ run.memory \in Memory
  BY DEF TypeInv, TypeOK, Run
<1>1. CASE UNCHANGED vars
  BY <1>1 DEF vars, GivenUpInv, Remembered, GivenUpOnce, Executing
<1>2. CASE GateStops \/ ListFails \/ CreateFails \/ FinishUnpublished \/ Publish
  BY <1>2, EndRemembers
  DEF GateStops, ListFails, CreateFails, FinishUnpublished, Publish, StopOnError, Stop, End
<1>3. CASE Unauthenticated
  <2>1. memory'.skipped = Saved.skipped /\ memory'.synced = Saved.synced
    BY <1>3, <1>r, SavedType, BlameType DEF Unauthenticated
  <2> QED BY <1>3, <2>1, EndRemembers DEF Unauthenticated
<1>4. CASE GatePasses \/ Leave \/ Accept \/ RepairCodex \/ TestsPass \/ TestsFail
  <2>1. run'.hint = run.hint /\ run'.skipped = run.skipped /\ run'.pc # "idle"
    BY <1>4, <1>r
    DEF GatePasses, Leave, Accept, RepairCodex, TestsPass, TestsFail, GoTo, Run
  <2>2. run'.memory.synced = run.memory.synced
    <3>1. CASE GatePasses
      BY <1>r, <3>1 DEF GatePasses, Run, Memory
    <3>2. CASE RepairCodex
      BY <1>r, <3>2, ResignedSynced DEF RepairCodex, Run
    <3>3. CASE Leave \/ Accept \/ TestsPass \/ TestsFail
      BY <1>r, <3>3 DEF Leave, Accept, TestsPass, TestsFail, GoTo, Run
    <3> QED BY <1>4, <3>1, <3>2, <3>3
  <2>3. run'.pc \in {"codex", "judge", "test", "repair", "close"} => Working /\ run'.task = run.task
    BY <1>4, <1>r
    DEF GatePasses, Leave, Accept, RepairCodex, TestsPass, TestsFail, GoTo, Run, Working
  <2> QED BY <1>4, <2>1, <2>2, <2>3, StepRemembers
    DEF GatePasses, Leave, Accept, RepairCodex, TestsPass, TestsFail
<1>5. ASSUME NEW exits \in BOOLEAN, NEW edits \in BOOLEAN, NEW commits \in BOOLEAN,
             NEW category \in Categories, RunCodex(exits, edits, commits, category)
      PROVE  GivenUpInv'
  <2>1. /\ run'.hint = run.hint /\ run'.skipped = run.skipped /\ run'.task = run.task
        /\ run'.memory = run.memory /\ run'.pc # "idle"
    BY <1>5, <1>r DEF RunCodex, Edited, Run
  <2> QED BY <1>5, <2>1, StepRemembers DEF RunCodex, Working
<1>6. ASSUME NEW succeeds \in BOOLEAN, Close(succeeds) PROVE GivenUpInv'
  <2>1. /\ run'.hint = run.hint /\ run'.skipped = run.skipped \cup {run.task} /\ run'.pc = "select"
        /\ run'.memory = run.memory
    BY <1>6, <1>r DEF Close, Skipping, Run
  <2>2. \A t \in Tasks : issue[t] # "absent" => issue'[t] # "absent"
    BY <1>6 DEF Close, TypeInv, TypeOK
  <2>3. Remembered'
    BY <1>6, <2>1, <2>2 DEF Close, GivenUpInv, Remembered
  <2> QED BY <2>1, <2>3 DEF GivenUpInv, GivenUpOnce, Executing
<1> QED
  BY <1>1, <1>2, <1>3, <1>4, <1>5, <1>6, StartRemembers, TakeRemembers, GiveUpRemembers,
     CrashRemembers, RepositoryRemembers
  DEF Next, Worker

\* However runs end and whatever is merged between them, a task that Codex gave up is
\* not worked on again for an event of the same SHA, unless its memory was lost, a wake
\* emptied the skips or a push came to a memory that knew no SHA of main.
THEOREM TasksGivenUpOnce == Spec => []GivenUpOnce
<1>1. GivenUpInv => GivenUpOnce
  BY DEF GivenUpInv
<1> QED BY <1>1, InitType, NextType, GivenUpInit, GivenUpNext, PTL DEF Spec

-----------------------------------------------------------------------------
(* Rival requests. *)

\* What the run in progress may publish: what its worktree holds and the task in hand.
Hands == Tree \cup (IF Working THEN {run.task} ELSE {})

\* No part of it has a file in common with an open request.
Apart == \A t \in Hands : \A pr \in prs : \A u \in pr.content : <<t, u>> \notin SharesFiles

RivalInv == Apart /\ NoRivalRequests

LEMMA RivalInit == Init => RivalInv
BY DEF Init, RivalInv, Apart, NoRivalRequests

\* Requests that are decided on are nobody's rivals.
LEMMA LessKeepsApart ==
    ASSUME RivalInv, prs' \subseteq prs, Hands' \subseteq Hands
    PROVE  RivalInv'
BY DEF RivalInv, Apart, NoRivalRequests

LEMMA PublishKeepsApart == ASSUME TypeInv, RivalInv, Publish PROVE RivalInv'
<1> DEFINE new == [tasks |-> run.completed, content |-> Tree]
<1>1. prs' = prs \cup {new} /\ Hands' = {} /\ new.content = Tree /\ Tree \subseteq Tasks
  BY DEF Publish, End, Idle, Hands, Tree, Working, TypeInv, TypeOK, Run
<1> HIDE DEF new
<1>2. \A pr \in prs : pr.content \subseteq Tasks
  BY DEF TypeInv, TypeOK, PullRequest
<1>3. \A pr \in prs, t \in Tree : \A u \in pr.content :
          <<t, u>> \notin SharesFiles /\ <<u, t>> \notin SharesFiles
  BY <1>1, <1>2, WorkerConstants DEF RivalInv, Apart, Hands
<1>4. NoRivalRequests'
  <2> SUFFICES ASSUME NEW p \in prs', NEW q \in prs', p # q, NEW t \in p.content, NEW u \in q.content
               PROVE  <<t, u>> \notin SharesFiles
    BY DEF NoRivalRequests
  <2>1. CASE p \in prs /\ q \in prs
    BY <2>1 DEF RivalInv, NoRivalRequests
  <2>2. CASE p = new /\ q \in prs
    BY <2>2, <1>1, <1>3
  <2>3. CASE p \in prs /\ q = new
    BY <2>3, <1>1, <1>3
  <2> QED BY <1>1, <2>1, <2>2, <2>3
<1> QED BY <1>1, <1>4 DEF RivalInv, Apart

\* A task is taken when no request that was listed has a file of it: with the list of
\* requests at hand no open one has.
LEMMA TakeKeepsApart ==
    ASSUME "prs" \notin Faults, TypeInv, RivalInv, NEW t \in Tasks, Select(t) \/ CreateTask(t)
    PROVE  RivalInv'
<1>1. /\ run' = [run EXCEPT !.pc = "codex", !.task = t] /\ run \in Run /\ UNCHANGED prs
      /\ ~Deferred(t, prs) /\ At("select")
  BY DEF Select, CreateTask, Take, ListedPrs, github, TypeInv, TypeOK
<1>2. Hands' = Tree \cup {t} /\ Tree \subseteq Hands
  BY <1>1 DEF Hands, Tree, Working, Run
<1>3. \A pr \in prs : \A u \in pr.content : <<t, u>> \notin SharesFiles
  BY <1>1 DEF Deferred, Dependent
<1> QED BY <1>1, <1>2, <1>3 DEF RivalInv, Apart, NoRivalRequests

LEMMA RunKeepsApart ==
    ASSUME "prs" \notin Faults, TypeInv, RivalInv, Worker
    PROVE  RivalInv'
<1> USE DEF github, history, Hands, Tree, Working, Idle, Stop, End
<1>r. run \in Run
  BY DEF TypeInv, TypeOK
<1>1. CASE GateStops \/ Unauthenticated \/ ListFails \/ CreateFails \/ FinishUnpublished
  BY <1>1, LessKeepsApart
  DEF GateStops, Unauthenticated, ListFails, CreateFails, FinishUnpublished, StopOnError
<1>2. CASE GatePasses \/ Leave \/ Accept \/ RepairCodex \/ GiveUp \/ TestsPass \/ TestsFail
  <2>1. run'.dirty = run.dirty /\ run'.committed = run.committed
    BY <1>2, <1>r
    DEF GatePasses, Leave, Accept, RepairCodex, GiveUp, TestsPass, TestsFail, GoTo, Run
  <2>2. ASSUME Accept \/ RepairCodex \/ TestsPass \/ TestsFail PROVE Hands' \subseteq Hands
    <3>1. run'.task = run.task /\ Working
      BY <2>2, <1>r DEF Accept, RepairCodex, TestsPass, TestsFail, GoTo, Run
    <3> QED BY <2>1, <3>1
  <2>3. ASSUME GatePasses \/ Leave \/ GiveUp PROVE Hands' \subseteq Hands
    <3>1. ~Working'
      BY <2>3, <1>r DEF GatePasses, Leave, GiveUp, GoTo, Run
    <3> QED BY <2>1, <3>1
  <2>4. Hands' \subseteq Hands
    BY <1>2, <2>2, <2>3
  <2> QED BY <1>2, <2>4, LessKeepsApart
      DEF GatePasses, Leave, Accept, RepairCodex, GiveUp, TestsPass, TestsFail
<1>3. ASSUME NEW exits \in BOOLEAN, NEW edits \in BOOLEAN, NEW commits \in BOOLEAN,
             NEW category \in Categories, RunCodex(exits, edits, commits, category)
      PROVE  RivalInv'
  <2>1. /\ Tree' \subseteq Tree \cup {run.task} /\ run'.task = run.task
    BY <1>3, <1>r DEF RunCodex, Edited, Run
  <2>2. Working
    BY <1>3 DEF RunCodex
  <2>3. Hands' \subseteq Hands
    BY <2>1, <2>2
  <2> QED BY <1>3, <2>3, LessKeepsApart DEF RunCodex
<1>4. ASSUME NEW succeeds \in BOOLEAN, Close(succeeds) PROVE RivalInv'
  <2>1. Hands' \subseteq Hands
    BY <1>4, <1>r DEF Close, Run
  <2> QED BY <1>4, <2>1, LessKeepsApart DEF Close
<1> QED BY <1>1, <1>2, <1>3, <1>4, PublishKeepsApart, TakeKeepsApart DEF Worker

LEMMA RivalNext ==
    ASSUME "prs" \notin Faults, TypeInv, RivalInv, [Next]_vars
    PROVE  RivalInv'
<1> USE DEF github, history, Hands, Tree, Working, Idle
<1>1. CASE UNCHANGED vars
  BY <1>1, LessKeepsApart DEF vars
<1>2. ASSUME NEW trigger \in Triggers, NEW hint \in Shas, NEW mem, NEW gone,
             Start(trigger, hint, mem, gone)
      PROVE  RivalInv'
  <2>1. Hands' = {}
    BY <1>2 DEF Start
  <2> QED BY <1>2, <2>1, LessKeepsApart DEF Start
<1>3. CASE Crash
  BY <1>3, LessKeepsApart DEF Crash
<1>4. CASE Repository
  BY <1>4, LessKeepsApart DEF Repository, Decide, Push, OpenIssue
<1> QED BY <1>1, <1>2, <1>3, <1>4, RunKeepsApart DEF Next

\* While GitHub tells the worker which requests are open, no two of them change what
\* one file has to do with: although a run publishes what given up tasks left behind
\* and Carl decides on requests while it works.  A refused list counts as an empty one,
\* and then nothing is known to be open.
THEOREM RequestsAreNoRivals ==
    ASSUME "prs" \notin Faults
    PROVE  Spec => []NoRivalRequests
<1>1. RivalInv => NoRivalRequests
  BY DEF RivalInv
<1>2. TypeInv /\ RivalInv /\ [Next]_vars => RivalInv'
  BY RivalNext
<1> QED BY <1>1, <1>2, InitType, NextType, RivalInit, PTL DEF Spec
=============================================================================
