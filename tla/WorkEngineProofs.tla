-------------------------- MODULE WorkEngineProofs --------------------------
(***************************************************************************)
(* The budget of the work engine and what its runs leave undone: whatever  *)
(* the work, its costs, the limits and the moments at which it dies.       *)
(***************************************************************************)
EXTENDS WorkEngine, TLAPS

(* The usage the budget is held against: the run's while one is in progress,   *)
(* or else what the next run will read.                                        *)
Running == pc \in {"consider", "execute", "write"}
Known == IF Running THEN run.usage ELSE file.usage

Accounted ==
    \A axis \in Axes : spent[axis] <= deaths * Limits[axis] + Known[axis]

WithinLimits ==
    \A axis \in Axes : run.usage[axis] <= Limits[axis] /\ file.usage[axis] <= Limits[axis]

BudgetInv == TypeOK /\ Accounted /\ WithinLimits

-----------------------------------------------------------------------------

(* A reservation stays a usage. *)
LEMMA ReservedType ==
    ASSUME NEW usage \in Usage, NEW cost \in Usage
    PROVE  Reserved(usage, cost) \in Usage
BY DEF Reserved, Usage

(* What can be consumed stays within the limits. *)
LEMMA ReservedFits ==
    ASSUME NEW usage \in Usage, NEW cost \in Usage, CanConsume(usage, cost)
    PROVE  \A axis \in Axes : Reserved(usage, cost)[axis] <= Limits[axis]
<1> SUFFICES ASSUME NEW axis \in Axes PROVE usage[axis] + cost[axis] <= Limits[axis]
  BY DEF Reserved
<1>1. cost[axis] <= Limits[axis] - usage[axis]
  BY DEF CanConsume, RemainingBudget
<1>2. usage[axis] \in Nat /\ cost[axis] \in Nat /\ Limits[axis] \in Nat
  BY LimitsAssumption DEF Usage
<1> QED BY <1>1, <1>2

(* One more death pays for one more budget. *)
LEMMA OneMoreDeath ==
    ASSUME NEW d \in Nat, NEW limit \in Nat
    PROVE  (d + 1) * limit = d * limit + limit /\ d * limit \in Nat
OBVIOUS

LEMMA NoUsageType == NoUsage \in Usage /\ \A axis \in Axes : NoUsage[axis] = 0
BY DEF NoUsage, Usage

(* The states of a queue are kept by what the engine does with it. *)
LEMMA QueuedType ==
    ASSUME NEW queue \in [Work -> QueueStates]
    PROVE  Queued(queue) \in [Work -> QueueStates] /\ Ranked(queue) \in SUBSET Work
BY DEF Queued, Ranked, QueueStates, NotQueued

LEMMA CarriedType ==
    ASSUME NEW prior \in QueueStates
    PROVE  Carried(prior) \in QueueStates
BY DEF Carried, QueueStates, Living, NotQueued

LEMMA EmptyTypes == Absent \in Snapshot /\ NoRun \in Run
BY NoUsageType DEF Absent, NoRun, Snapshot, Run, QueueStates, NotQueued

-----------------------------------------------------------------------------
(* Typing. *)

LEMMA InitType == Init => TypeOK
<1> SUFFICES ASSUME Init PROVE TypeOK OBVIOUS
<1>1. deaths \in 0 .. MaxDeaths BY EngineAssumption DEF Init
<1>2. file \in Snapshot /\ run \in Run /\ spent \in Usage
  BY EmptyTypes, NoUsageType DEF Init
<1> QED BY <1>1, <1>2 DEF Init, TypeOK

LEMMA StartRunType == ASSUME TypeOK, StartRun PROVE TypeOK'
<1>1. PICK found \in Discoveries, human \in SUBSET (Work \ Always) :
        /\ human \subseteq found
        /\ LET graph == [w \in Work |-> IF w \in found THEN Carried(file.queue[w]) ELSE NotQueued]
           IN run' = [NoRun EXCEPT !.queue = Queued(graph), !.todo = Ranked(graph),
                                   !.human = human, !.usage = file.usage]
  BY DEF StartRun
<1> DEFINE graph == [w \in Work |-> IF w \in found THEN Carried(file.queue[w]) ELSE NotQueued]
<1>2. file.usage \in Usage /\ file.queue \in [Work -> QueueStates]
  BY DEF TypeOK, Snapshot
<1>3. graph \in [Work -> QueueStates]
  BY <1>2, CarriedType DEF QueueStates, NotQueued
<1>4. Queued(graph) \in [Work -> QueueStates] /\ Ranked(graph) \in SUBSET Work
  BY <1>3, QueuedType
<1> HIDE DEF graph
<1>5. run' = [NoRun EXCEPT !.queue = Queued(graph), !.todo = Ranked(graph),
                           !.human = human, !.usage = file.usage]
  BY <1>1 DEF graph
<1>6. run' \in Run
  BY <1>1, <1>2, <1>4, <1>5, EmptyTypes DEF Run
<1> QED BY <1>6 DEF StartRun, TypeOK

LEMMA BlockedType ==
    ASSUME TypeOK, NEW w \in Work, NEW state \in Living, Blocked(w, state)
    PROVE  TypeOK'
<1>1. run' \in Run
  BY DEF Blocked, TypeOK, Run, QueueStates
<1> QED BY <1>1 DEF Blocked, TypeOK

LEMMA ExecuteType == ASSUME TypeOK, Execute PROVE TypeOK'
<1>1. PICK w \in Work \ run.human :
        /\ run' = [run EXCEPT !.todo = @ \ {w}, !.task = w, !.usage = Reserved(@, Cost[w])]
        /\ spent' = Reserved(spent, Cost[w])
  BY DEF Execute
<1>2. Cost[w] \in Usage /\ run.usage \in Usage /\ spent \in Usage
  BY EngineAssumption DEF TypeOK, Run
<1>3. Reserved(run.usage, Cost[w]) \in Usage /\ spent' \in Usage
  BY <1>1, <1>2, ReservedType
<1>4. run' \in Run
  BY <1>1, <1>3 DEF TypeOK, Run
<1> QED BY <1>3, <1>4 DEF Execute, TypeOK

LEMMA ExecutedType == ASSUME TypeOK, Executed PROVE TypeOK'
<1>1. PICK w \in Work, outcome \in Outcomes :
        run' = [run EXCEPT !.task = NoWork,
                !.queue[w] = IF outcome = "COMPLETED" THEN "COMPLETED" ELSE "VERIFYING",
                !.completed = IF outcome = "COMPLETED" THEN @ \cup {w} ELSE @]
  BY DEF Executed
<1>2. run' \in Run
  BY <1>1 DEF TypeOK, Run, QueueStates, Living, Terminal
<1> QED BY <1>2 DEF Executed, TypeOK

LEMMA BeginWriteType == ASSUME TypeOK, BeginWrite PROVE TypeOK'
BY EmptyTypes DEF BeginWrite, TypeOK

LEMMA EndWriteType == ASSUME TypeOK, EndWrite PROVE TypeOK'
<1>1. file' \in Snapshot
  BY QueuedType DEF EndWrite, TypeOK, Run, Snapshot
<1> QED BY <1>1, EmptyTypes DEF EndWrite, TypeOK

LEMMA DieType == ASSUME TypeOK, Die PROVE TypeOK'
<1>1. deaths' \in 0 .. MaxDeaths BY EngineAssumption DEF Die, TypeOK
<1>2. run' \in Run BY EmptyTypes DEF Die
<1> QED BY <1>1, <1>2 DEF Die, TypeOK

(* Every step keeps the types. *)
LEMMA NextType == ASSUME TypeOK, [Next]_vars PROVE TypeOK'
<1>1. CASE StartRun BY <1>1, StartRunType
<1>2. CASE StopRunner BY <1>2 DEF StopRunner, TypeOK
<1>3. CASE HoldForHuman
  <2>1. PICK w \in Work : Blocked(w, "WAITING_HUMAN")
    BY <1>3 DEF HoldForHuman, TypeOK, Run
  <2> QED BY <2>1, BlockedType DEF Living
<1>4. CASE HoldForBudget
  <2>1. PICK w \in Work : Blocked(w, "BLOCKED_BUDGET")
    BY <1>4 DEF HoldForBudget
  <2> QED BY <2>1, BlockedType DEF Living
<1>5. CASE Execute BY <1>5, ExecuteType
<1>6. CASE Executed BY <1>6, ExecutedType
<1>7. CASE BeginWrite BY <1>7, BeginWriteType
<1>8. CASE EndWrite BY <1>8, EndWriteType
<1>9. CASE Signal BY <1>9 DEF Signal, TypeOK
<1>10. CASE Die BY <1>10, DieType
<1>11. CASE Restart BY <1>11 DEF Restart, TypeOK
<1>12. CASE UNCHANGED vars BY <1>12 DEF vars, TypeOK
<1> QED
  BY <1>1, <1>2, <1>3, <1>4, <1>5, <1>6, <1>7, <1>8, <1>9, <1>10, <1>11, <1>12
  DEF Next, Engine

(* The state of the engine is always of its type. *)
THEOREM EngineTypeCorrect == Spec => []TypeOK
BY InitType, NextType, PTL DEF Spec

-----------------------------------------------------------------------------
(* The accounts. *)

(* The numbers that the accounts compare. *)
LEMMA UsageNumbers ==
    ASSUME TypeOK, NEW axis \in Axes
    PROVE  /\ spent[axis] \in Nat /\ Limits[axis] \in Nat /\ deaths \in Nat
           /\ run.usage[axis] \in Nat /\ file.usage[axis] \in Nat
           /\ deaths * Limits[axis] \in Nat
<1>1. deaths \in Nat /\ Limits[axis] \in Nat
  BY EngineAssumption, LimitsAssumption DEF TypeOK
<1> QED BY <1>1, OneMoreDeath DEF TypeOK, Run, Snapshot, Usage

(* A step that leaves what was spent and the two usages alone. *)
LEMMA SameAccounts ==
    ASSUME BudgetInv, spent' = spent, deaths' = deaths, Known' = Known,
           run'.usage \in {run.usage, file.usage, NoUsage},
           file'.usage \in {run.usage, file.usage, NoUsage}
    PROVE  Accounted' /\ WithinLimits'
<1>1. Accounted' BY DEF BudgetInv, Accounted
<1>2. ASSUME NEW axis \in Axes
      PROVE  run'.usage[axis] <= Limits[axis] /\ file'.usage[axis] <= Limits[axis]
  <2>1. run.usage[axis] <= Limits[axis] /\ file.usage[axis] <= Limits[axis]
    BY DEF BudgetInv, WithinLimits
  <2>2. NoUsage[axis] <= Limits[axis]
    BY NoUsageType, LimitsAssumption
  <2> QED BY <2>1, <2>2
<1> QED BY <1>1, <1>2 DEF WithinLimits

LEMMA ExecuteAccounts == ASSUME BudgetInv, Execute PROVE Accounted' /\ WithinLimits'
<1>1. PICK w \in Work \ run.human :
        /\ Affordable(w)
        /\ run' = [run EXCEPT !.todo = @ \ {w}, !.task = w, !.usage = Reserved(@, Cost[w])]
        /\ spent' = Reserved(spent, Cost[w])
  BY DEF Execute
<1>2. Cost[w] \in Usage /\ run.usage \in Usage
  BY EngineAssumption DEF BudgetInv, TypeOK, Run
<1>3. run'.usage = Reserved(run.usage, Cost[w])
  BY <1>1 DEF BudgetInv, TypeOK, Run
<1>4. pc = "consider" /\ pc' = "execute" /\ file' = file /\ deaths' = deaths
  BY DEF Execute
<1>5. Known = run.usage /\ Known' = run'.usage
  BY <1>4 DEF Known, Running
<1>6. WithinLimits'
  BY <1>1, <1>2, <1>3, <1>4, ReservedFits DEF BudgetInv, WithinLimits, Affordable
<1>7. ASSUME NEW axis \in Axes
      PROVE  spent'[axis] <= deaths' * Limits[axis] + Known'[axis]
  <2>1. spent[axis] <= deaths * Limits[axis] + run.usage[axis]
    BY <1>5 DEF BudgetInv, Accounted
  <2>2. spent'[axis] = spent[axis] + Cost[w][axis] /\ Known'[axis] = run.usage[axis] + Cost[w][axis]
    BY <1>1, <1>3, <1>5 DEF Reserved
  <2>3. Cost[w][axis] \in Nat BY <1>2 DEF Usage
  <2>4. /\ spent[axis] \in Nat /\ run.usage[axis] \in Nat
        /\ deaths * Limits[axis] \in Nat
    BY UsageNumbers DEF BudgetInv
  <2> QED BY <1>4, <2>1, <2>2, <2>3, <2>4
<1> QED BY <1>6, <1>7 DEF Accounted

LEMMA DieAccounts == ASSUME BudgetInv, Die PROVE Accounted' /\ WithinLimits'
<1>1. deaths' = deaths + 1 /\ spent' = spent /\ file' = file /\ run' = NoRun /\ pc' = "dead"
  BY DEF Die
<1>2. Known' = file.usage BY <1>1 DEF Known, Running
<1>3. ASSUME NEW axis \in Axes
      PROVE  spent'[axis] <= deaths' * Limits[axis] + Known'[axis]
  <2>1. spent[axis] <= deaths * Limits[axis] + Known[axis]
    BY DEF BudgetInv, Accounted
  <2>2. Known[axis] <= Limits[axis]
    BY DEF BudgetInv, WithinLimits, Known
  <2>3. /\ spent[axis] \in Nat /\ Limits[axis] \in Nat /\ deaths \in Nat
        /\ run.usage[axis] \in Nat /\ file.usage[axis] \in Nat
        /\ deaths * Limits[axis] \in Nat
    BY UsageNumbers DEF BudgetInv
  <2>4. (deaths + 1) * Limits[axis] = deaths * Limits[axis] + Limits[axis]
    BY <2>3, OneMoreDeath
  <2>5. Known[axis] \in Nat BY <2>3 DEF Known
  <2> QED BY <1>1, <1>2, <2>1, <2>2, <2>3, <2>4, <2>5
<1>4. WithinLimits'
  <2>1. run'.usage = NoUsage BY <1>1 DEF NoRun
  <2> QED BY <1>1, <2>1, NoUsageType, LimitsAssumption DEF BudgetInv, WithinLimits
<1> QED BY <1>3, <1>4 DEF Accounted

LEMMA StartRunAccounts == ASSUME BudgetInv, StartRun PROVE Accounted' /\ WithinLimits'
<1>1. run'.usage = file.usage
  <2>1. PICK queue, todo, human :
          run' = [NoRun EXCEPT !.queue = queue, !.todo = todo, !.human = human, !.usage = file.usage]
    BY DEF StartRun
  <2> QED BY <2>1 DEF NoRun
<1>2. Known' = Known /\ spent' = spent /\ deaths' = deaths /\ file' = file
  BY <1>1 DEF StartRun, Known, Running
<1> QED BY <1>1, <1>2, SameAccounts

LEMMA BlockedAccounts ==
    ASSUME BudgetInv, pc = "consider", NEW w \in Work, NEW state \in Living, Blocked(w, state)
    PROVE  Accounted' /\ WithinLimits'
<1>1. run'.usage = run.usage BY DEF Blocked, BudgetInv, TypeOK, Run
<1>2. Known' = Known /\ spent' = spent /\ deaths' = deaths /\ file' = file
  BY <1>1 DEF Blocked, Known, Running
<1> QED BY <1>1, <1>2, SameAccounts

LEMMA ExecutedAccounts == ASSUME BudgetInv, Executed PROVE Accounted' /\ WithinLimits'
<1>1. run'.usage = run.usage BY DEF Executed, BudgetInv, TypeOK, Run
<1>2. Known' = Known /\ spent' = spent /\ deaths' = deaths /\ file' = file
  BY <1>1 DEF Executed, Known, Running
<1> QED BY <1>1, <1>2, SameAccounts

LEMMA BeginWriteAccounts == ASSUME BudgetInv, BeginWrite PROVE Accounted' /\ WithinLimits'
<1>1. run' = run /\ file'.usage = NoUsage BY DEF BeginWrite, Absent
<1>2. Known' = Known /\ spent' = spent /\ deaths' = deaths
  BY <1>1 DEF BeginWrite, Known, Running
<1> QED BY <1>1, <1>2, SameAccounts

LEMMA EndWriteAccounts == ASSUME BudgetInv, EndWrite PROVE Accounted' /\ WithinLimits'
<1>1. run'.usage = NoUsage /\ file'.usage = run.usage BY DEF EndWrite, NoRun
<1>2. Known' = Known /\ spent' = spent /\ deaths' = deaths
  BY <1>1 DEF EndWrite, Known, Running
<1> QED BY <1>1, <1>2, SameAccounts

(* A step of the loop or of the process outside a run. *)
LEMMA OutsideAccounts ==
    ASSUME BudgetInv, StopRunner \/ Signal \/ Restart \/ UNCHANGED vars
    PROVE  Accounted' /\ WithinLimits'
<1>1. run' = run /\ file' = file /\ spent' = spent /\ deaths' = deaths
  BY DEF StopRunner, Signal, Restart, vars
<1>2. Known' = Known
  BY <1>1 DEF StopRunner, Signal, Restart, vars, Known, Running
<1> QED BY <1>1, <1>2, SameAccounts

LEMMA NextBudget == ASSUME BudgetInv, [Next]_vars PROVE BudgetInv'
<1>1. TypeOK' BY NextType DEF BudgetInv
<1>2. CASE StartRun BY <1>1, <1>2, StartRunAccounts DEF BudgetInv
<1>3. CASE HoldForHuman
  <2>1. PICK w \in Work : Blocked(w, "WAITING_HUMAN")
    BY <1>3 DEF HoldForHuman, BudgetInv, TypeOK, Run
  <2> QED BY <1>1, <1>3, <2>1, BlockedAccounts DEF Living, HoldForHuman, BudgetInv
<1>4. CASE HoldForBudget
  <2>1. PICK w \in Work : Blocked(w, "BLOCKED_BUDGET")
    BY <1>4 DEF HoldForBudget
  <2> QED BY <1>1, <1>4, <2>1, BlockedAccounts DEF Living, HoldForBudget, BudgetInv
<1>5. CASE Execute BY <1>1, <1>5, ExecuteAccounts DEF BudgetInv
<1>6. CASE Executed BY <1>1, <1>6, ExecutedAccounts DEF BudgetInv
<1>7. CASE BeginWrite BY <1>1, <1>7, BeginWriteAccounts DEF BudgetInv
<1>8. CASE EndWrite BY <1>1, <1>8, EndWriteAccounts DEF BudgetInv
<1>9. CASE Die BY <1>1, <1>9, DieAccounts DEF BudgetInv
<1>10. CASE StopRunner \/ Signal \/ Restart \/ UNCHANGED vars
  BY <1>1, <1>10, OutsideAccounts DEF BudgetInv
<1> QED
  BY <1>2, <1>3, <1>4, <1>5, <1>6, <1>7, <1>8, <1>9, <1>10 DEF Next, Engine

LEMMA InitBudget == Init => BudgetInv
<1> SUFFICES ASSUME Init PROVE BudgetInv OBVIOUS
<1>1. TypeOK BY InitType
<1>2. spent = NoUsage /\ run.usage = NoUsage /\ file.usage = NoUsage /\ deaths = 0
  BY DEF Init, NoRun, Absent
<1>3. Accounted
  <2> SUFFICES ASSUME NEW axis \in Axes
               PROVE  spent[axis] <= deaths * Limits[axis] + Known[axis]
    BY DEF Accounted
  <2>1. spent[axis] = 0 /\ Known[axis] = 0 BY <1>2, NoUsageType DEF Known
  <2>2. Limits[axis] \in Nat BY LimitsAssumption
  <2>3. deaths * Limits[axis] = 0 BY <1>2, <2>2
  <2> QED BY <2>1, <2>3
<1>4. WithinLimits
  <2> SUFFICES ASSUME NEW axis \in Axes
               PROVE  run.usage[axis] <= Limits[axis] /\ file.usage[axis] <= Limits[axis]
    BY DEF WithinLimits
  <2>1. run.usage[axis] = 0 /\ file.usage[axis] = 0 BY <1>2, NoUsageType
  <2>2. Limits[axis] \in Nat BY LimitsAssumption
  <2> QED BY <2>1, <2>2
<1> QED BY <1>1, <1>3, <1>4 DEF BudgetInv

LEMMA BudgetInvBounds == BudgetInv => BudgetPerLife
<1> SUFFICES ASSUME BudgetInv, NEW axis \in Axes
             PROVE  spent[axis] <= (deaths + 1) * Limits[axis]
  BY DEF BudgetPerLife
<1>1. spent[axis] <= deaths * Limits[axis] + Known[axis] BY DEF BudgetInv, Accounted
<1>2. Known[axis] <= Limits[axis] BY DEF BudgetInv, WithinLimits, Known
<1>3. /\ spent[axis] \in Nat /\ Limits[axis] \in Nat /\ deaths \in Nat
      /\ run.usage[axis] \in Nat /\ file.usage[axis] \in Nat
      /\ deaths * Limits[axis] \in Nat
  BY UsageNumbers DEF BudgetInv
<1>4. (deaths + 1) * Limits[axis] = deaths * Limits[axis] + Limits[axis]
  BY <1>3, OneMoreDeath
<1>5. Known[axis] \in Nat BY <1>3 DEF Known
<1> QED BY <1>1, <1>2, <1>3, <1>4, <1>5

(* Each death of the process costs at most one budget, whatever it forgets. *)
THEOREM BudgetHolds == Spec => []BudgetPerLife
<1>1. Init => BudgetInv BY InitBudget
<1>2. BudgetInv /\ [Next]_vars => BudgetInv' BY NextBudget
<1>3. BudgetInv => BudgetPerLife BY BudgetInvBounds
<1> QED BY <1>1, <1>2, <1>3, PTL DEF Spec

-----------------------------------------------------------------------------
(* A run considers all its candidates.  While it is under way, ranked work is  *)
(* still to come, or in execution, or was executed, or was left for a reason   *)
(* that lasts: what the budget does not pay for it will not pay for later.     *)

Settled(w) ==
    \/ run.queue[w] = "VERIFYING" /\ w \notin run.todo
    \/ w \in run.human
    \/ ~ Affordable(w)

Considered ==
    /\ Running => \A w \in Ranked(run.queue) :
                     \/ w \in run.todo
                     \/ pc = "execute" /\ w = run.task
                     \/ Settled(w)
    /\ pc = "execute" => run.task \notin run.todo
    /\ pc = "write" => Finished

(* A budget that does not pay for a task does not pay for it after another. *)
LEMMA StaysUnaffordable ==
    ASSUME NEW usage \in Usage, NEW other \in Usage, NEW cost \in Usage,
           CanConsume(Reserved(usage, other), cost)
    PROVE  CanConsume(usage, cost)
<1> SUFFICES ASSUME NEW axis \in Axes PROVE cost[axis] <= RemainingBudget(usage)[axis]
  BY DEF CanConsume
<1>1. cost[axis] <= RemainingBudget(Reserved(usage, other))[axis]
  BY DEF CanConsume
<1>2. usage[axis] \in Nat /\ other[axis] \in Nat /\ cost[axis] \in Nat /\ Limits[axis] \in Nat
  BY LimitsAssumption DEF Usage
<1> QED BY <1>1, <1>2 DEF RemainingBudget, Reserved

LEMMA StartRunConsiders == ASSUME TypeOK, StartRun PROVE Considered'
<1>1. PICK graph, human :
        run' = [NoRun EXCEPT !.queue = Queued(graph), !.todo = Ranked(graph),
                             !.human = human, !.usage = file.usage]
  BY DEF StartRun
<1>2. run'.queue = Queued(graph) /\ run'.todo = Ranked(graph)
  BY <1>1 DEF NoRun
<1>3. \A w \in Ranked(Queued(graph)) : w \in Ranked(graph)
  BY DEF Queued, Ranked
<1> QED BY <1>2, <1>3 DEF StartRun, Considered

LEMMA BlockedConsiders ==
    ASSUME TypeOK, Considered, pc = "consider", NEW w \in Work, NEW state \in Living,
           Blocked(w, state), w \in run.human \/ ~ Affordable(w)
    PROVE  Considered'
<1>1. /\ run'.todo = run.todo \ {w} /\ run'.human = run.human /\ run'.usage = run.usage
      /\ run'.queue = [run.queue EXCEPT ![w] = state] /\ pc' = pc
  BY DEF Blocked, TypeOK, Run
<1>2. ASSUME NEW v \in Ranked(run.queue)'
      PROVE  v \in run'.todo \/ Settled(v)'
  <2>1. v = w \/ v \in Ranked(run.queue)
    BY <1>1 DEF Ranked, TypeOK, Run
  <2>2. CASE v = w
    BY <1>1, <2>2 DEF Settled, Affordable
  <2>3. CASE v # w
    <3>1. v \in run.todo \/ Settled(v)
      BY <2>1, <2>3 DEF Considered, Running
    <3>2. run'.queue[v] = run.queue[v]
      BY <1>1, <2>3 DEF Ranked, TypeOK, Run
    <3> QED BY <1>1, <2>3, <3>1, <3>2 DEF Settled, Affordable
  <2> QED BY <2>2, <2>3
<1> QED BY <1>1, <1>2 DEF Considered

LEMMA ExecuteConsiders == ASSUME TypeOK, Considered, Execute PROVE Considered'
<1>1. PICK w \in Work \ run.human :
        run' = [run EXCEPT !.todo = @ \ {w}, !.task = w, !.usage = Reserved(@, Cost[w])]
  BY DEF Execute
<1>2. /\ run'.todo = run.todo \ {w} /\ run'.task = w /\ run'.human = run.human
      /\ run'.queue = run.queue /\ run'.usage = Reserved(run.usage, Cost[w])
  BY <1>1 DEF TypeOK, Run
<1>3. pc = "consider" /\ pc' = "execute"
  BY DEF Execute
<1>4. ASSUME NEW v \in Ranked(run.queue)
      PROVE  v \in run'.todo \/ v = run'.task \/ Settled(v)'
  <2>1. v \in run.todo \/ Settled(v)
    BY <1>3 DEF Considered, Running
  <2>2. v \in Work /\ Cost[v] \in Usage /\ Cost[w] \in Usage /\ run.usage \in Usage
    BY EngineAssumption DEF Ranked, TypeOK, Run
  <2>3. Affordable(v)' => Affordable(v)
    BY <1>2, <2>2, StaysUnaffordable DEF Affordable
  <2> QED BY <1>2, <2>1, <2>3 DEF Settled
<1> QED BY <1>2, <1>3, <1>4 DEF Considered

LEMMA ExecutedConsiders == ASSUME TypeOK, Considered, Executed PROVE Considered'
<1>1. PICK outcome \in Outcomes :
        run' = [run EXCEPT !.task = NoWork,
                !.queue[run.task] = IF outcome = "COMPLETED" THEN "COMPLETED" ELSE "VERIFYING",
                !.completed = IF outcome = "COMPLETED" THEN @ \cup {run.task} ELSE @]
  BY DEF Executed
<1> DEFINE state == IF outcome = "COMPLETED" THEN "COMPLETED" ELSE "VERIFYING"
<1>2. /\ run'.todo = run.todo /\ run'.human = run.human /\ run'.usage = run.usage
      /\ run'.queue = [run.queue EXCEPT ![run.task] = state]
  BY <1>1 DEF TypeOK, Run
<1>3. pc = "execute" /\ pc' = "consider" /\ run.task \in Work
  BY DEF Executed
<1>4. ASSUME NEW v \in Ranked(run.queue)'
      PROVE  v \in run'.todo \/ Settled(v)'
  <2>1. CASE v = run.task
    <3>1. run'.queue[v] = "VERIFYING"
      BY <1>2, <1>3, <2>1 DEF Ranked, Terminal, TypeOK, Run
    <3> QED BY <1>2, <1>3, <2>1, <3>1 DEF Considered, Settled
  <2>2. CASE v # run.task
    <3>1. v \in Ranked(run.queue) /\ run'.queue[v] = run.queue[v]
      BY <1>2, <2>2 DEF Ranked, TypeOK, Run
    <3>2. v \in run.todo \/ Settled(v)
      BY <1>3, <2>2, <3>1 DEF Considered, Running
    <3> QED BY <1>2, <3>1, <3>2 DEF Settled, Affordable
  <2> QED BY <2>1, <2>2
<1> QED BY <1>3, <1>4 DEF Considered

LEMMA BeginWriteConsiders == ASSUME Considered, BeginWrite PROVE Considered'
BY DEF BeginWrite, Considered, Running, Settled, Affordable, Finished, Full

(* A step that ends a run, or leaves it and the place alone. *)
LEMMA OutsideConsiders ==
    ASSUME Considered, \/ EndWrite \/ StopRunner \/ Die \/ Restart
                       \/ Signal \/ UNCHANGED vars
    PROVE  Considered'
<1>1. CASE EndWrite \/ StopRunner \/ Die \/ Restart
  BY <1>1 DEF EndWrite, StopRunner, Die, Restart, Considered, Running
<1>2. CASE Signal \/ UNCHANGED vars
  <2>1. pc' = pc /\ run' = run
    BY <1>2 DEF Signal, vars
  <2> QED BY <2>1 DEF Considered, Running, Settled, Affordable, Finished, Full
<1> QED BY <1>1, <1>2

LEMMA NextConsiders == ASSUME TypeOK, Considered, [Next]_vars PROVE Considered'
<1>1. CASE HoldForHuman
  <2>1. PICK w \in run.human : Blocked(w, "WAITING_HUMAN")
    BY <1>1 DEF HoldForHuman
  <2>2. w \in Work
    BY DEF TypeOK, Run
  <2> QED BY <1>1, <2>1, <2>2, BlockedConsiders DEF Living, HoldForHuman
<1>2. CASE HoldForBudget
  <2>1. PICK w \in Work : ~ Affordable(w) /\ Blocked(w, "BLOCKED_BUDGET")
    BY <1>2 DEF HoldForBudget
  <2> QED BY <1>2, <2>1, BlockedConsiders DEF Living, HoldForBudget
<1> QED
  BY <1>1, <1>2, StartRunConsiders, ExecuteConsiders, ExecutedConsiders, BeginWriteConsiders,
     OutsideConsiders DEF Next, Engine

(* A run that ends has left nothing undone that it might have done: what it    *)
(* did not execute waits for a human, or the budget does not pay for it, or    *)
(* the run had completed its MaxTasks.                                         *)
THEOREM NothingSkipped == Spec => []NothingAffordableSkipped
<1>1. Init => Considered
  BY DEF Init, Considered, Running
<1>2. TypeOK /\ Considered /\ [Next]_vars => Considered'
  BY NextConsiders
<1>3. Considered => NothingAffordableSkipped
  BY DEF Considered, Running, Settled, Finished, NothingAffordableSkipped
<1> QED BY <1>1, <1>2, <1>3, EngineTypeCorrect, PTL DEF Spec
=============================================================================
