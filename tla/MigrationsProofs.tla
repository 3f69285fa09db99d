-------------------------- MODULE MigrationsProofs --------------------------
(***************************************************************************)
(* However many instances start together, whatever releases they carry and *)
(* whenever they die, the records are true, a started instance has its     *)
(* schema, and the schema is a version that only grows (SchemaPlan).       *)
(*                                                                         *)
(* The inductive invariant says why: the files before the one an instance  *)
(* is at are all recorded, either before it read or by itself, and a       *)
(* statement that outlives its process was due when it was sent.           *)
(***************************************************************************)
EXTENDS Migrations, TLAPS

\* The committed files have no gap.
NoGap == \A k \in schema : 0..k \subseteq schema

\* What an instance knows at each place of its start.
Placed(s) ==
    /\ seen[s] \subseteq records
    /\ pc[s] = "read" => 0 \in schema
    /\ pc[s] = "apply" => at[s] \in 0..Release[s] /\ 1..(at[s] - 1) \subseteq records
    /\ pc[s] = "apply" => 0..(at[s] - 1) \subseteq schema
    /\ pc[s] = "record" => at[s] \in 1..Release[s] /\ 1..(at[s] - 1) \subseteq records
    /\ pc[s] = "record" => at[s] \in schema
    /\ pc[s] = "up" => 1..Release[s] \subseteq records

\* A statement in flight is of a file whose predecessors are committed, and
\* a record in flight of a file that is committed itself.
Due(m) ==
    /\ 0..(m.file - 1) \subseteq schema
    /\ m.kind = "record" => m.file \in Records /\ m.file \in schema

Inv ==
    /\ TypeOK
    /\ RecordsAreTrue
    /\ NoGap
    /\ \A s \in Instances : Placed(s)
    /\ \A m \in late : Due(m)

USE FilesAssumption, ReleaseAssumption

LEMMA InitInv == Init => Inv
BY SMT DEF Init, Inv, TypeOK, RecordsAreTrue, NoGap, Placed, Due, Files, Records, Statements

\* Continue only passes over files that are recorded: it leads to a file whose
\* predecessors are recorded, or to the end with all of them recorded.
LEMMA ContinueSkipsRecorded ==
    ASSUME NEW s \in Instances, NEW k \in 0..Release[s], NEW STATE applied, NEW ACTION R,
           1..k \subseteq R, applied \subseteq R, Continue(s, k, applied)
    PROVE  \/ Goto(s, "up", 0) /\ 1..Release[s] \subseteq R
           \/ \E f \in 1..Release[s] : Goto(s, "apply", f) /\ 1..(f - 1) \subseteq R
<1> Release[s] \in Nat
  OBVIOUS
<1>1. CASE Todo(s, k, applied) = {}
  <2>1. \A g \in (k + 1)..Release[s] : g \in applied
    BY <1>1 DEF Todo
  <2>2. 1..Release[s] \subseteq R
    BY <2>1, SMT
  <2>3. Goto(s, "up", 0)
    BY <1>1 DEF Continue
  <2> QED
    BY <2>2, <2>3
<1>2. CASE Todo(s, k, applied) # {}
  <2>1. PICK f \in Todo(s, k, applied) :
            (\A g \in Todo(s, k, applied) : f <= g) /\ Goto(s, "apply", f)
    BY <1>2 DEF Continue
  <2>2. f \in (k + 1)..Release[s]
    BY <2>1 DEF Todo
  <2>3. \A g \in (k + 1)..Release[s] : g < f => g \in applied
    BY <2>1, <2>2, SMT DEF Todo
  <2>4. 1..(f - 1) \subseteq R
    BY <2>2, <2>3, SMT
  <2> QED
    BY <2>1, <2>2, <2>4, SMT
<1> QED
  BY <1>1, <1>2

\* Goto moves one instance and leaves the others where they are.
LEMMA GotoMoves ==
    ASSUME TypeOK, NEW s \in Instances,
           NEW label \in {"down", "apply", "read", "record", "up"}, NEW k \in Files,
           Goto(s, label, k)
    PROVE  /\ pc' \in [Instances -> {"down", "apply", "read", "record", "up"}]
           /\ at' \in [Instances -> Files]
           /\ fresh' \in [Instances -> BOOLEAN]
           /\ pc'[s] = label /\ at'[s] = k
           /\ \A t \in Instances \ {s} : pc'[t] = pc[t] /\ at'[t] = at[t]
BY DEF Goto, TypeOK

\* The files and the records only grow, and an instance that does not move
\* keeps its place.
LEMMA OthersStay ==
    ASSUME Inv, NEW t \in Instances,
           schema \subseteq schema', records \subseteq records',
           pc'[t] = pc[t], at'[t] = at[t], seen'[t] = seen[t]
    PROVE  Placed(t)'
BY SMT DEF Inv, Placed

LEMMA DueStays ==
    ASSUME NEW m, Due(m), schema \subseteq schema'
    PROVE  Due(m)'
BY DEF Due, Records

\* Committing a file whose predecessors are committed leaves no gap, and is a
\* step of the plan.
LEMMA NextFile ==
    ASSUME Inv, NEW k \in Files, 0..(k - 1) \subseteq schema, schema' = schema \cup {k}
    PROVE  /\ NoGap'
           /\ schema' \subseteq Files
           /\ [Plan!Grow]_schema
<1>1. /\ schema \subseteq Files
      /\ \A j \in schema : 0..j \subseteq schema
  BY DEF Inv, TypeOK, NoGap
<1>2. NoGap'
  <2> SUFFICES ASSUME NEW j \in schema' PROVE 0..j \subseteq schema'
    BY DEF NoGap
  <2>1. CASE j \in schema
    BY <2>1, <1>1
  <2>2. CASE j = k
    BY <2>2, SMT DEF Files
  <2> QED
    BY <2>1, <2>2
<1>3. schema' \subseteq Files
  BY <1>1
<1>4. [Plan!Grow]_schema
  <2>1. CASE k \in schema
    BY <2>1
  <2>2. CASE k \notin schema
    <3>1. \A j \in schema : j \in 0..(k - 1)
      BY <1>1, <2>2, SMT DEF Files
    <3>2. schema = 0..(k - 1)
      BY <3>1
    <3>3. schema' = 0..k
      BY <3>2, SMT DEF Files
    <3> QED
      BY <3>2, <3>3 DEF Plan!Grow, Files
  <2> QED
    BY <2>1, <2>2
<1> QED
  BY <1>2, <1>3, <1>4

----------------------------------------------------------------------------
(* The steps of one instance, and its death. *)

\* An instance moves and nothing shrinks: the invariant holds again if it holds
\* of what moved.
LEMMA OneMoves ==
    ASSUME Inv, NEW s \in Instances,
           NEW label \in {"down", "apply", "read", "record", "up"}, NEW ACTION k,
           k \in Files, Goto(s, label, k),
           schema \subseteq schema', records \subseteq records',
           records' \subseteq Records, RecordsAreTrue', schema' \subseteq Files, NoGap',
           seen' \in [Instances -> SUBSET Records],
           \A t \in Instances \ {s} : seen'[t] = seen[t],
           late' \subseteq Statements, \A m \in late' : Due(m)', crashes' \in Nat,
           Placed(s)'
    PROVE  Inv'
<1>1. /\ pc' \in [Instances -> {"down", "apply", "read", "record", "up"}]
      /\ at' \in [Instances -> Files]
      /\ fresh' \in [Instances -> BOOLEAN]
      /\ \A t \in Instances \ {s} : pc'[t] = pc[t] /\ at'[t] = at[t]
  BY GotoMoves DEF Inv
<1>2. TypeOK'
  BY <1>1 DEF TypeOK
<1>3. ASSUME NEW t \in Instances PROVE Placed(t)'
  <2>1. CASE t # s
    BY <2>1, <1>1, OthersStay
  <2> QED
    BY <2>1
<1> QED
  BY <1>2, <1>3 DEF Inv

\* A step of an instance that writes nothing.
LEMMA OneMovesAlone ==
    ASSUME Inv, NEW s \in Instances,
           NEW label \in {"down", "apply", "read", "record", "up"}, NEW ACTION k,
           k \in Files, Goto(s, label, k), UNCHANGED <<schema, records, late, crashes>>,
           seen' \in [Instances -> SUBSET Records],
           \A t \in Instances \ {s} : seen'[t] = seen[t],
           Placed(s)'
    PROVE  Inv'
<1>1. \A m \in late' : Due(m)'
  BY DueStays DEF Inv
<1>2. /\ TypeOK /\ RecordsAreTrue /\ NoGap
  BY DEF Inv
<1>3. /\ RecordsAreTrue' /\ NoGap'
      /\ schema' \subseteq Files /\ records' \subseteq Records
      /\ late' \subseteq Statements /\ crashes' \in Nat
  BY <1>2 DEF TypeOK, RecordsAreTrue, NoGap
<1> QED
  BY <1>1, <1>3, OneMoves

LEMMA StartInv == ASSUME Inv, NEW s \in Instances, Start(s) PROVE Inv'
<1>1. 0 \in Files
  BY SMT DEF Files
<1>2. pc'[s] = "apply" /\ at'[s] = 0
  BY <1>1, GotoMoves DEF Inv, Start
<1>3. Placed(s)'
  BY <1>2, SMT DEF Inv, Placed, Start
<1>4. /\ seen' \in [Instances -> SUBSET Records]
      /\ \A t \in Instances \ {s} : seen'[t] = seen[t]
  BY DEF Inv, TypeOK, Start
<1> QED
  BY <1>1, <1>3, <1>4, OneMovesAlone DEF Start

LEMMA GiveUpInv ==
    ASSUME Inv, NEW s \in Instances, GiveUp(s),
           UNCHANGED <<schema, records, seen, late, crashes>>
    PROVE  Inv'
<1>1. 0 \in Files
  BY SMT DEF Files
<1>2. pc'[s] = "down"
  BY <1>1, GotoMoves DEF Inv, GiveUp
<1>3. Placed(s)'
  BY <1>2 DEF Inv, Placed
<1>4. /\ seen' \in [Instances -> SUBSET Records]
      /\ \A t \in Instances \ {s} : seen'[t] = seen[t]
  BY DEF Inv, TypeOK
<1> QED
  BY <1>1, <1>3, <1>4, OneMovesAlone DEF GiveUp

LEMMA AppliedInv ==
    ASSUME Inv, NEW s \in Instances, Applied(s)
    PROVE  Inv' /\ [Plan!Grow]_schema
<1> DEFINE label == IF at[s] = 0 THEN "read" ELSE "record"
<1>1. /\ pc[s] = "apply" /\ Placed(s) /\ TypeOK
      /\ at[s] \in Files
      /\ schema' = schema \cup {at[s]}
      /\ UNCHANGED <<records, seen, late, crashes>>
  BY DEF Inv, TypeOK, Applied
<1>2. NoGap' /\ schema' \subseteq Files /\ [Plan!Grow]_schema
  BY <1>1, NextFile DEF Placed
<1>3. /\ label \in {"down", "apply", "read", "record", "up"}
      /\ Goto(s, label, at[s])
  BY DEF Applied
<1>4. pc'[s] = label /\ at'[s] = at[s]
  BY <1>1, <1>3, GotoMoves
<1>5. Placed(s)'
  BY <1>1, <1>4, SMT DEF Placed, Files
<1>6. \A m \in late' : Due(m)'
  BY <1>1, DueStays DEF Inv
<1>7. /\ RecordsAreTrue' /\ records' \subseteq Records
      /\ late' \subseteq Statements /\ crashes' \in Nat
      /\ seen' \in [Instances -> SUBSET Records]
      /\ \A t \in Instances \ {s} : seen'[t] = seen[t]
  BY <1>1 DEF Inv, TypeOK, RecordsAreTrue
<1>8. schema \subseteq schema' /\ records \subseteq records'
  BY <1>1
<1>9. Inv'
  BY <1>1, <1>2, <1>3, <1>5, <1>6, <1>7, <1>8, OneMoves
<1> QED
  BY <1>2, <1>9

\* Where Continue leads, an instance knows what it has to know.
LEMMA ContinueIsPlaced ==
    ASSUME Inv, NEW s \in Instances, NEW k \in 0..Release[s], NEW STATE applied,
           1..k \subseteq records', applied \subseteq records', Continue(s, k, applied),
           0 \in schema', RecordsAreTrue', seen'[s] \subseteq records'
    PROVE  \E label \in {"up", "apply"}, f \in Files : Goto(s, label, f) /\ Placed(s)'
<1>1. CASE Goto(s, "up", 0) /\ 1..Release[s] \subseteq records'
  <2>1. 0 \in Files
    BY SMT DEF Files
  <2>2. pc'[s] = "up"
    BY <1>1, <2>1, GotoMoves DEF Inv
  <2>3. Placed(s)'
    BY <1>1, <2>2 DEF Placed
  <2> QED
    BY <1>1, <2>1, <2>3
<1>2. ASSUME NEW f \in 1..Release[s], Goto(s, "apply", f), 1..(f - 1) \subseteq records'
      PROVE  f \in Files /\ Placed(s)'
  <2>1. f \in Files
    BY SMT DEF Files
  <2>2. pc'[s] = "apply" /\ at'[s] = f
    BY <1>2, <2>1, GotoMoves DEF Inv
  <2>3. 0..(f - 1) \subseteq schema'
    BY <1>2, SMT DEF RecordsAreTrue
  <2> QED
    BY <1>2, <2>1, <2>2, <2>3, SMT DEF Placed
<1>3. \/ Goto(s, "up", 0) /\ 1..Release[s] \subseteq records'
      \/ \E f \in 1..Release[s] : Goto(s, "apply", f) /\ 1..(f - 1) \subseteq records'
  BY ContinueSkipsRecorded
<1> QED
  BY <1>1, <1>2, <1>3

LEMMA ReadRecordsInv == ASSUME Inv, NEW s \in Instances, ReadRecords(s) PROVE Inv'
<1>1. /\ TypeOK /\ RecordsAreTrue /\ Placed(s) /\ pc[s] = "read"
      /\ seen' = [seen EXCEPT ![s] = records]
      /\ Continue(s, 0, records)
      /\ UNCHANGED <<schema, records, late, crashes>>
  BY DEF Inv, ReadRecords
<1>2. /\ seen' \in [Instances -> SUBSET Records]
      /\ seen'[s] = records'
      /\ \A t \in Instances \ {s} : seen'[t] = seen[t]
  BY <1>1 DEF TypeOK
<1>3. 0 \in 0..Release[s] /\ 1..0 \subseteq records' /\ 0 \in schema' /\ RecordsAreTrue'
  BY <1>1, SMT DEF Placed, RecordsAreTrue
<1>4. PICK label \in {"up", "apply"}, f \in Files : Goto(s, label, f) /\ Placed(s)'
  BY <1>1, <1>2, <1>3, ContinueIsPlaced
<1> QED
  BY <1>1, <1>2, <1>4, OneMovesAlone

LEMMA RecordedInv == ASSUME Inv, NEW s \in Instances, Recorded(s) PROVE Inv'
<1>1. /\ TypeOK /\ RecordsAreTrue /\ NoGap /\ Placed(s) /\ pc[s] = "record"
      /\ records' = records \cup {at[s]}
      /\ Continue(s, at[s], seen[s])
      /\ UNCHANGED <<schema, seen, late, crashes>>
  BY DEF Inv, Recorded
<1>2. /\ at[s] \in 1..Release[s] /\ at[s] \in schema
      /\ 1..(at[s] - 1) \subseteq records /\ seen[s] \subseteq records
  BY <1>1 DEF Placed
<1>3. /\ at[s] \in 0..Release[s] /\ at[s] \in Records /\ 1..at[s] \subseteq records'
  BY <1>1, <1>2, SMT DEF Records
<1>4. 0 \in schema'
  BY <1>1, <1>2, SMT DEF NoGap
<1>5. /\ RecordsAreTrue' /\ NoGap' /\ records' \subseteq Records /\ schema' \subseteq Files
      /\ schema \subseteq schema' /\ records \subseteq records'
      /\ late' \subseteq Statements /\ crashes' \in Nat
      /\ seen' \in [Instances -> SUBSET Records]
      /\ \A t \in Instances \ {s} : seen'[t] = seen[t]
      /\ seen'[s] \subseteq records'
  BY <1>1, <1>2, <1>3 DEF TypeOK, RecordsAreTrue, NoGap
<1>6. \A m \in late' : Due(m)'
  BY <1>1, DueStays DEF Inv
<1>7. PICK label \in {"up", "apply"}, f \in Files : Goto(s, label, f) /\ Placed(s)'
  <2>1. seen[s] \subseteq records'
    BY <1>1, <1>2
  <2> QED
    BY <1>1, <1>3, <1>4, <1>5, <2>1, ContinueIsPlaced
<1> QED
  BY <1>5, <1>6, <1>7, OneMoves

LEMMA CrashInv == ASSUME Inv, NEW s \in Instances, Crash(s) PROVE Inv'
<1>1. /\ TypeOK /\ RecordsAreTrue /\ NoGap /\ Placed(s)
      /\ late' = late \cup InFlight(s)
      /\ crashes' = crashes + 1
      /\ Goto(s, "down", 0)
      /\ UNCHANGED <<schema, records, seen>>
  BY DEF Inv, Crash, GiveUp
<1>2. 0 \in Files
  BY SMT DEF Files
<1>3. pc'[s] = "down"
  BY <1>1, <1>2, GotoMoves
<1>4. Placed(s)'
  BY <1>1, <1>3 DEF Placed
<1>5. ASSUME NEW m \in InFlight(s) PROVE m \in Statements /\ Due(m)
  <2>1. pc[s] \in {"apply", "record"} /\ m = [kind |-> pc[s], file |-> at[s]]
    BY DEF InFlight
  <2>2. at[s] \in Files /\ m.kind = pc[s] /\ m.file = at[s]
    BY <1>1, <2>1 DEF TypeOK
  <2>3. m \in Statements
    BY <2>1, <2>2 DEF Statements
  <2>4. 0..(at[s] - 1) \subseteq schema
    <3>1. CASE pc[s] = "apply"
      BY <1>1, <3>1 DEF Placed
    <3>2. CASE pc[s] = "record"
      <4>1. at[s] \in schema
        BY <1>1, <3>2 DEF Placed
      <4>2. 0..at[s] \subseteq schema
        BY <1>1, <4>1 DEF NoGap
      <4> QED
        BY <4>2, <2>2, SMT DEF Files
    <3> QED
      BY <2>1, <3>1, <3>2
  <2>5. m.kind = "record" => m.file \in Records /\ m.file \in schema
    BY <1>1, <2>2, SMT DEF Placed, Records
  <2> QED
    BY <2>2, <2>3, <2>4, <2>5 DEF Due
<1>6. late' \subseteq Statements /\ \A m \in late' : Due(m)'
  <2>1. \A m \in late' : m \in Statements /\ Due(m)
    BY <1>1, <1>5 DEF Inv, TypeOK
  <2> QED
    BY <1>1, <2>1, DueStays
<1>7. /\ RecordsAreTrue' /\ NoGap' /\ records' \subseteq Records /\ schema' \subseteq Files
      /\ schema \subseteq schema' /\ records \subseteq records'
      /\ seen' \in [Instances -> SUBSET Records]
      /\ \A t \in Instances \ {s} : seen'[t] = seen[t]
  BY <1>1 DEF TypeOK, RecordsAreTrue, NoGap
<1>8. crashes' \in Nat
  BY <1>1, SMT DEF TypeOK
<1> QED
  BY <1>1, <1>2, <1>4, <1>6, <1>7, <1>8, OneMoves

----------------------------------------------------------------------------
(* The statements of the dead. *)

\* Nobody moves, the files and the records grow truly, and late shrinks.
LEMMA NobodyMoves ==
    ASSUME Inv, schema \subseteq schema', records \subseteq records',
           records' \subseteq Records, RecordsAreTrue', schema' \subseteq Files, NoGap',
           late' \subseteq late, UNCHANGED <<pc, at, fresh, seen, crashes>>
    PROVE  Inv'
<1>1. TypeOK'
  BY DEF Inv, TypeOK
<1>2. \A t \in Instances : Placed(t)'
  BY OthersStay
<1>3. \A m \in late' : Due(m)'
  BY DueStays DEF Inv
<1> QED
  BY <1>1, <1>2, <1>3 DEF Inv

LEMMA LateAppliedInv ==
    ASSUME Inv, NEW m \in late, LateApplied(m)
    PROVE  Inv' /\ [Plan!Grow]_schema
<1>1. /\ TypeOK /\ RecordsAreTrue /\ Due(m) /\ m \in Statements
      /\ schema' = schema \cup {m.file}
      /\ late' \subseteq late
      /\ UNCHANGED <<records, pc, at, fresh, seen, crashes>>
  BY DEF Inv, TypeOK, LateApplied
<1>2. m.file \in Files
  BY <1>1 DEF Statements
<1>3. NoGap' /\ schema' \subseteq Files /\ [Plan!Grow]_schema
  BY <1>1, <1>2, NextFile DEF Due
<1>4. /\ RecordsAreTrue' /\ records' \subseteq Records
      /\ schema \subseteq schema' /\ records \subseteq records'
  BY <1>1 DEF TypeOK, RecordsAreTrue
<1> QED
  BY <1>1, <1>3, <1>4, NobodyMoves

LEMMA LateRecordedInv == ASSUME Inv, NEW m \in late, LateRecorded(m) PROVE Inv'
<1>1. /\ TypeOK /\ RecordsAreTrue /\ NoGap /\ Due(m)
      /\ m.kind = "record"
      /\ records' = records \cup {m.file}
      /\ late' \subseteq late
      /\ UNCHANGED <<schema, pc, at, fresh, seen, crashes>>
  BY DEF Inv, LateRecorded
<1>2. /\ RecordsAreTrue' /\ NoGap' /\ records' \subseteq Records /\ schema' \subseteq Files
      /\ schema \subseteq schema' /\ records \subseteq records'
  BY <1>1 DEF TypeOK, RecordsAreTrue, NoGap, Due
<1> QED
  BY <1>1, <1>2, NobodyMoves

LEMMA LateLostInv == ASSUME Inv, NEW m \in late, LateLost(m) PROVE Inv'
<1>1. /\ TypeOK /\ RecordsAreTrue /\ NoGap
      /\ late' \subseteq late
      /\ UNCHANGED <<schema, records, pc, at, fresh, seen, crashes>>
  BY DEF Inv, LateLost
<1>2. /\ RecordsAreTrue' /\ NoGap' /\ records' \subseteq Records /\ schema' \subseteq Files
      /\ schema \subseteq schema' /\ records \subseteq records'
  BY <1>1 DEF TypeOK, RecordsAreTrue, NoGap
<1> QED
  BY <1>1, <1>2, NobodyMoves

----------------------------------------------------------------------------
LEMMA NextInv == Inv /\ [Next]_vars => Inv' /\ [Plan!Grow]_schema
<1> SUFFICES ASSUME Inv, [Next]_vars PROVE Inv' /\ [Plan!Grow]_schema
  OBVIOUS
<1>1. ASSUME NEW s \in Instances, Start(s) PROVE Inv' /\ [Plan!Grow]_schema
  BY <1>1, StartInv DEF Start
<1>2. ASSUME NEW s \in Instances, Applied(s) PROVE Inv' /\ [Plan!Grow]_schema
  BY <1>2, AppliedInv
<1>3. ASSUME NEW s \in Instances, LostRace(s) PROVE Inv' /\ [Plan!Grow]_schema
  BY <1>3, GiveUpInv DEF LostRace
<1>4. ASSUME NEW s \in Instances, ReadRecords(s) PROVE Inv' /\ [Plan!Grow]_schema
  BY <1>4, ReadRecordsInv DEF ReadRecords
<1>5. ASSUME NEW s \in Instances, Recorded(s) PROVE Inv' /\ [Plan!Grow]_schema
  BY <1>5, RecordedInv DEF Recorded
<1>6. ASSUME NEW s \in Instances, RecordTaken(s) PROVE Inv' /\ [Plan!Grow]_schema
  BY <1>6, GiveUpInv DEF RecordTaken
<1>7. ASSUME NEW s \in Instances, Crash(s) PROVE Inv' /\ [Plan!Grow]_schema
  BY <1>7, CrashInv DEF Crash
<1>8. ASSUME NEW m \in late, LateApplied(m) PROVE Inv' /\ [Plan!Grow]_schema
  BY <1>8, LateAppliedInv
<1>9. ASSUME NEW m \in late, LateRecorded(m) PROVE Inv' /\ [Plan!Grow]_schema
  BY <1>9, LateRecordedInv DEF LateRecorded
<1>10. ASSUME NEW m \in late, LateLost(m) PROVE Inv' /\ [Plan!Grow]_schema
  BY <1>10, LateLostInv DEF LateLost
<1>11. CASE UNCHANGED vars
  <2>1. Inv'
    BY <1>11 DEF vars, Inv, TypeOK, RecordsAreTrue, NoGap, Placed, Due
  <2> QED
    BY <1>11, <2>1 DEF vars
<1> QED
  BY <1>1, <1>2, <1>3, <1>4, <1>5, <1>6, <1>7, <1>8, <1>9, <1>10, <1>11 DEF Next, Migrate

LEMMA InvAlways == Spec => []Inv
<1>1. Init => Inv
  BY InitInv
<1>2. Inv /\ [Next]_vars => Inv'
  BY NextInv
<1> QED
  BY <1>1, <1>2, PTL DEF Spec

\* The variables keep their types: no instance is ever at a file that does not
\* exist.
THEOREM TypeCorrect == Spec => []TypeOK
<1>1. Inv => TypeOK
  BY DEF Inv
<1> QED
  BY <1>1, InvAlways, PTL

\* A record of schema_migrations is never written for a file that is not
\* committed, for any number of instances, releases, races and deaths.
THEOREM RecordsTrue == Spec => []RecordsAreTrue
<1>1. Inv => RecordsAreTrue
  BY DEF Inv
<1> QED
  BY <1>1, InvAlways, PTL

\* Every instance that has started has the whole schema of its release.
THEOREM StartedHasSchema == Spec => []ServesItsRelease
<1>1. Inv => ServesItsRelease
  BY DEF Inv, Placed, ServesItsRelease, RecordsAreTrue
<1> QED
  BY <1>1, InvAlways, PTL

\* Racing and dying instances implement the plan: the database only ever shows
\* a version, and versions follow one another.
THEOREM ImplementsPlan == Spec => GrowsInOrder
<1>1. Init => Plan!Init
  BY DEF Init, Plan!Init
<1>2. Inv /\ [Next]_vars => [Plan!Grow]_schema
  BY NextInv
<1> QED
  BY <1>1, <1>2, InvAlways, PTL DEF Spec, GrowsInOrder, Plan!Spec
=============================================================================
