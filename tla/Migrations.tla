----------------------------- MODULE Migrations -----------------------------
(***************************************************************************)
(* live/migrate.mjs under live/database.mjs, on PostgreSQL: every process  *)
(* of the web service and of the worker applies the migration files when   *)
(* it starts, without a lock, and a file and its record in                 *)
(* schema_migrations are two statements.                                   *)
(*                                                                         *)
(* A file is one simple query, which PostgreSQL commits whole or not at    *)
(* all.  A process may die at any time, and the statement it was waiting   *)
(* for may still be committed afterwards.  The platform starts a process   *)
(* again; an instance keeps the files of the release it was built from, so *)
(* instances of two releases share the database during a deployment.       *)
(***************************************************************************)
EXTENDS Integers, FiniteSets

CONSTANTS
    Instances,     \* processes of the two services
    NFiles,        \* migration files of the newest release
    Release,       \* Release[s]: how many of them instance s was built with
    MaxCrashes     \* bound: deaths of processes

ASSUME FilesAssumption == NFiles \in Nat
ASSUME ReleaseAssumption == Release \in [Instances -> 0..NFiles]

VARIABLES
    schema,     \* the files committed; 0 is the table schema_migrations
    records,    \* the rows of schema_migrations
    pc,         \* where an instance is in createLiveDatabase
    at,         \* the file it is at
    fresh,      \* that file was not in the schema when its statement began
    seen,       \* the rows it read before it applied anything
    late,       \* statements of dead processes that may still be committed
    crashes

vars == <<schema, records, pc, at, fresh, seen, late, crashes>>

Files == 0..NFiles
Records == 1..NFiles

Init ==
    /\ schema = {}
    /\ records = {}
    /\ pc = [s \in Instances |-> "down"]
    /\ at = [s \in Instances |-> 0]
    /\ fresh = [s \in Instances |-> FALSE]
    /\ seen = [s \in Instances |-> {}]
    /\ late = {}
    /\ crashes = 0

----------------------------------------------------------------------------
(* One instance. *)

Goto(s, label, k) ==
    /\ pc' = [pc EXCEPT ![s] = label]
    /\ at' = [at EXCEPT ![s] = k]
    /\ fresh' = [fresh EXCEPT ![s] = label = "apply" /\ k \notin schema]

\* applyMigrations throws, the pool is closed, and the process exits.
GiveUp(s) == Goto(s, "down", 0)

TodoAgain(s, k, applied) == (k + 1)..Release[s]

\* The files of this release, after file k, that are not in applied.
Todo(s, k, applied) == {f \in (k + 1)..Release[s] : f \notin applied}

ContinueAnywhere(s, k, applied) ==
    LET left == Todo(s, k, applied)
    IN  IF left = {} THEN Goto(s, "up", 0) ELSE \E f \in left : Goto(s, "apply", f)

Continue(s, k, applied) ==
    LET left == Todo(s, k, applied)
    IN  IF left = {} THEN Goto(s, "up", 0)
        ELSE \E f \in left : (\A g \in left : f <= g) /\ Goto(s, "apply", f)

\* The process starts and sends CREATE TABLE IF NOT EXISTS schema_migrations.
Start(s) ==
    /\ pc[s] = "down"
    /\ Goto(s, "apply", 0)
    /\ UNCHANGED <<schema, records, seen, late, crashes>>

\* The statement an instance is waiting for.
InFlight(s) ==
    IF pc[s] \in {"apply", "record"} THEN {[kind |-> pc[s], file |-> at[s]]} ELSE {}

AppliedUnawaited(s) ==
    /\ pc[s] = "apply"
    /\ late' = late \cup InFlight(s)
    /\ Goto(s, IF at[s] = 0 THEN "read" ELSE "record", at[s])
    /\ UNCHANGED <<schema, records, seen, crashes>>

\* Every statement of a file says IF NOT EXISTS: it succeeds whoever was first.
Applied(s) ==
    /\ pc[s] = "apply"
    /\ schema' = schema \cup {at[s]}
    /\ Goto(s, IF at[s] = 0 THEN "read" ELSE "record", at[s])
    /\ UNCHANGED <<records, seen, late, crashes>>

\* ... but two sessions may both find an object missing and the second to
\* create it violates the uniqueness of the catalog.
LostRace(s) ==
    /\ pc[s] = "apply"
    /\ fresh[s]
    /\ at[s] \in schema
    /\ GiveUp(s)
    /\ UNCHANGED <<schema, records, seen, late, crashes>>

ReadRecords(s) ==
    /\ pc[s] = "read"
    /\ seen' = [seen EXCEPT ![s] = records]
    /\ Continue(s, 0, records)
    /\ UNCHANGED <<schema, records, late, crashes>>

Recorded(s) ==
    /\ pc[s] = "record"
    /\ at[s] \notin records
    /\ records' = records \cup {at[s]}
    /\ Continue(s, at[s], seen[s])
    /\ UNCHANGED <<schema, seen, late, crashes>>

RecordTakenIsDone(s) ==
    /\ pc[s] = "record"
    /\ at[s] \in records
    /\ Goto(s, "up", 0)
    /\ UNCHANGED <<schema, records, seen, late, crashes>>

\* Somebody recorded the file since this instance read: a duplicate key.
RecordTaken(s) ==
    /\ pc[s] = "record"
    /\ at[s] \in records
    /\ GiveUp(s)
    /\ UNCHANGED <<schema, records, seen, late, crashes>>

----------------------------------------------------------------------------
(* Deaths. *)

Crash(s) ==
    /\ pc[s] # "down"
    /\ crashes < MaxCrashes
    /\ crashes' = crashes + 1
    /\ late' = late \cup InFlight(s)
    /\ GiveUp(s)
    /\ UNCHANGED <<schema, records, seen>>

\* The server commits a statement whose process is gone, or it fails alone.
LateApplied(m) ==
    /\ m.kind = "apply"
    /\ schema' = schema \cup {m.file}
    /\ late' = late \ {m}
    /\ UNCHANGED <<records, pc, at, fresh, seen, crashes>>

LateRecorded(m) ==
    /\ m.kind = "record"
    /\ records' = records \cup {m.file}
    /\ late' = late \ {m}
    /\ UNCHANGED <<schema, pc, at, fresh, seen, crashes>>

LateLost(m) ==
    /\ late' = late \ {m}
    /\ UNCHANGED <<schema, records, pc, at, fresh, seen, crashes>>

----------------------------------------------------------------------------
Migrate(s) ==
    \/ Start(s)
    \/ Applied(s)
    \/ LostRace(s)
    \/ ReadRecords(s)
    \/ Recorded(s)
    \/ RecordTaken(s)

Next ==
    \/ \E s \in Instances : Migrate(s) \/ Crash(s)
    \/ \E m \in late : LateApplied(m) \/ LateRecorded(m) \/ LateLost(m)

Spec == Init /\ [][Next]_vars

\* The platform restarts a dead process, and a statement only waits for one of
\* another instance, which is committed or fails by itself.
FairSpec == Spec /\ \A s \in Instances : WF_vars(Migrate(s))

----------------------------------------------------------------------------
(* Properties. *)

Statements == [kind : {"apply", "record"}, file : Files]

TypeOK ==
    /\ schema \subseteq Files
    /\ records \subseteq Records
    /\ pc \in [Instances -> {"down", "apply", "read", "record", "up"}]
    /\ at \in [Instances -> Files]
    /\ fresh \in [Instances -> BOOLEAN]
    /\ seen \in [Instances -> SUBSET Records]
    /\ late \subseteq Statements
    /\ crashes \in Nat

\* A row of schema_migrations is only ever written for a file whose statements
\* are committed, whoever died between the two: nobody skips a file that was
\* not applied.
RecordsAreTrue == records \subseteq schema

\* An instance that has started finds every file of its own release in the
\* schema, although it may have applied only some of them itself.
ServesItsRelease ==
    \A s \in Instances : pc[s] = "up" => 1..Release[s] \subseteq schema

\* Racing instances, deaths and late commits together never show the database
\* a schema other than a version: each file is committed after the files it
\* alters or references.
Plan == INSTANCE SchemaPlan WITH NFiles <- NFiles, schema <- schema
GrowsInOrder == Plan!Spec

\* Losing a race costs a restart and never the service: every instance is up
\* for good once processes stop dying.
EveryInstanceStarts == \A s \in Instances : <>[](pc[s] = "up")
=============================================================================
