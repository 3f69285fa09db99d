------------------------- MODULE ConnectionFabric --------------------------
(***************************************************************************)
(* Connections, scripts/acorn-connection-fabric.mjs, and executions        *)
(* through the membrane, throughMembrane of acorn-connector-flux.mjs: the  *)
(* calls that wait for an adapter or an execution, and what the code does  *)
(* with the answer whatever happened meanwhile.                            *)
(*                                                                         *)
(* A call that only waits for data, as send does, changes nothing when its *)
(* answer comes and is one step.  The times told are the callers' (their   *)
(* `now`), any of 0 .. MaxTime.  runConnectionSweep is the step that       *)
(* empties the membrane's memory and begins to ask adapters; its self-test *)
(* is the calls that every caller makes.                                   *)
(***************************************************************************)
EXTENDS ConnectorFlux

CONSTANTS
    NoActor,
    Callers,       \* each has at most one call that waits
    MaxConnections \* bound on the connections ever made

ASSUME FabricConstants == NoActor \notin Actors /\ MaxConnections \in Nat

VARIABLES
    connections, \* connection id -> its record
    call,        \* caller -> the call that waits
    probing,     \* a sweep waits for the capabilities of an adapter
    crossing,    \* history: what the last step asked of the world
    wasHealthy   \* history: connections whose adapter once answered healthy

fabricVars == <<connections, call, probing, crossing, wasHealthy>>

Answers == {"AUTHENTICATED", "HEALTHY", "UNKNOWN", "FAILED"}
States == {"CONNECTED", "DISCONNECTED", "REVOKED", "HEALTHY", "DEGRADED", "FAILED"}
DataOps == {"send", "request", "receive", "execute", "release"}
AdapterOps == {"authenticate", "connect", "disconnect", "health", "capabilities",
               "observe", "cancel"}

Idle == [op |-> "none", on |-> 0, actor |-> NoActor, session |-> NoSession, ok |-> FALSE]
Silence == [via |-> "none", cut |-> FALSE, revoked |-> FALSE]

FabricTypeOK ==
    /\ DOMAIN connections \subseteq 1 .. MaxConnections
    /\ \A k \in DOMAIN connections :
           connections[k] \in [state : States, actor : Actors, session : 0 .. MaxSessions,
               authenticated : BOOLEAN, revoked : BOOLEAN, measured : BOOLEAN,
               verified : BOOLEAN]
    /\ call \in [Callers -> [op : {"none", "execute"} \cup AdapterOps \cup {"measure"},
                             on : 0 .. MaxConnections, actor : Actors \cup {NoActor},
                             session : 0 .. MaxSessions, ok : BOOLEAN]]
    /\ crossing \in [via : {"none"} \cup DataOps \cup AdapterOps,
                     cut : BOOLEAN, revoked : BOOLEAN]
    /\ probing \in BOOLEAN
    /\ wasHealthy \subseteq 1 .. MaxConnections

NoConnections ==
    /\ connections = << >>
    /\ call = [p \in Callers |-> Idle]
    /\ probing = FALSE
    /\ crossing = Silence
    /\ wasHealthy = {}

\* What a step asks of an adapter, of an execution or of a destination, on a
\* connection or on none: recorded when a cut stands, of everything or of the
\* flows, or the connection is revoked.
Cross(via, k) ==
    LET cut == ordered \/ externalCut
        revoked == k \in DOMAIN connections /\ connections[k].revoked
    IN  crossing' = IF cut \/ revoked
                    THEN [via |-> via, cut |-> cut, revoked |-> revoked]
                    ELSE Silence

\* A call waits on a connection that exists, or to make one.
Waits(p, op, k, ok) ==
    call' = [call EXCEPT ![p] = [Idle EXCEPT !.op = op, !.on = k, !.ok = ok]]
WaitsToConnect(p, op, actor, session, ok) ==
    call' = [call EXCEPT ![p] = [op |-> op, on |-> 0, actor |-> actor,
                                 session |-> session, ok |-> ok]]
Returns(p) == call' = [call EXCEPT ![p] = Idle]
Unanswered(p) == UNCHANGED call

\* send, request, receive, observe, cancel, health, measure and verify refuse a
\* connection by its mark.  A mistake would ask its state.
UsableByState(k) == k \in DOMAIN connections
                    /\ connections[k].state \notin {"REVOKED", "DISCONNECTED"}
Usable(k) == k \in DOMAIN connections /\ ~connections[k].revoked

(***************************************************************************)
(* Making a connection.                                                    *)
(***************************************************************************)
\* A connection that presents a credential it has not proved, or that is paid
\* for, is held for a human.
Connect(p, actor, now, authenticated, held) ==
    LET frame == Frame(actor, NoDigest, NoSession, now, authenticated, "clean")
    IN  /\ call[p] = Idle
        /\ AdmitIngress(frame)
        /\ IF Admits(frame) /\ ~held
           THEN LET op == IF authenticated THEN "connect" ELSE "authenticate"
                IN  /\ WaitsToConnect(p, op, actor, SessionGiven(frame), authenticated)
                    /\ Cross(op, 0)
           ELSE Unanswered(p) /\ crossing' = Silence
        /\ UNCHANGED <<connections, wasHealthy>>

Authenticated(p, answer) ==
    /\ call[p].op = "authenticate"
    /\ IF answer \in {"FAILED", "UNKNOWN"}
       THEN Returns(p) /\ crossing' = Silence
       ELSE /\ WaitsToConnect(p, "connect", call[p].actor, call[p].session,
                              answer = "AUTHENTICATED")
            /\ Cross("connect", 0)
    /\ UNCHANGED <<fluxVars, connections, wasHealthy>>

Made(actor, session, authenticated) ==
    [state |-> "CONNECTED", actor |-> actor, session |-> session,
     authenticated |-> authenticated, revoked |-> FALSE, measured |-> FALSE,
     verified |-> FALSE]

Connected(p, answer) ==
    LET k == Cardinality(DOMAIN connections) + 1
    IN  /\ call[p].op = "connect"
        /\ IF answer \in {"FAILED", "UNKNOWN"}
           THEN UNCHANGED connections
           ELSE /\ k \in 1 .. MaxConnections
                /\ connections' = [i \in 1 .. k |->
                       IF i = k THEN Made(call[p].actor, call[p].session, call[p].ok)
                       ELSE connections[i]]
        /\ Returns(p)
        /\ crossing' = Silence
        /\ UNCHANGED <<fluxVars, wasHealthy>>

(***************************************************************************)
(* Ending one.                                                             *)
(***************************************************************************)
Disconnect(p, k) ==
    /\ call[p] = Idle
    /\ k \in DOMAIN connections
    /\ Waits(p, "disconnect", k, FALSE)
    /\ Cross("disconnect", k)
    /\ UNCHANGED <<fluxVars, connections, wasHealthy>>

Disconnected(p) ==
    /\ call[p].op = "disconnect"
    /\ connections' = [connections EXCEPT ![call[p].on].state = "DISCONNECTED",
                                          ![call[p].on].revoked = TRUE]
    /\ Returns(p)
    /\ crossing' = Silence
    /\ UNCHANGED <<fluxVars, wasHealthy>>

Revoke(k) ==
    /\ k \in DOMAIN connections
    /\ connections' = [connections EXCEPT ![k].state = "REVOKED", ![k].revoked = TRUE]
    /\ crossing' = Silence
    /\ UNCHANGED <<fluxVars, call, wasHealthy>>

(***************************************************************************)
(* Health, measurement and verification.                                   *)
(***************************************************************************)
\* op is "health", or "measure", which goes on to ask for capabilities.
AskHealth(p, k, op) ==
    /\ call[p] = Idle
    /\ Usable(k)
    /\ Waits(p, op, k, FALSE)
    /\ Cross("health", k)
    /\ UNCHANGED <<fluxVars, connections, wasHealthy>>

\* A mistake would keep the answer as it is.
StateAsAnswered(answer) == answer
StateAfter(answer) ==
    CASE answer = "HEALTHY" -> "HEALTHY"
      [] answer = "FAILED"  -> "FAILED"
      [] OTHER              -> "DEGRADED"

HealthAnswered(p, answer) ==
    LET k == call[p].on
        healthy == answer = "HEALTHY"
    IN  /\ call[p].op \in {"health", "measure"}
        /\ connections' = [connections EXCEPT ![k].state = StateAfter(answer)]
        /\ wasHealthy' = wasHealthy \cup (IF healthy THEN {k} ELSE {})
        /\ IF call[p].op = "health"
           THEN Returns(p) /\ crossing' = Silence
           ELSE /\ Waits(p, "capabilities", k, healthy)
                /\ Cross("capabilities", k)
        /\ UNCHANGED fluxVars

\* A mistake would measure by the capabilities alone.
MeasuredByAnswer(healthy, answer) == answer # "FAILED"
Measured(healthy, answer) == healthy /\ answer # "FAILED"

CapabilitiesAnswered(p, answer) ==
    /\ call[p].op = "capabilities"
    /\ connections' = [connections EXCEPT ![call[p].on].measured =
                          Measured(call[p].ok, answer)]
    /\ Returns(p)
    /\ crossing' = Silence
    /\ UNCHANGED <<fluxVars, wasHealthy>>

VerifyConnection(k, evidence) ==
    /\ Usable(k)
    /\ connections' = [connections EXCEPT ![k].verified =
                          connections[k].measured /\ evidence]
    /\ crossing' = Silence
    /\ UNCHANGED <<fluxVars, call, wasHealthy>>

(***************************************************************************)
(* Data, through the membrane.                                             *)
(***************************************************************************)
Send(k, op, sort) ==
    /\ op \in {"send", "request"}
    /\ Usable(k)
    /\ IF Releases(sort) THEN Cross(op, k) ELSE crossing' = Silence
    /\ UNCHANGED <<fluxVars, connections, call, wasHealthy>>

Receive(k, now, sort) ==
    LET frame == Frame(connections[k].actor, NoDigest, connections[k].session, now,
                       connections[k].authenticated, sort)
    IN  /\ Usable(k)
        /\ AdmitIngress(frame)
        /\ IF Admits(frame) THEN Cross("receive", k) ELSE crossing' = Silence
        /\ UNCHANGED <<connections, call, wasHealthy>>

\* observe and cancel go to the adapter past the membrane.
Ask(k, op) ==
    /\ op \in {"observe", "cancel"}
    /\ Usable(k)
    /\ Cross(op, k)
    /\ UNCHANGED <<fluxVars, connections, call, wasHealthy>>

Execute(p, frame) ==
    /\ call[p] = Idle
    /\ AdmitIngress(frame)
    /\ IF Admits(frame)
       THEN Waits(p, "execute", 0, TRUE) /\ Cross("execute", 0)
       ELSE Unanswered(p) /\ crossing' = Silence
    /\ UNCHANGED <<connections, wasHealthy>>

Executed(p, sort) ==
    /\ call[p].op = "execute"
    /\ IF Releases(sort) THEN Cross("release", 0) ELSE crossing' = Silence
    /\ Returns(p)
    /\ UNCHANGED <<fluxVars, connections, wasHealthy>>

Release(sort) ==
    /\ IF Releases(sort) THEN Cross("release", 0) ELSE crossing' = Silence
    /\ UNCHANGED <<fluxVars, connections, call, wasHealthy>>

(***************************************************************************)
(* The sweep.                                                              *)
(***************************************************************************)
Sweep ==
    /\ ~probing
    /\ ResetConnector
    /\ probing' = TRUE
    /\ Cross("capabilities", 0)
    /\ UNCHANGED <<connections, call, wasHealthy>>

SweepProbed ==
    /\ probing
    /\ probing' = FALSE
    /\ Cross("authenticate", 0)
    /\ UNCHANGED <<fluxVars, connections, call, wasHealthy>>
=============================================================================
