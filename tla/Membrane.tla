------------------------------ MODULE Membrane -----------------------------
(***************************************************************************)
(* The breaker, the survival policy, the membrane and the connections in   *)
(* one process: Carl, Acorn, the callers of the fabric and the adapters'   *)
(* answers, in any order.  Of the survival policy,                         *)
(* scripts/acorn-survival-policy.mjs, there are the hard cut, which sets   *)
(* the breaker at once and has the membrane cut its flows after an await,  *)
(* and Carl's way back; what it notes about trust and incidents is left    *)
(* out.                                                                    *)
(***************************************************************************)
EXTENDS ConnectionFabric

CONSTANTS
    InitialModes, \* what the environment holds when the process starts
    Commands,     \* the modes that commands ask for
    MaxPending    \* bound on the cuts that are on their way

ASSUME MembraneConstants ==
    /\ InitialModes \subseteq Modes \cup {"unset"}
    /\ Commands \subseteq Modes
    /\ MaxPending \in Nat

VARIABLE pendingCuts \* hard cuts that wait for the membrane to be imported

vars == <<breakerVars, fluxVars, fabricVars, pendingCuts>>

TypeOK ==
    /\ mode \in Modes \cup {"unset"}
    /\ ordered \in BOOLEAN
    /\ FluxTypeOK
    /\ FabricTypeOK
    /\ pendingCuts \in 0 .. MaxPending

Init ==
    /\ mode \in InitialModes
    /\ ordered = (mode = "OFF")
    /\ EmptyConnector
    /\ issued = 0
    /\ NoConnections
    /\ pendingCuts = 0

\* What no adapter is asked for in.
Quiet == crossing' = Silence /\ UNCHANGED <<connections, call, probing, wasHealthy>>

(***************************************************************************)
(* Carl and Acorn.                                                         *)
(***************************************************************************)
Command(actor, command) ==
    ApplyBreakerCommand(actor, command) /\ UNCHANGED <<fluxVars, pendingCuts>>

\* The cut of the flows alone, whatever the mode: it is exported.
CutFlows(source) ==
    CutExternalFlows(source) /\ UNCHANGED <<breakerVars, pendingCuts>>

RestoreFlows(actor) ==
    RestoreExternalFlows(actor) /\ UNCHANGED <<breakerVars, pendingCuts>>

\* humanRecover, and progressiveReconnect, which calls it once verified: neither
\* lifts the cut of the flows.
Recover(actor, verified) ==
    /\ verified
    /\ HumanRecover(actor)
    /\ UNCHANGED <<fluxVars, pendingCuts>>

HardCut(condition, compromised, certain) ==
    LET level == PolicyLevel(condition, compromised, certain)
    IN  /\ ApplySurvivalPolicy(level)
        /\ pendingCuts' = pendingCuts + (IF level \in Cutting THEN 1 ELSE 0)
        /\ pendingCuts' <= MaxPending
        /\ UNCHANGED fluxVars

\* The import of the membrane has resolved.
CommandConnectorCut ==
    /\ pendingCuts > 0
    /\ pendingCuts' = pendingCuts - 1
    /\ CutExternalFlows("breaker-policy")
    /\ UNCHANGED breakerVars

Control ==
    /\ \/ \E actor \in {"carl", "acorn"} :
              \/ \E command \in Commands : Command(actor, command)
              \/ RestoreFlows(actor)
              \/ \E verified \in BOOLEAN : Recover(actor, verified)
       \/ \E condition \in Conditions, compromised \in {0, 2, 3}, certain \in BOOLEAN :
              HardCut(condition, compromised, certain)
       \/ \E source \in {"carl", "breaker", "acorn"} : CutFlows(source)
       \/ CommandConnectorCut
    /\ Quiet

(***************************************************************************)
(* The fabric.                                                             *)
(***************************************************************************)
Caller(p) ==
    /\ \/ \E actor \in Actors, now \in 0 .. MaxTime, authenticated, held \in BOOLEAN :
              Connect(p, actor, now, authenticated, held)
       \/ \E answer \in Answers :
              \/ Authenticated(p, answer)
              \/ Connected(p, answer)
              \/ HealthAnswered(p, answer)
              \/ CapabilitiesAnswered(p, answer)
       \/ \E k \in DOMAIN connections :
              \/ Disconnect(p, k)
              \/ AskHealth(p, k, "health")
              \/ AskHealth(p, k, "measure")
       \/ Disconnected(p)
       \/ \E actor \in Actors, digest \in Digests, authenticated \in BOOLEAN,
             s \in {NoSession} \cup 1 .. issued, at \in 0 .. MaxTime, sort \in Sorts :
              Execute(p, Frame(actor, digest, s, at, authenticated, sort))
       \/ \E sort \in Sorts : Executed(p, sort)
    /\ UNCHANGED probing

Use ==
    /\ \/ \E k \in DOMAIN connections :
              \/ Revoke(k)
              \/ \E evidence \in BOOLEAN : VerifyConnection(k, evidence)
              \/ \E op \in {"send", "request"}, sort \in Sorts : Send(k, op, sort)
              \/ \E now \in 0 .. MaxTime, sort \in Sorts : Receive(k, now, sort)
              \/ \E op \in {"observe", "cancel"} : Ask(k, op)
       \/ \E sort \in Sorts : Release(sort)
    /\ UNCHANGED probing

Memory ==
    /\ \E s \in DOMAIN sessions : RevokeSession(s)
    /\ Quiet

Next ==
    \/ Control
    \/ /\ (\E p \in Callers : Caller(p)) \/ Use \/ Sweep \/ SweepProbed \/ Memory
       /\ UNCHANGED <<breakerVars, pendingCuts>>

Spec == Init /\ [][Next]_vars

(***************************************************************************)
(* Properties.                                                             *)
(***************************************************************************)
\* From an order to cut, by the policy or by Carl, until Carl reopens, no data
\* is sent, received, executed or released: not while the cut of the flows is
\* still on its way, not after a sweep emptied the membrane's memory, not after
\* a later, milder policy, and not for an execution that began before the cut.
\* Nor while the flows alone are cut, whatever the mode, until Carl restores
\* them or a sweep empties the membrane's memory.
DataStopsAtTheCut == crossing.cut => crossing.via \notin DataOps

\* What is revoked or disconnected carries no data and is not asked for its
\* health again, whatever a call that waited writes over its state; it may be
\* asked for its capabilities, by a measure that had begun, and to disconnect.
RevokedIsSilent ==
    crossing.revoked => crossing.via \in {"capabilities", "disconnect"}

\* MEASURE_BEFORE_PROMOTION: a verified connection was found healthy by its
\* adapter, however health, measures and verifications overlap.
MeasureBeforePromotion ==
    \A k \in DOMAIN connections : connections[k].verified => k \in wasHealthy

\* Between two sweeps a frame with a nonce is admitted once, through whichever
\* session it comes and whatever time it tells.
AdmittedOnce ==
    \A i, j \in DOMAIN inspected :
        /\ inspected[i].admitted /\ inspected[j].admitted
        /\ inspected[i].digest = inspected[j].digest
        /\ inspected[i].digest # NoDigest
        => i = j

\* The frames of the actor of frame n that no later of its frames, up to n, left
\* a window behind.
StillCounted(n) ==
    {i \in 1 .. n :
        /\ inspected[i].actor = inspected[n].actor
        /\ \A j \in i + 1 .. n : inspected[j].actor = inspected[n].actor
                => inspected[j].at - inspected[i].at < RateWindow}

\* Between two sweeps, when a frame is admitted, the frames of its actor since
\* the last that was dated a window after them are at most RateLimit, where
\* connecting, receiving and executing count together, and so do the frames
\* that were refused.  A frame dated later, even one that is refused, has the
\* earlier ones forgotten: the times are the callers'.
WithinTheRate ==
    \A n \in DOMAIN inspected :
        inspected[n].admitted => Cardinality(StillCounted(n)) <= RateLimit

\* What the membrane admits between two sweeps is neither a replay nor a flood.
AdmissionHolds == AdmittedOnce /\ WithinTheRate

\* RATE_LIMIT frames of an actor in any RATE_WINDOW_MS, by the times they tell.
\* Not kept by the code: one frame dated later empties the bucket, and frames
\* dated before it are then admitted again.
NoFloodByTheTimesTold ==
    \A i \in DOMAIN inspected :
        Cardinality({j \in DOMAIN inspected :
            /\ inspected[j].admitted
            /\ inspected[j].actor = inspected[i].actor
            /\ inspected[j].at \in inspected[i].at .. inspected[i].at + RateWindow - 1})
        <= RateLimit

\* CARL_ONLY: a cut of the flows is lifted by Carl alone.
\* Not kept by the code: a sweep begins by emptying the membrane's memory, the
\* cut with it, and in mode RUN data then crosses.
OnlyCarlRestores == [][externalCut /\ ~externalCut' => RestoreFlows("carl")]_vars

\* "OFF = total fail-closed cut-off": nothing at all is asked of the world while
\* a cut stands.
\* Not kept by the code: adapters are still asked for health, capabilities
\* and authentication.
OffIsTotal == ~crossing.cut
=============================================================================
