--------------------------- MODULE ConnectorFlux ---------------------------
(***************************************************************************)
(* The membrane, scripts/acorn-connector-flux.mjs: what it remembers of    *)
(* frames and sessions, what it admits and what it releases.               *)
(*                                                                         *)
(* A frame is its actor, the digest its nonce and payload give (none when  *)
(* it has neither nonce nor request id), the session it cites, the time it *)
(* is dated and the sort its content makes it.  The date is the caller's:  *)
(* `at`, or the clock when he gives none.                                  *)
(***************************************************************************)
EXTENDS SystemBreaker, Sequences, FiniteSets, FiniteSetsExt

CONSTANTS
    Actors, Digests, NoDigest,
    TrustMax,    \* TRUST_MAX_MS
    RateWindow,  \* RATE_WINDOW_MS
    RateLimit,   \* RATE_LIMIT
    MaxSessions, \* bound on the sessions ever opened
    MaxFrames,   \* bound on the frames inspected in one life of the memory
    MaxTime      \* bound on the times told

ASSUME FluxConstants ==
    /\ NoDigest \notin Digests
    /\ {TrustMax, RateWindow, RateLimit, MaxSessions, MaxFrames, MaxTime} \subseteq Nat
    /\ RateWindow > 0

VARIABLES
    sessions,    \* session id -> its record
    issued,      \* how many session ids were ever given
    seenDigests, \* the digests seen
    rateWindow,  \* actor -> its bucket: the frames counted, by their place in
                 \* inspected, which has their times
    externalCut, \* external flows are cut
    inspected    \* history: the frames inspected since the memory was emptied

fluxVars == <<sessions, issued, seenDigests, rateWindow, externalCut, inspected>>

FluxTypeOK ==
    /\ DOMAIN sessions \subseteq 1 .. issued
    /\ \A s \in DOMAIN sessions :
           sessions[s] \in [expiresAt : Nat, revoked : BOOLEAN]
    /\ issued \in 0 .. MaxSessions
    /\ seenDigests \subseteq Digests
    /\ rateWindow \in [Actors -> SUBSET DOMAIN inspected]
    /\ externalCut \in BOOLEAN
    /\ inspected \in Seq([actor : Actors, digest : Digests \cup {NoDigest},
                          at : 0 .. MaxTime, admitted : BOOLEAN])

NoSession == 0
\* What the content of a frame makes of it: it asks to bypass the membrane, or it
\* fails a check, is a threat or is of no known kind, or none of these.
Sorts == {"bypass", "flagged", "clean"}
Frame(actor, digest, session, at, authenticated, sort) ==
    [actor |-> actor, digest |-> digest, session |-> session, at |-> at,
     authenticated |-> authenticated, sort |-> sort]

EmptyConnector ==
    /\ sessions = << >>
    /\ seenDigests = {}
    /\ rateWindow = [a \in Actors |-> {}]
    /\ externalCut = FALSE
    /\ inspected = << >>

ResetConnector ==
    /\ sessions' = << >>
    /\ seenDigests' = {}
    /\ rateWindow' = [a \in Actors |-> {}]
    /\ externalCut' = FALSE
    /\ inspected' = << >>
    /\ UNCHANGED issued

(***************************************************************************)
(* Sessions.                                                               *)
(***************************************************************************)
LookupSession(s, now) ==
    CASE s \notin DOMAIN sessions    -> "UNKNOWN"
      [] sessions[s].revoked         -> "REVOKED"
      [] now > sessions[s].expiresAt -> "EXPIRED"
      [] OTHER                       -> "AUTHENTICATED"

RevokeSession(s) ==
    /\ s \in DOMAIN sessions
    /\ sessions' = [sessions EXCEPT ![s].revoked = TRUE]
    /\ UNCHANGED <<issued, seenDigests, rateWindow, externalCut, inspected>>

(***************************************************************************)
(* Ingress.                                                                *)
(***************************************************************************)
\* A mistake would leave the mode to the cut of the flows, which comes later.
ClosedByCut == externalCut
Closed == externalCut \/ mode = "OFF"

\* What takeRate keeps of the bucket for a frame of this time: the frames dated
\* less than a window before it, and all those dated after it.
Recent(actor, now) ==
    {i \in rateWindow[actor] : now - inspected[i].at < RateWindow}

\* A mistake would count the window from before the frame.
TooFastBefore(frame) == Cardinality(Recent(frame.actor, frame.at)) > RateLimit
TooFast(frame) == Cardinality(Recent(frame.actor, frame.at)) + 1 > RateLimit

\* A mistake would look for a digest only where no session vouches for the frame.
ReplayedUnvouched(frame) == frame.digest \in seenDigests /\ ~frame.authenticated
Replayed(frame) == frame.digest \in seenDigests

\* A frame that is inspected is counted and remembered, whatever comes of it.
Inspected(frame) == ~Closed /\ frame.sort # "bypass"

Admits(frame) ==
    /\ Inspected(frame)
    /\ frame.sort = "clean"
    /\ ~TooFast(frame)
    /\ ~Replayed(frame)
    /\ LookupSession(frame.session, frame.at) \notin {"EXPIRED", "REVOKED"}

\* An authenticated frame that cites no session is given one.
OpensSession(frame) == frame.authenticated /\ frame.session = NoSession

OpenSession(frame) ==
    IF OpensSession(frame)
    THEN /\ issued < MaxSessions
         /\ issued' = issued + 1
         /\ sessions' = [s \in DOMAIN sessions \cup {issued'} |->
                            IF s = issued'
                            THEN [expiresAt |-> frame.at + TrustMax, revoked |-> FALSE]
                            ELSE sessions[s]]
    ELSE UNCHANGED <<issued, sessions>>

SessionGiven(frame) ==
    CASE OpensSession(frame)              -> issued + 1
      [] frame.session \in DOMAIN sessions -> frame.session
      [] OTHER                            -> NoSession

\* The frame is the next that is inspected.
Trace(frame) ==
    LET n == Len(inspected) + 1
    IN  /\ n <= MaxFrames
        /\ inspected' = Append(inspected, [actor |-> frame.actor, digest |-> frame.digest,
                                          at |-> frame.at, admitted |-> Admits(frame)])
        /\ rateWindow' = [rateWindow EXCEPT
               ![frame.actor] = Recent(frame.actor, frame.at) \cup {n}]
        /\ seenDigests' = seenDigests \cup ({frame.digest} \ {NoDigest})

AdmitIngress(frame) ==
    /\ IF Inspected(frame)
       THEN Trace(frame)
       ELSE UNCHANGED <<inspected, rateWindow, seenDigests>>
    /\ IF Admits(frame) THEN OpenSession(frame) ELSE UNCHANGED <<issued, sessions>>
    /\ UNCHANGED externalCut

(***************************************************************************)
(* Egress, and the cut of the flows.                                       *)
(***************************************************************************)
Releases(sort) == ~Closed /\ sort = "clean"

CutExternalFlows(source) ==
    /\ externalCut' = (externalCut \/ source \in {"breaker", "breaker-policy", "carl"})
    /\ UNCHANGED <<sessions, issued, seenDigests, rateWindow, inspected>>

RestoreExternalFlows(actor) ==
    /\ externalCut' = (externalCut /\ actor # "carl")
    /\ UNCHANGED <<sessions, issued, seenDigests, rateWindow, inspected>>
=============================================================================
