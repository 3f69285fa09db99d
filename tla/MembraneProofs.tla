--------------------------- MODULE MembraneProofs --------------------------
(***************************************************************************)
(* Proofs about Membrane, for any callers, actors, digests, conditions and *)
(* bounds.                                                                 *)
(*                                                                         *)
(* That data stops at a cut follows from one fact about the breaker, that  *)
(* a cut that was ordered holds the mode at OFF, because every datum asks  *)
(* the mode and the cut of the flows in the step in which it crosses.      *)
(* That what is revoked is silent needs that no connection has the number  *)
(* 0, which stands for none.  That a measure precedes a promotion is an    *)
(* invariant of its own, and so is that the membrane admits neither a      *)
(* replay nor a flood, which says what the bucket of an actor holds in     *)
(* terms of everything the actor ever sent.                                *)
(***************************************************************************)
EXTENDS Membrane, FiniteSetTheorems, SequenceTheorems, TLAPS

CutHolds == ordered => mode = "OFF"
Numbered == 0 \notin DOMAIN connections
CrossingInv ==
    /\ CutHolds
    /\ Numbered
    /\ DataStopsAtTheCut
    /\ RevokedIsSilent

\* A step that only Carl or Acorn makes, or that revokes a session.
LEMMA QuietStep ==
    ASSUME Quiet, Numbered
    PROVE  Numbered' /\ DataStopsAtTheCut' /\ RevokedIsSilent'
BY DEF Quiet, Silence, Numbered, DataStopsAtTheCut, RevokedIsSilent

\* A step that crosses nowhere, whatever it does to the connections.
LEMMA SilentStep ==
    ASSUME crossing' = Silence
    PROVE  DataStopsAtTheCut' /\ RevokedIsSilent'
BY DEF Silence, DataStopsAtTheCut, RevokedIsSilent

\* What crosses without data, and on no revoked connection.
LEMMA ControlCrossing ==
    ASSUME NEW via, NEW k, Cross(via, k), via \notin DataOps,
           k \in DOMAIN connections =>
               ~connections[k].revoked \/ via \in {"capabilities", "disconnect"}
    PROVE  DataStopsAtTheCut' /\ RevokedIsSilent'
BY DEF Cross, Silence, DataStopsAtTheCut, RevokedIsSilent

\* What crosses while the membrane is open.
LEMMA DataCrossing ==
    ASSUME NEW via, NEW k, Cross(via, k), CutHolds, mode # "OFF", ~externalCut,
           k \in DOMAIN connections => ~connections[k].revoked
    PROVE  DataStopsAtTheCut' /\ RevokedIsSilent'
BY DEF Cross, Silence, CutHolds, DataStopsAtTheCut, RevokedIsSilent

LEMMA OpenOnly ==
    /\ \A frame : Admits(frame) => mode # "OFF" /\ ~externalCut
    /\ \A sort : Releases(sort) => mode # "OFF" /\ ~externalCut
BY DEF Admits, Inspected, Releases, Closed

LEMMA ControlHolds ==
    ASSUME Control, CutHolds
    PROVE  CutHolds'
<1>1. ASSUME NEW actor, NEW command, Command(actor, command)
      PROVE  CutHolds'
  BY <1>1, CutHolds DEF Command, ApplyBreakerCommand, CutHolds, breakerVars
<1>2. ASSUME NEW actor, RestoreFlows(actor)
      PROVE  CutHolds'
  BY <1>2, CutHolds DEF RestoreFlows, CutHolds, breakerVars
<1>3. ASSUME NEW actor, NEW verified, Recover(actor, verified)
      PROVE  CutHolds'
  BY <1>3, CutHolds DEF Recover, HumanRecover, CutHolds, breakerVars
<1>4. ASSUME NEW condition, NEW compromised, NEW certain,
             HardCut(condition, compromised, certain)
      PROVE  CutHolds'
  <2> DEFINE policy == PolicyLevel(condition, compromised, certain)
  <2>1. ApplySurvivalPolicy(policy)
    BY <1>4 DEF HardCut
  <2> HIDE DEF policy
  <2> QED
    BY <2>1, CutHolds DEF ApplySurvivalPolicy, ModeUnder, CutHolds
<1>5. CASE CommandConnectorCut
  BY <1>5, CutHolds DEF CommandConnectorCut, CutHolds, breakerVars
<1>6. ASSUME NEW source, CutFlows(source)
      PROVE  CutHolds'
  BY <1>6, CutHolds DEF CutFlows, CutHolds, breakerVars
<1> QED
  BY <1>1, <1>2, <1>3, <1>4, <1>5, <1>6, Control DEF Control

LEMMA CallerHolds ==
    ASSUME NEW p, Caller(p), CrossingInv, UNCHANGED breakerVars
    PROVE  Numbered' /\ DataStopsAtTheCut' /\ RevokedIsSilent'
<1> USE DEF CrossingInv
<1>1. ASSUME NEW actor, NEW now, NEW authenticated, NEW held,
             Connect(p, actor, now, authenticated, held)
      PROVE  Numbered' /\ DataStopsAtTheCut' /\ RevokedIsSilent'
  <2>1. Numbered'
    BY <1>1 DEF Connect, Numbered
  <2>2. CASE crossing' = Silence
    BY <2>1, <2>2, SilentStep
  <2>3. CASE \E op \in {"connect", "authenticate"} : Cross(op, 0)
    BY <2>1, <2>3, ControlCrossing DEF Numbered, DataOps
  <2> QED
    BY <1>1, <2>2, <2>3 DEF Connect
<1>2. ASSUME NEW answer, Authenticated(p, answer)
      PROVE  Numbered' /\ DataStopsAtTheCut' /\ RevokedIsSilent'
  <2>1. Numbered'
    BY <1>2 DEF Authenticated, Numbered
  <2>2. CASE crossing' = Silence
    BY <2>1, <2>2, SilentStep
  <2>3. CASE Cross("connect", 0)
    BY <2>1, <2>3, ControlCrossing DEF Numbered, DataOps
  <2> QED
    BY <1>2, <2>2, <2>3 DEF Authenticated
<1>3. ASSUME NEW answer, Connected(p, answer)
      PROVE  Numbered' /\ DataStopsAtTheCut' /\ RevokedIsSilent'
  <2> DEFINE k == Cardinality(DOMAIN connections) + 1
  <2>1. \/ UNCHANGED connections
        \/ k \in 1 .. MaxConnections /\ DOMAIN connections' = 1 .. k
    BY <1>3 DEF Connected
  <2> HIDE DEF k
  <2>2. Numbered'
    BY <2>1, FabricConstants DEF Numbered
  <2> QED
    BY <1>3, <2>2, SilentStep DEF Connected
<1>4. ASSUME NEW answer, HealthAnswered(p, answer)
      PROVE  Numbered' /\ DataStopsAtTheCut' /\ RevokedIsSilent'
  <2>1. Numbered'
    BY <1>4 DEF HealthAnswered, Numbered
  <2>2. CASE crossing' = Silence
    BY <2>1, <2>2, SilentStep
  <2>3. CASE Cross("capabilities", call[p].on)
    BY <2>1, <2>3, ControlCrossing DEF DataOps
  <2> QED
    BY <1>4, <2>2, <2>3 DEF HealthAnswered
<1>5. ASSUME NEW answer, CapabilitiesAnswered(p, answer)
      PROVE  Numbered' /\ DataStopsAtTheCut' /\ RevokedIsSilent'
  BY <1>5, SilentStep DEF CapabilitiesAnswered, Numbered
<1>6. ASSUME NEW k \in DOMAIN connections, Disconnect(p, k)
      PROVE  Numbered' /\ DataStopsAtTheCut' /\ RevokedIsSilent'
  <2>1. Numbered' /\ Cross("disconnect", k)
    BY <1>6 DEF Disconnect, Numbered
  <2> QED
    BY <2>1, ControlCrossing DEF DataOps
<1>7. ASSUME NEW k \in DOMAIN connections, NEW op, AskHealth(p, k, op)
      PROVE  Numbered' /\ DataStopsAtTheCut' /\ RevokedIsSilent'
  <2>1. Numbered' /\ Cross("health", k) /\ ~connections[k].revoked
    BY <1>7 DEF AskHealth, Usable, Numbered
  <2> QED
    BY <2>1, ControlCrossing DEF DataOps
<1>8. CASE Disconnected(p)
  BY <1>8, SilentStep DEF Disconnected, Numbered
<1>9. ASSUME NEW frame, Execute(p, frame)
      PROVE  Numbered' /\ DataStopsAtTheCut' /\ RevokedIsSilent'
  <2>1. Numbered'
    BY <1>9 DEF Execute, Numbered
  <2>2. CASE Admits(frame)
    <3>1. Cross("execute", 0) /\ mode # "OFF" /\ ~externalCut
      BY <1>9, <2>2, OpenOnly DEF Execute
    <3> QED
      BY <2>1, <3>1, DataCrossing DEF Numbered
  <2>3. CASE ~Admits(frame)
    BY <1>9, <2>1, <2>3, SilentStep DEF Execute
  <2> QED
    BY <2>2, <2>3
<1>10. ASSUME NEW sort, Executed(p, sort)
       PROVE  Numbered' /\ DataStopsAtTheCut' /\ RevokedIsSilent'
  <2>1. Numbered'
    BY <1>10 DEF Executed, Numbered
  <2>2. CASE Releases(sort)
    <3>1. Cross("release", 0) /\ mode # "OFF" /\ ~externalCut
      BY <1>10, <2>2, OpenOnly DEF Executed
    <3> QED
      BY <2>1, <3>1, DataCrossing DEF Numbered
  <2>3. CASE ~Releases(sort)
    BY <1>10, <2>1, <2>3, SilentStep DEF Executed
  <2> QED
    BY <2>2, <2>3
<1> QED
  BY <1>1, <1>2, <1>3, <1>4, <1>5, <1>6, <1>7, <1>8, <1>9, <1>10, Caller(p) DEF Caller

LEMMA UseHolds ==
    ASSUME Use, CrossingInv
    PROVE  Numbered' /\ DataStopsAtTheCut' /\ RevokedIsSilent'
<1> USE DEF CrossingInv
<1>1. ASSUME NEW k, Revoke(k)
      PROVE  Numbered' /\ DataStopsAtTheCut' /\ RevokedIsSilent'
  BY <1>1, SilentStep DEF Revoke, Numbered
<1>2. ASSUME NEW k, NEW evidence, VerifyConnection(k, evidence)
      PROVE  Numbered' /\ DataStopsAtTheCut' /\ RevokedIsSilent'
  BY <1>2, SilentStep DEF VerifyConnection, Numbered
<1>3. ASSUME NEW k, NEW op, NEW sort, Send(k, op, sort)
      PROVE  Numbered' /\ DataStopsAtTheCut' /\ RevokedIsSilent'
  <2>1. Numbered' /\ ~connections[k].revoked
    BY <1>3 DEF Send, Usable, Numbered
  <2>2. CASE Releases(sort)
    <3>1. Cross(op, k) /\ mode # "OFF" /\ ~externalCut
      BY <1>3, <2>2, OpenOnly DEF Send
    <3> QED
      BY <2>1, <3>1, DataCrossing
  <2>3. CASE ~Releases(sort)
    BY <1>3, <2>1, <2>3, SilentStep DEF Send
  <2> QED
    BY <2>2, <2>3
<1>4. ASSUME NEW k, NEW now, NEW sort, Receive(k, now, sort)
      PROVE  Numbered' /\ DataStopsAtTheCut' /\ RevokedIsSilent'
  <2> DEFINE frame == Frame(connections[k].actor, NoDigest, connections[k].session, now,
                            connections[k].authenticated, sort)
  <2>1. /\ Numbered' /\ ~connections[k].revoked
        /\ IF Admits(frame) THEN Cross("receive", k) ELSE crossing' = Silence
    BY <1>4 DEF Receive, Usable, Numbered
  <2> HIDE DEF frame
  <2>2. CASE Admits(frame)
    <3>1. Cross("receive", k) /\ mode # "OFF" /\ ~externalCut
      BY <2>1, <2>2, OpenOnly
    <3> QED
      BY <2>1, <3>1, DataCrossing
  <2>3. CASE ~Admits(frame)
    BY <2>1, <2>3, SilentStep
  <2> QED
    BY <2>2, <2>3
<1>5. ASSUME NEW k, NEW op, Ask(k, op)
      PROVE  Numbered' /\ DataStopsAtTheCut' /\ RevokedIsSilent'
  <2>1. /\ Numbered' /\ Cross(op, k) /\ ~connections[k].revoked
        /\ op \notin DataOps
    BY <1>5 DEF Ask, Usable, Numbered, DataOps
  <2> QED
    BY <2>1, ControlCrossing
<1>6. ASSUME NEW sort, Release(sort)
      PROVE  Numbered' /\ DataStopsAtTheCut' /\ RevokedIsSilent'
  <2>1. Numbered'
    BY <1>6 DEF Release, Numbered
  <2>2. CASE Releases(sort)
    <3>1. Cross("release", 0) /\ mode # "OFF" /\ ~externalCut
      BY <1>6, <2>2, OpenOnly DEF Release
    <3> QED
      BY <2>1, <3>1, DataCrossing DEF Numbered
  <2>3. CASE ~Releases(sort)
    BY <1>6, <2>1, <2>3, SilentStep DEF Release
  <2> QED
    BY <2>2, <2>3
<1> QED
  BY <1>1, <1>2, <1>3, <1>4, <1>5, <1>6, Use DEF Use

LEMMA SweepHolds ==
    ASSUME Sweep \/ SweepProbed, CrossingInv
    PROVE  Numbered' /\ DataStopsAtTheCut' /\ RevokedIsSilent'
<1>1. /\ Numbered'
      /\ Cross("capabilities", 0) \/ Cross("authenticate", 0)
  BY DEF Sweep, SweepProbed, CrossingInv, Numbered
<1> QED
  BY <1>1, ControlCrossing DEF CrossingInv, Numbered, DataOps

\* A cut holds the mode, data stop at it, and what is revoked is silent, in the
\* initial states and after every step.
LEMMA CrossingInvHolds == Spec => []CrossingInv
<1>1. Init => CrossingInv
  <2> SUFFICES ASSUME Init
               PROVE  CrossingInv
    OBVIOUS
  <2>1. CutHolds
    BY Zenon DEF Init, CutHolds
  <2>2. Numbered
    BY DEF Init, NoConnections, Numbered
  <2>3. DataStopsAtTheCut /\ RevokedIsSilent
    BY DEF Init, NoConnections, Silence, DataStopsAtTheCut, RevokedIsSilent
  <2> QED
    BY <2>1, <2>2, <2>3 DEF CrossingInv
<1>2. CrossingInv /\ [Next]_vars => CrossingInv'
  <2> SUFFICES ASSUME CrossingInv, [Next]_vars
               PROVE  CrossingInv'
    OBVIOUS
  <2>1. CASE Control
    BY <2>1, ControlHolds, QuietStep DEF Control, CrossingInv
  <2>2. ASSUME NEW p, Caller(p), UNCHANGED breakerVars
        PROVE  CrossingInv'
    BY <2>2, CallerHolds DEF CrossingInv, CutHolds, breakerVars
  <2>3. CASE Use /\ UNCHANGED breakerVars
    BY <2>3, UseHolds DEF CrossingInv, CutHolds, breakerVars
  <2>4. CASE (Sweep \/ SweepProbed) /\ UNCHANGED breakerVars
    BY <2>4, SweepHolds DEF CrossingInv, CutHolds, breakerVars
  <2>5. CASE Memory /\ UNCHANGED breakerVars
    BY <2>5, QuietStep DEF Memory, CrossingInv, CutHolds, breakerVars
  <2>6. CASE UNCHANGED vars
    BY <2>6 DEF vars, breakerVars, fabricVars, CrossingInv, CutHolds, Numbered,
                DataStopsAtTheCut, RevokedIsSilent
  <2> QED
    BY <2>1, <2>2, <2>3, <2>4, <2>5, <2>6 DEF Next
<1> QED
  BY <1>1, <1>2, PTL DEF Spec

\* From an order to cut until Carl reopens no data cross the membrane
\* (throughMembrane, send, request, receive), whatever sweeps, milder policies and
\* late cuts come between.
THEOREM CutStopsData == Spec => []DataStopsAtTheCut
BY CrossingInvHolds, PTL DEF CrossingInv

\* A revoked or disconnected connection carries no data and no health question,
\* whatever the answers that were awaited write over its state.
THEOREM RevocationIsFinal == Spec => []RevokedIsSilent
BY CrossingInvHolds, PTL DEF CrossingInv

-----------------------------------------------------------------------------
(* Promotion.  A connection was found healthy once it is measured, and     *)
(* before that already while a measure that will succeed waits for the     *)
(* capabilities.  Connections are numbered without gaps, so that a new one *)
(* takes nobody's number.                                                  *)

Gapless == \E n \in Nat : DOMAIN connections = 1 .. n

Fields == {"state", "revoked", "measured", "verified"}

Earned(k) ==
    /\ Fields \subseteq DOMAIN connections[k]
    /\ connections[k].measured => k \in wasHealthy
    /\ connections[k].verified => k \in wasHealthy

Promising(p) == call[p].op = "capabilities" /\ call[p].ok => call[p].on \in wasHealthy

PromotionInv ==
    /\ DOMAIN call = Callers
    /\ Gapless
    /\ \A k \in DOMAIN connections : Earned(k)
    /\ \A p \in Callers : Promising(p)

\* A step that leaves the connections and what a caller has learnt alone.
LEMMA PromotionKept ==
    ASSUME PromotionInv, UNCHANGED <<connections, wasHealthy>>,
           \/ UNCHANGED call
           \/ \E p \in Callers : \E c : call' = [call EXCEPT ![p] = c] /\ c.op # "capabilities"
    PROVE  PromotionInv'
<1>1. CASE UNCHANGED call
  BY <1>1 DEF PromotionInv, Gapless, Earned, Promising
<1>2. ASSUME NEW p \in Callers, NEW c, call' = [call EXCEPT ![p] = c], c.op # "capabilities"
      PROVE  PromotionInv'
  BY <1>2 DEF PromotionInv, Gapless, Earned, Promising
<1> QED BY <1>1, <1>2

LEMMA IdleAsksNothing == Idle.op # "capabilities"
BY DEF Idle

\* Waiting on a connection, or to make one, for anything but capabilities.
LEMMA WaitsKept ==
    ASSUME PromotionInv, UNCHANGED <<connections, wasHealthy>>, NEW p \in Callers, NEW op,
           op # "capabilities",
           \/ \E k, ok : Waits(p, op, k, ok)
           \/ \E actor, session, ok : WaitsToConnect(p, op, actor, session, ok)
    PROVE  PromotionInv'
<1>1. ASSUME NEW k, NEW ok, Waits(p, op, k, ok) PROVE PromotionInv'
  <2> DEFINE c == [Idle EXCEPT !.op = op, !.on = k, !.ok = ok]
  <2>1. call' = [call EXCEPT ![p] = c] /\ c.op # "capabilities"
    BY <1>1 DEF Waits, Idle
  <2> HIDE DEF c
  <2> QED BY <2>1, PromotionKept
<1>2. ASSUME NEW actor, NEW session, NEW ok, WaitsToConnect(p, op, actor, session, ok)
      PROVE  PromotionInv'
  <2> DEFINE c == [op |-> op, on |-> 0, actor |-> actor, session |-> session, ok |-> ok]
  <2>1. call' = [call EXCEPT ![p] = c] /\ c.op # "capabilities"
    BY <1>2 DEF WaitsToConnect
  <2> HIDE DEF c
  <2> QED BY <2>1, PromotionKept
<1> QED BY <1>1, <1>2

\* A step that writes the fields of one connection.
LEMMA RowWritten ==
    ASSUME PromotionInv, NEW k, NEW row,
           connections' = [connections EXCEPT ![k] = row],
           wasHealthy \subseteq wasHealthy',
           k \in DOMAIN connections =>
               /\ Fields \subseteq DOMAIN row
               /\ row.measured => k \in wasHealthy'
               /\ row.verified => k \in wasHealthy'
    PROVE  Gapless' /\ \A i \in DOMAIN connections' : Earned(i)'
<1>1. DOMAIN connections' = DOMAIN connections
  OBVIOUS
<1>2. ASSUME NEW i \in DOMAIN connections PROVE Earned(i)'
  <2>1. CASE i = k
    BY <2>1 DEF Earned
  <2>2. CASE i # k
    BY <2>2 DEF Earned, PromotionInv
  <2> QED BY <2>1, <2>2
<1> QED BY <1>1, <1>2 DEF PromotionInv, Gapless

LEMMA ConnectedPromotes ==
    ASSUME PromotionInv, NEW p \in Callers, NEW answer, Connected(p, answer)
    PROVE  PromotionInv'
<1>1. call' = [call EXCEPT ![p] = Idle] /\ UNCHANGED wasHealthy
  BY DEF Connected, Returns
<1>2. CASE UNCHANGED connections
  BY <1>1, <1>2, PromotionKept, IdleAsksNothing
<1>3. CASE ~ UNCHANGED connections
  <2> DEFINE k == Cardinality(DOMAIN connections) + 1
             made == Made(call[p].actor, call[p].session, call[p].ok)
  <2>1. connections' = [i \in 1 .. k |-> IF i = k THEN made ELSE connections[i]]
    BY <1>3 DEF Connected
  <2>2. PICK n \in Nat : DOMAIN connections = 1 .. n
    BY DEF PromotionInv, Gapless
  <2>3. k = n + 1
    <3>1. Cardinality(1 .. n) = n
      BY FS_Interval
    <3> QED BY <2>2, <3>1
  <2>4. Fields \subseteq DOMAIN made /\ ~made.measured /\ ~made.verified
    BY DEF Fields, Made
  <2> HIDE DEF k, made
  <2>5. ASSUME NEW i \in 1 .. n + 1 PROVE Earned(i)'
    <3>1. CASE i = n + 1
      BY <1>1, <2>1, <2>3, <2>4, <3>1 DEF Earned
    <3>2. CASE i \in 1 .. n
      <4>1. connections'[i] = connections[i] /\ Earned(i)
        BY <2>1, <2>2, <2>3, <3>2 DEF PromotionInv
      <4> QED BY <1>1, <4>1 DEF Earned
    <3> QED BY <3>1, <3>2
  <2>6. Gapless'
    BY <2>1, <2>3 DEF Gapless
  <2>7. DOMAIN call' = Callers /\ \A q \in Callers : Promising(q)'
    BY <1>1, IdleAsksNothing DEF PromotionInv, Promising
  <2> QED BY <2>1, <2>3, <2>5, <2>6, <2>7 DEF PromotionInv
<1> QED BY <1>2, <1>3

LEMMA DisconnectedPromotes ==
    ASSUME PromotionInv, NEW p \in Callers, Disconnected(p)
    PROVE  PromotionInv'
<1> DEFINE k == call[p].on
           row == [connections[k] EXCEPT !.state = "DISCONNECTED", !.revoked = TRUE]
<1>1. /\ connections' = [connections EXCEPT ![k].state = "DISCONNECTED", ![k].revoked = TRUE]
      /\ call' = [call EXCEPT ![p] = Idle] /\ UNCHANGED wasHealthy
  BY DEF Disconnected, Returns
<1>2. connections' = [connections EXCEPT ![k] = row]
  BY <1>1
<1>3. k \in DOMAIN connections =>
        /\ Fields \subseteq DOMAIN row
        /\ row.measured => k \in wasHealthy
        /\ row.verified => k \in wasHealthy
  BY DEF PromotionInv, Earned, Fields
<1> HIDE DEF row, k
<1>4. Gapless' /\ \A i \in DOMAIN connections' : Earned(i)'
  BY <1>1, <1>2, <1>3, RowWritten
<1>5. DOMAIN call' = Callers /\ \A q \in Callers : Promising(q)'
  BY <1>1, IdleAsksNothing DEF PromotionInv, Promising
<1> QED BY <1>4, <1>5 DEF PromotionInv

LEMMA RevokePromotes ==
    ASSUME PromotionInv, NEW k \in DOMAIN connections, Revoke(k)
    PROVE  PromotionInv'
<1> DEFINE row == [connections[k] EXCEPT !.state = "REVOKED", !.revoked = TRUE]
<1>1. connections' = [connections EXCEPT ![k] = row] /\ UNCHANGED <<call, wasHealthy>>
  BY DEF Revoke
<1>2. /\ Fields \subseteq DOMAIN row
      /\ row.measured => k \in wasHealthy
      /\ row.verified => k \in wasHealthy
  BY DEF PromotionInv, Earned, Fields
<1> HIDE DEF row
<1>3. Gapless' /\ \A i \in DOMAIN connections' : Earned(i)'
  BY <1>1, <1>2, RowWritten
<1> QED BY <1>1, <1>3 DEF PromotionInv, Promising

LEMMA HealthPromotes ==
    ASSUME PromotionInv, NEW p \in Callers, NEW answer, HealthAnswered(p, answer)
    PROVE  PromotionInv'
<1> DEFINE k == call[p].on
           row == [connections[k] EXCEPT !.state = StateAfter(answer)]
<1>1. /\ connections' = [connections EXCEPT ![k].state = StateAfter(answer)]
      /\ wasHealthy' = wasHealthy \cup (IF answer = "HEALTHY" THEN {k} ELSE {})
      /\ \/ call' = [call EXCEPT ![p] = Idle]
         \/ call' = [call EXCEPT ![p] = [Idle EXCEPT !.op = "capabilities", !.on = k,
                                                     !.ok = (answer = "HEALTHY")]]
  BY DEF HealthAnswered, Returns, Waits
<1>2. connections' = [connections EXCEPT ![k] = row]
  BY <1>1
<1>3. k \in DOMAIN connections =>
        /\ Fields \subseteq DOMAIN row
        /\ row.measured => k \in wasHealthy
        /\ row.verified => k \in wasHealthy
  BY DEF PromotionInv, Earned, Fields
<1>4. DOMAIN call' = Callers /\ \A q \in Callers : Promising(q)'
  <2>1. CASE call' = [call EXCEPT ![p] = Idle]
    BY <1>1, <2>1, IdleAsksNothing DEF PromotionInv, Promising
  <2>2. CASE call' = [call EXCEPT ![p] = [Idle EXCEPT !.op = "capabilities", !.on = k,
                                                     !.ok = (answer = "HEALTHY")]]
    <3>1. /\ call'[p].on = k
          /\ call'[p].ok => answer = "HEALTHY"
      BY <2>2 DEF PromotionInv, Idle
    <3>2. Promising(p)'
      BY <1>1, <3>1 DEF Promising
    <3>3. ASSUME NEW q \in Callers, q # p PROVE Promising(q)'
      <4>1. call'[q] = call[q] /\ Promising(q)
        BY <2>2, <3>3 DEF PromotionInv
      <4> QED BY <1>1, <4>1 DEF Promising
    <3> QED BY <2>2, <3>2, <3>3 DEF PromotionInv
  <2> QED BY <1>1, <2>1, <2>2
<1> HIDE DEF row, k
<1>5. Gapless' /\ \A i \in DOMAIN connections' : Earned(i)'
  BY <1>1, <1>2, <1>3, RowWritten
<1> QED BY <1>4, <1>5 DEF PromotionInv

LEMMA CapabilitiesPromote ==
    ASSUME PromotionInv, NEW p \in Callers, NEW answer, CapabilitiesAnswered(p, answer)
    PROVE  PromotionInv'
<1> DEFINE k == call[p].on
           row == [connections[k] EXCEPT !.measured = Measured(call[p].ok, answer)]
<1>1. /\ connections' = [connections EXCEPT ![k].measured = Measured(call[p].ok, answer)]
      /\ call' = [call EXCEPT ![p] = Idle] /\ UNCHANGED wasHealthy
      /\ call[p].op = "capabilities"
  BY DEF CapabilitiesAnswered, Returns
<1>2. connections' = [connections EXCEPT ![k] = row]
  BY <1>1
<1>3. call[p].ok => k \in wasHealthy
  BY <1>1 DEF PromotionInv, Promising
<1>4. k \in DOMAIN connections =>
        /\ Fields \subseteq DOMAIN row
        /\ row.measured => k \in wasHealthy
        /\ row.verified => k \in wasHealthy
  <2> SUFFICES ASSUME k \in DOMAIN connections
               PROVE  /\ Fields \subseteq DOMAIN row
                      /\ row.measured => k \in wasHealthy
                      /\ row.verified => k \in wasHealthy
    OBVIOUS
  <2>1. Earned(k)
    BY DEF PromotionInv
  <2>2. Fields \subseteq DOMAIN row /\ row.verified = connections[k].verified
    BY <2>1 DEF Earned, Fields
  <2>3. row.measured => call[p].ok
    BY <2>1 DEF Earned, Fields, Measured
  <2> QED BY <1>3, <2>1, <2>2, <2>3 DEF Earned
<1> HIDE DEF row, k
<1>5. Gapless' /\ \A i \in DOMAIN connections' : Earned(i)'
  BY <1>1, <1>2, <1>4, RowWritten
<1>6. DOMAIN call' = Callers /\ \A q \in Callers : Promising(q)'
  BY <1>1, IdleAsksNothing DEF PromotionInv, Promising
<1> QED BY <1>5, <1>6 DEF PromotionInv

LEMMA VerifyPromotes ==
    ASSUME PromotionInv, NEW k \in DOMAIN connections, NEW evidence \in BOOLEAN,
           VerifyConnection(k, evidence)
    PROVE  PromotionInv'
<1> DEFINE row == [connections[k] EXCEPT !.verified = connections[k].measured /\ evidence]
<1>1. connections' = [connections EXCEPT ![k] = row] /\ UNCHANGED <<call, wasHealthy>>
  BY DEF VerifyConnection
<1>2. Earned(k)
  BY DEF PromotionInv
<1>3. Fields \subseteq DOMAIN row /\ row.measured = connections[k].measured
  BY <1>2 DEF Earned, Fields
<1>4. row.verified => connections[k].measured
  BY <1>2 DEF Earned, Fields
<1>5. (row.measured => k \in wasHealthy) /\ (row.verified => k \in wasHealthy)
  BY <1>2, <1>3, <1>4 DEF Earned
<1> HIDE DEF row
<1>6. Gapless' /\ \A i \in DOMAIN connections' : Earned(i)'
  BY <1>1, <1>3, <1>5, RowWritten
<1> QED BY <1>1, <1>6 DEF PromotionInv, Promising

LEMMA CallerPromotes ==
    ASSUME PromotionInv, NEW p \in Callers, Caller(p)
    PROVE  PromotionInv'
<1>1. ASSUME NEW actor, NEW now, NEW authenticated \in BOOLEAN,
             NEW held \in BOOLEAN, Connect(p, actor, now, authenticated, held)
      PROVE  PromotionInv'
  <2>1. \/ UNCHANGED call
        \/ \E op \in {"connect", "authenticate"} : \E session, ok :
              WaitsToConnect(p, op, actor, session, ok)
    BY <1>1 DEF Connect, Unanswered
  <2> QED BY <1>1, <2>1, WaitsKept, PromotionKept DEF Connect
<1>2. ASSUME NEW answer, Authenticated(p, answer)
      PROVE  PromotionInv'
  BY <1>2, WaitsKept, PromotionKept, IdleAsksNothing DEF Authenticated, Returns
<1>3. ASSUME NEW k \in DOMAIN connections, NEW op \in {"health", "measure"}, AskHealth(p, k, op)
      PROVE  PromotionInv'
  BY <1>3, WaitsKept DEF AskHealth
<1>4. ASSUME NEW k \in DOMAIN connections, Disconnect(p, k)
      PROVE  PromotionInv'
  BY <1>4, WaitsKept DEF Disconnect
<1>5. ASSUME NEW frame, Execute(p, frame)
      PROVE  PromotionInv'
  BY <1>5, WaitsKept, PromotionKept DEF Execute, Unanswered
<1>6. ASSUME NEW sort, Executed(p, sort)
      PROVE  PromotionInv'
  BY <1>6, PromotionKept, IdleAsksNothing DEF Executed, Returns
<1> QED
  BY <1>1, <1>2, <1>3, <1>4, <1>5, <1>6, ConnectedPromotes, HealthPromotes, CapabilitiesPromote,
     DisconnectedPromotes, Caller(p) DEF Caller

LEMMA PromotionNext == ASSUME PromotionInv, [Next]_vars PROVE PromotionInv'
<1>1. CASE UNCHANGED <<connections, call, wasHealthy>>
  BY <1>1, PromotionKept
<1>2. CASE Use
  BY <1>1, <1>2, RevokePromotes, VerifyPromotes DEF Use, Send, Receive, Ask, Release
<1>3. CASE \E p \in Callers : Caller(p)
  BY <1>3, CallerPromotes
<1> QED
  BY <1>1, <1>2, <1>3 DEF Next, Control, Quiet, Memory, Sweep, SweepProbed, vars, fabricVars

LEMMA PromotionInit == Init => PromotionInv
<1> SUFFICES ASSUME Init PROVE PromotionInv OBVIOUS
<1>1. connections = << >> /\ call = [p \in Callers |-> Idle]
  BY DEF Init, NoConnections
<1>2. DOMAIN connections = 1 .. 0 /\ 1 .. 0 = {}
  BY <1>1
<1> QED BY <1>1, <1>2, IdleAsksNothing DEF PromotionInv, Gapless, Promising

\* MEASURE_BEFORE_PROMOTION: a connection is verified only after its adapter answered
\* healthy, however health, measures and verifications of it overlap.
THEOREM MeasuredFirst == Spec => []MeasureBeforePromotion
<1>1. PromotionInv => MeasureBeforePromotion
  BY DEF PromotionInv, Earned, MeasureBeforePromotion
<1> QED BY <1>1, PromotionInit, PromotionNext, PTL DEF Spec

-----------------------------------------------------------------------------
(* Types.  A call that waits for a health answer knows its connection, and  *)
(* one that connects knows its actor, so that what a late answer writes is  *)
(* well formed.                                                             *)

Traced == [actor : Actors, digest : Digests \cup {NoDigest}, at : 0 .. MaxTime,
           admitted : BOOLEAN]

\* What a call that waits was given: the connection whose health it asked, the actor
\* it connects.
Awaited(p) ==
    /\ call[p].op \in {"health", "measure"} => call[p].on \in 1 .. MaxConnections
    /\ call[p].op \in {"authenticate", "connect"} => call[p].actor \in Actors

\* A frame of a known actor, at whatever time it tells.
Framed(frame) ==
    /\ frame.actor \in Actors
    /\ frame.digest \in Digests \cup {NoDigest}
    /\ frame.at \in 0 .. MaxTime

LEMMA FrameTypes ==
    ASSUME NEW actor \in Actors, NEW digest \in Digests \cup {NoDigest}, NEW session,
           NEW at \in 0 .. MaxTime, NEW authenticated, NEW sort
    PROVE  Framed(Frame(actor, digest, session, at, authenticated, sort))
BY DEF Framed, Frame

LEMMA AdmitsIsBoolean == ASSUME NEW frame PROVE Admits(frame) \in BOOLEAN
BY DEF Admits

\* What an inspected frame leaves in the history and in its actor's bucket.
LEMMA TraceTypes ==
    ASSUME FluxTypeOK, NEW frame, Framed(frame), Trace(frame),
           NEW n, n = Len(inspected) + 1
    PROVE  /\ inspected \in Seq(Traced) /\ inspected' \in Seq(Traced)
           /\ Len(inspected) \in Nat /\ Len(inspected') = n
           /\ DOMAIN inspected = 1 .. Len(inspected)
           /\ DOMAIN inspected' = 1 .. n
           /\ \A i \in 1 .. Len(inspected) : inspected'[i] = inspected[i]
           /\ inspected'[n] =
                  [actor |-> frame.actor, digest |-> frame.digest, at |-> frame.at,
                   admitted |-> Admits(frame)]
           /\ rateWindow' = [rateWindow EXCEPT
                  ![frame.actor] = Recent(frame.actor, frame.at) \cup {n}]
<1> DEFINE row == [actor |-> frame.actor, digest |-> frame.digest, at |-> frame.at,
                   admitted |-> Admits(frame)]
<1>1. row \in Traced
  BY AdmitsIsBoolean DEF Framed, Traced
<1>2. inspected \in Seq(Traced)
  BY DEF FluxTypeOK, Traced
<1>3. /\ inspected' = Append(inspected, row)
      /\ rateWindow' = [rateWindow EXCEPT
             ![frame.actor] = Recent(frame.actor, frame.at) \cup {n}]
  BY DEF Trace
<1> HIDE DEF row
<1>4. /\ inspected' \in Seq(Traced) /\ Len(inspected') = n
      /\ Len(inspected) \in Nat
      /\ \A i \in 1 .. Len(inspected) : inspected'[i] = inspected[i]
      /\ inspected'[n] = row
  BY <1>1, <1>2, <1>3, AppendProperties
<1>5. DOMAIN inspected = 1 .. Len(inspected) /\ DOMAIN inspected' = 1 .. n
  BY <1>2, <1>4
<1> QED BY <1>2, <1>3, <1>4, <1>5 DEF row

\* A frame that is inspected leaves a trace of the right type.
LEMMA FluxAdmits ==
    ASSUME FluxTypeOK, NEW frame, Framed(frame), AdmitIngress(frame)
    PROVE  FluxTypeOK' /\ (Admits(frame) => SessionGiven(frame) \in 0 .. MaxSessions)
<1>1. externalCut' \in BOOLEAN
  BY DEF AdmitIngress, FluxTypeOK
<1>2. /\ rateWindow' \in [Actors -> SUBSET DOMAIN inspected'] /\ seenDigests' \subseteq Digests
      /\ inspected' \in Seq(Traced)
  <2>1. CASE Inspected(frame)
    <3>0. Trace(frame)
      BY <2>1 DEF AdmitIngress
    <3> DEFINE kept == Recent(frame.actor, frame.at)
    <3>n. PICK n : n = Len(inspected) + 1
      OBVIOUS
    <3>1. /\ rateWindow \in [Actors -> SUBSET DOMAIN inspected] /\ frame.actor \in Actors
          /\ DOMAIN inspected \subseteq DOMAIN inspected' /\ n \in DOMAIN inspected'
          /\ rateWindow' = [rateWindow EXCEPT ![frame.actor] = kept \cup {n}]
          /\ inspected' \in Seq(Traced)
      <4>1. rateWindow \in [Actors -> SUBSET DOMAIN inspected] /\ frame.actor \in Actors
        BY DEF FluxTypeOK, Framed
      <4>2. /\ Len(inspected) \in Nat /\ DOMAIN inspected = 1 .. Len(inspected)
            /\ DOMAIN inspected' = 1 .. n /\ inspected' \in Seq(Traced)
            /\ rateWindow' = [rateWindow EXCEPT ![frame.actor] = kept \cup {n}]
        BY <3>0, <3>n, TraceTypes
      <4> QED BY <3>n, <4>1, <4>2
    <3>2. kept \subseteq rateWindow[frame.actor]
      BY DEF Recent
    <3> HIDE DEF kept
    <3>3. rateWindow' \in [Actors -> SUBSET DOMAIN inspected']
      BY <3>1, <3>2
    <3>4. seenDigests' \subseteq Digests
      BY <3>0 DEF Trace, FluxTypeOK, Framed
    <3> QED BY <3>1, <3>3, <3>4
  <2>2. CASE ~Inspected(frame)
    BY <2>2 DEF AdmitIngress, FluxTypeOK, Traced
  <2> QED BY <2>1, <2>2
<1>3. issued \in 0 .. MaxSessions /\ DOMAIN sessions \subseteq 1 .. issued /\ MaxSessions \in Nat
  BY FluxConstants DEF FluxTypeOK
<1>4. \A s \in DOMAIN sessions : sessions[s] \in [expiresAt : Nat, revoked : BOOLEAN]
  BY DEF FluxTypeOK
<1>5. /\ issued' \in 0 .. MaxSessions /\ DOMAIN sessions' \subseteq 1 .. issued'
      /\ \A s \in DOMAIN sessions' : sessions'[s] \in [expiresAt : Nat, revoked : BOOLEAN]
      /\ Admits(frame) => SessionGiven(frame) \in 0 .. MaxSessions
  <2>1. CASE Admits(frame) /\ OpensSession(frame)
    <3> DEFINE new == issued + 1
               record == [expiresAt |-> frame.at + TrustMax, revoked |-> FALSE]
    <3>1. /\ issued < MaxSessions /\ issued' = new
          /\ sessions' = [s \in DOMAIN sessions \cup {new} |-> IF s = new THEN record ELSE sessions[s]]
      BY <2>1 DEF AdmitIngress, OpenSession
    <3>2. record \in [expiresAt : Nat, revoked : BOOLEAN]
      BY FluxConstants DEF Framed
    <3>3. new \in 1 .. MaxSessions /\ DOMAIN sessions \subseteq 1 .. new
      BY <1>3, <3>1
    <3>4. SessionGiven(frame) = new
      BY <1>3, <2>1 DEF SessionGiven, OpensSession, NoSession
    <3> HIDE DEF record, new
    <3> QED BY <1>4, <3>1, <3>2, <3>3, <3>4
  <2>2. CASE ~(Admits(frame) /\ OpensSession(frame))
    <3>1. UNCHANGED <<issued, sessions>>
      BY <2>2 DEF AdmitIngress, OpenSession
    <3>2. Admits(frame) => SessionGiven(frame) \in DOMAIN sessions \cup {NoSession}
      BY <2>2 DEF SessionGiven
    <3> QED BY <1>3, <1>4, <3>1, <3>2 DEF NoSession
  <2> QED BY <2>1, <2>2
<1> QED BY <1>1, <1>2, <1>5 DEF FluxTypeOK, Traced

Row == [state : States, actor : Actors, session : 0 .. MaxSessions, authenticated : BOOLEAN,
        revoked : BOOLEAN, measured : BOOLEAN, verified : BOOLEAN]
Waiting == [op : {"none", "execute"} \cup AdapterOps \cup {"measure"}, on : 0 .. MaxConnections,
            actor : Actors \cup {NoActor}, session : 0 .. MaxSessions, ok : BOOLEAN]
Crossings == [via : {"none"} \cup DataOps \cup AdapterOps, cut : BOOLEAN, revoked : BOOLEAN]

RowsOK ==
    /\ DOMAIN connections \subseteq 1 .. MaxConnections
    /\ \A k \in DOMAIN connections : connections[k] \in Row
CallsOK == call \in [Callers -> Waiting] /\ \A p \in Callers : Awaited(p)

FabricInv ==
    /\ RowsOK
    /\ CallsOK
    /\ crossing \in Crossings
    /\ probing \in BOOLEAN
    /\ wasHealthy \subseteq 1 .. MaxConnections

\* The type invariant, with what the calls that wait need to keep it.
TypeInv ==
    /\ mode \in Modes \cup {"unset"}
    /\ ordered \in BOOLEAN
    /\ FluxTypeOK
    /\ FabricInv
    /\ pendingCuts \in 0 .. MaxPending

LEMMA Bounds == MaxConnections \in Nat /\ MaxSessions \in Nat /\ NoSession \in 0 .. MaxSessions
BY FabricConstants, FluxConstants DEF NoSession

LEMMA SilenceTypes == ASSUME crossing' = Silence PROVE crossing' \in Crossings
BY DEF Silence, Crossings

LEMMA CrossTypes ==
    ASSUME ordered \in BOOLEAN, FluxTypeOK, RowsOK, NEW via \in DataOps \cup AdapterOps, NEW k, Cross(via, k)
    PROVE  crossing' \in Crossings
<1> DEFINE cut == ordered \/ externalCut
           revoked == k \in DOMAIN connections /\ connections[k].revoked
<1>1. cut \in BOOLEAN /\ revoked \in BOOLEAN
  BY DEF RowsOK, Row
<1>2. crossing' = IF cut \/ revoked
                  THEN [via |-> via, cut |-> cut, revoked |-> revoked]
                  ELSE Silence
  BY DEF Cross
<1> HIDE DEF cut, revoked
<1> QED BY <1>1, <1>2 DEF Silence, Crossings

LEMMA CallTypes ==
    ASSUME CallsOK, NEW p \in Callers, NEW c \in Waiting, call' = [call EXCEPT ![p] = c],
           c.op \in {"health", "measure"} => c.on \in 1 .. MaxConnections,
           c.op \in {"authenticate", "connect"} => c.actor \in Actors
    PROVE  CallsOK'
BY DEF CallsOK, Awaited

LEMMA IdleTypes == Idle \in Waiting /\ Idle.op = "none"
BY Bounds DEF Idle, Waiting

LEMMA ReturnTypes == ASSUME CallsOK, NEW p \in Callers, Returns(p) PROVE CallsOK'
<1>1. call' = [call EXCEPT ![p] = Idle]
  BY DEF Returns
<1> QED BY <1>1, CallTypes, IdleTypes

LEMMA WaitTypes ==
    ASSUME CallsOK, NEW p \in Callers, NEW k \in 0 .. MaxConnections, NEW ok \in BOOLEAN,
           NEW op \in {"disconnect", "health", "measure", "capabilities", "execute"},
           op \in {"health", "measure"} => k # 0,
           Waits(p, op, k, ok)
    PROVE  CallsOK'
<1> DEFINE c == [Idle EXCEPT !.op = op, !.on = k, !.ok = ok]
<1>1. call' = [call EXCEPT ![p] = c]
  BY DEF Waits
<1>2. c \in Waiting /\ c.op = op /\ c.on = k
  BY IdleTypes DEF Waiting, AdapterOps
<1>3. k # 0 => k \in 1 .. MaxConnections
  BY Bounds
<1> HIDE DEF c
<1> QED BY <1>1, <1>2, <1>3, CallTypes

LEMMA ConnectWaitTypes ==
    ASSUME CallsOK, NEW p \in Callers, NEW op \in {"connect", "authenticate"},
           NEW actor \in Actors, NEW session \in 0 .. MaxSessions, NEW ok \in BOOLEAN,
           WaitsToConnect(p, op, actor, session, ok)
    PROVE  CallsOK'
<1> DEFINE c == [op |-> op, on |-> 0, actor |-> actor, session |-> session, ok |-> ok]
<1>1. call' = [call EXCEPT ![p] = c]
  BY DEF WaitsToConnect
<1>2. c \in Waiting /\ c.op = op /\ c.actor = actor
  BY Bounds DEF Waiting, AdapterOps
<1> HIDE DEF c
<1> QED BY <1>1, <1>2, CallTypes

\* A step that writes one connection.
LEMMA RowTypes ==
    ASSUME RowsOK, NEW k, NEW row, connections' = [connections EXCEPT ![k] = row],
           k \in DOMAIN connections => row \in Row
    PROVE  RowsOK'
BY DEF RowsOK

LEMMA ConnectedTypes ==
    ASSUME FabricInv, Gapless, NEW p \in Callers, NEW answer, Connected(p, answer),
           UNCHANGED probing
    PROVE  FabricInv' /\ UNCHANGED fluxVars
<1>1. CallsOK' /\ crossing' \in Crossings /\ UNCHANGED <<fluxVars, wasHealthy>>
  BY ReturnTypes, SilenceTypes DEF Connected, FabricInv
<1>2. RowsOK'
  <2> DEFINE k == Cardinality(DOMAIN connections) + 1
             made == Made(call[p].actor, call[p].session, call[p].ok)
  <2>1. CASE UNCHANGED connections
    BY <2>1 DEF FabricInv, RowsOK
  <2>2. CASE ~ UNCHANGED connections
    <3>1. /\ k \in 1 .. MaxConnections /\ call[p].op = "connect"
          /\ connections' = [i \in 1 .. k |-> IF i = k THEN made ELSE connections[i]]
      BY <2>2 DEF Connected
    <3>2. made \in Row
      BY <3>1 DEF FabricInv, CallsOK, Awaited, Waiting, Made, Row, States
    <3>3. PICK n \in Nat : DOMAIN connections = 1 .. n
      BY DEF Gapless
    <3>4. k = n + 1
      <4>1. Cardinality(1 .. n) = n
        BY FS_Interval
      <4> QED BY <3>3, <4>1
    <3> HIDE DEF k, made
    <3>5. ASSUME NEW i \in 1 .. k, i # k PROVE connections[i] \in Row
      BY <3>3, <3>4, <3>5 DEF FabricInv, RowsOK
    <3>6. 1 .. k \subseteq 1 .. MaxConnections
      BY <3>1, Bounds
    <3> QED BY <3>1, <3>2, <3>5, <3>6 DEF RowsOK
  <2> QED BY <2>1, <2>2
<1> QED BY <1>1, <1>2 DEF FabricInv

LEMMA CallerTypes ==
    ASSUME TypeInv, Gapless, NEW p \in Callers, Caller(p)
    PROVE  FluxTypeOK' /\ FabricInv'
<1>0. /\ FluxTypeOK /\ FabricInv /\ RowsOK /\ CallsOK /\ ordered \in BOOLEAN
      /\ probing' = probing
  BY DEF TypeInv, FabricInv, Caller
<1>c. \A k \in DOMAIN connections : k \in 1 .. MaxConnections /\ k \in 0 .. MaxConnections /\ k # 0
  BY <1>0, Bounds DEF RowsOK
<1>u. UNCHANGED fluxVars => FluxTypeOK'
  BY <1>0 DEF fluxVars, FluxTypeOK
<1>1. ASSUME NEW actor \in Actors, NEW now \in 0 .. MaxTime,
             NEW authenticated \in BOOLEAN, NEW held \in BOOLEAN,
             Connect(p, actor, now, authenticated, held)
      PROVE  FluxTypeOK' /\ FabricInv'
  <2> DEFINE frame == Frame(actor, NoDigest, NoSession, now, authenticated, "clean")
             op == IF authenticated THEN "connect" ELSE "authenticate"
  <2>1. Framed(frame)
    BY FrameTypes
  <2>2. /\ AdmitIngress(frame) /\ UNCHANGED <<connections, wasHealthy>>
        /\ \/ /\ Admits(frame)
              /\ WaitsToConnect(p, op, actor, SessionGiven(frame), authenticated)
              /\ Cross(op, 0)
           \/ UNCHANGED call /\ crossing' = Silence
    BY <1>1 DEF Connect, Unanswered
  <2>3. op \in {"connect", "authenticate"}
    OBVIOUS
  <2> HIDE DEF frame, op
  <2>4. FluxTypeOK' /\ (Admits(frame) => SessionGiven(frame) \in 0 .. MaxSessions)
    BY <1>0, <2>1, <2>2, FluxAdmits
  <2>5. CallsOK' /\ crossing' \in Crossings
    <3>1. CASE UNCHANGED call /\ crossing' = Silence
      BY <1>0, <3>1, SilenceTypes DEF CallsOK, Awaited
    <3>2. CASE /\ Admits(frame)
               /\ WaitsToConnect(p, op, actor, SessionGiven(frame), authenticated)
               /\ Cross(op, 0)
      <4>1. op \in DataOps \cup AdapterOps
        BY <2>3 DEF AdapterOps
      <4> QED BY <1>0, <2>3, <2>4, <3>2, <4>1, CrossTypes, ConnectWaitTypes
    <3> QED BY <2>2, <3>1, <3>2
  <2> QED BY <1>0, <2>2, <2>4, <2>5 DEF FabricInv, RowsOK
<1>2. ASSUME NEW answer, Authenticated(p, answer)
      PROVE  FluxTypeOK' /\ FabricInv'
  <2>1. /\ call[p].op = "authenticate" /\ UNCHANGED <<fluxVars, connections, wasHealthy>>
        /\ \/ Returns(p) /\ crossing' = Silence
           \/ /\ WaitsToConnect(p, "connect", call[p].actor, call[p].session,
                                answer = "AUTHENTICATED")
              /\ Cross("connect", 0)
    BY <1>2 DEF Authenticated
  <2>2. call[p].actor \in Actors /\ call[p].session \in 0 .. MaxSessions
    BY <1>0, <2>1 DEF CallsOK, Awaited, Waiting
  <2>3. CallsOK' /\ crossing' \in Crossings
    <3>1. CASE Returns(p) /\ crossing' = Silence
      BY <1>0, <3>1, ReturnTypes, SilenceTypes
    <3>2. CASE /\ WaitsToConnect(p, "connect", call[p].actor, call[p].session,
                                 answer = "AUTHENTICATED")
               /\ Cross("connect", 0)
      BY <1>0, <2>2, <3>2, ConnectWaitTypes, CrossTypes DEF AdapterOps
    <3> QED BY <2>1, <3>1, <3>2
  <2> QED BY <1>0, <1>u, <2>1, <2>3 DEF FabricInv, RowsOK
<1>3. ASSUME NEW answer, Connected(p, answer)
      PROVE  FluxTypeOK' /\ FabricInv'
  BY <1>0, <1>u, <1>3, ConnectedTypes
<1>4. ASSUME NEW answer \in Answers, HealthAnswered(p, answer)
      PROVE  FluxTypeOK' /\ FabricInv'
  <2> DEFINE k == call[p].on
             row == [connections[k] EXCEPT !.state = StateAfter(answer)]
  <2>1. /\ call[p].op \in {"health", "measure"} /\ UNCHANGED fluxVars
        /\ connections' = [connections EXCEPT ![k] = row]
        /\ wasHealthy' \subseteq wasHealthy \cup {k}
        /\ \/ Returns(p) /\ crossing' = Silence
           \/ Waits(p, "capabilities", k, answer = "HEALTHY") /\ Cross("capabilities", k)
    BY <1>4 DEF HealthAnswered
  <2>2. k \in 1 .. MaxConnections /\ k \in 0 .. MaxConnections
    BY <1>0, <2>1, Bounds DEF CallsOK, Awaited
  <2>3. StateAfter(answer) \in States
    BY DEF StateAfter, States
  <2>4. k \in DOMAIN connections => row \in Row
    BY <1>0, <2>3 DEF RowsOK, Row
  <2> HIDE DEF row, k
  <2>5. RowsOK'
    BY <1>0, <2>1, <2>4, RowTypes
  <2>6. CallsOK' /\ crossing' \in Crossings
    BY <1>0, <2>1, <2>2, WaitTypes, ReturnTypes, CrossTypes, SilenceTypes DEF AdapterOps
  <2> QED BY <1>0, <1>u, <2>1, <2>2, <2>5, <2>6 DEF FabricInv
<1>5. ASSUME NEW answer, CapabilitiesAnswered(p, answer)
      PROVE  FluxTypeOK' /\ FabricInv'
  <2> DEFINE k == call[p].on
             row == [connections[k] EXCEPT !.measured = Measured(call[p].ok, answer)]
  <2>1. /\ UNCHANGED <<fluxVars, wasHealthy>>
        /\ connections' = [connections EXCEPT ![k] = row]
        /\ Returns(p) /\ crossing' = Silence
    BY <1>5 DEF CapabilitiesAnswered
  <2>2. Measured(call[p].ok, answer) \in BOOLEAN
    BY <1>0 DEF Measured, CallsOK, Waiting
  <2>3. k \in DOMAIN connections => row \in Row
    BY <1>0, <2>2 DEF RowsOK, Row
  <2> HIDE DEF row, k
  <2>4. RowsOK' /\ CallsOK' /\ crossing' \in Crossings
    BY <1>0, <2>1, <2>3, RowTypes, ReturnTypes, SilenceTypes
  <2> QED BY <1>0, <1>u, <2>1, <2>4 DEF FabricInv
<1>6. ASSUME NEW k \in DOMAIN connections, Disconnect(p, k)
      PROVE  FluxTypeOK' /\ FabricInv'
  <2>1. /\ Waits(p, "disconnect", k, FALSE) /\ Cross("disconnect", k)
        /\ UNCHANGED <<fluxVars, connections, wasHealthy>>
    BY <1>6 DEF Disconnect
  <2>2. CallsOK' /\ crossing' \in Crossings
    BY <1>0, <1>c, <2>1, WaitTypes, CrossTypes DEF AdapterOps
  <2> QED BY <1>0, <1>u, <2>1, <2>2 DEF FabricInv, RowsOK
<1>7. ASSUME NEW k \in DOMAIN connections, NEW op \in {"health", "measure"}, AskHealth(p, k, op)
      PROVE  FluxTypeOK' /\ FabricInv'
  <2>1. /\ Waits(p, op, k, FALSE) /\ Cross("health", k)
        /\ UNCHANGED <<fluxVars, connections, wasHealthy>>
    BY <1>7 DEF AskHealth
  <2>2. CallsOK' /\ crossing' \in Crossings
    BY <1>0, <1>c, <2>1, WaitTypes, CrossTypes DEF AdapterOps
  <2> QED BY <1>0, <1>u, <2>1, <2>2 DEF FabricInv, RowsOK
<1>8. CASE Disconnected(p)
  <2> DEFINE k == call[p].on
             row == [connections[k] EXCEPT !.state = "DISCONNECTED", !.revoked = TRUE]
  <2>1. /\ UNCHANGED <<fluxVars, wasHealthy>>
        /\ connections' = [connections EXCEPT ![k] = row]
        /\ Returns(p) /\ crossing' = Silence
    BY <1>8 DEF Disconnected
  <2>2. k \in DOMAIN connections => row \in Row
    BY <1>0 DEF RowsOK, Row, States
  <2> HIDE DEF row, k
  <2>3. RowsOK' /\ CallsOK' /\ crossing' \in Crossings
    BY <1>0, <2>1, <2>2, RowTypes, ReturnTypes, SilenceTypes
  <2> QED BY <1>0, <1>u, <2>1, <2>3 DEF FabricInv
<1>9. ASSUME NEW frame, Framed(frame), Execute(p, frame)
      PROVE  FluxTypeOK' /\ FabricInv'
  <2>1. /\ AdmitIngress(frame) /\ UNCHANGED <<connections, wasHealthy>>
        /\ \/ Waits(p, "execute", 0, TRUE) /\ Cross("execute", 0)
           \/ UNCHANGED call /\ crossing' = Silence
    BY <1>9 DEF Execute, Unanswered
  <2>2. CallsOK' /\ crossing' \in Crossings
    <3>1. CASE UNCHANGED call /\ crossing' = Silence
      BY <1>0, <3>1, SilenceTypes DEF CallsOK, Awaited
    <3>2. CASE Waits(p, "execute", 0, TRUE) /\ Cross("execute", 0)
      <4>1. 0 \in 0 .. MaxConnections
        BY Bounds
      <4>2. CallsOK'
        BY <1>0, <3>2, <4>1, WaitTypes
      <4> QED BY <1>0, <3>2, <4>2, CrossTypes DEF DataOps
    <3> QED BY <2>1, <3>1, <3>2
  <2> QED BY <1>0, <1>9, <2>1, <2>2, FluxAdmits DEF FabricInv, RowsOK
<1>10. ASSUME NEW sort, Executed(p, sort)
       PROVE  FluxTypeOK' /\ FabricInv'
  <2>1. CallsOK' /\ crossing' \in Crossings /\ UNCHANGED <<fluxVars, connections, wasHealthy>>
    BY <1>0, <1>10, ReturnTypes, CrossTypes, SilenceTypes DEF Executed, DataOps
  <2> QED BY <1>0, <1>u, <2>1 DEF FabricInv, RowsOK
<1> QED
  <2>1. ASSUME NEW actor \in Actors, NEW digest \in Digests, NEW authenticated, NEW s,
               NEW at \in 0 .. MaxTime, NEW sort,
               Execute(p, Frame(actor, digest, s, at, authenticated, sort))
        PROVE  FluxTypeOK' /\ FabricInv'
    <3> DEFINE frame == Frame(actor, digest, s, at, authenticated, sort)
    <3>1. Framed(frame)
      BY FrameTypes
    <3> HIDE DEF frame
    <3> QED BY <1>9, <2>1, <3>1 DEF frame
  <2> QED BY <1>1, <1>2, <1>3, <1>4, <1>5, <1>6, <1>7, <1>8, <1>10, <2>1, Caller(p) DEF Caller

LEMMA UseTypes ==
    ASSUME TypeInv, Use
    PROVE  FluxTypeOK' /\ FabricInv'
<1>0. FluxTypeOK /\ FabricInv /\ RowsOK /\ CallsOK /\ ordered \in BOOLEAN
  BY DEF TypeInv, FabricInv
<1>u. UNCHANGED fluxVars => FluxTypeOK'
  BY <1>0 DEF fluxVars, FluxTypeOK
<1>w. probing' = probing /\ UNCHANGED call /\ UNCHANGED wasHealthy
  BY DEF Use, Revoke, VerifyConnection, Send, Receive, Ask, Release
<1>c. CallsOK'
  BY <1>0, <1>w DEF CallsOK, Awaited
<1>1. ASSUME NEW k \in DOMAIN connections, Revoke(k)
      PROVE  FluxTypeOK' /\ FabricInv'
  <2> DEFINE row == [connections[k] EXCEPT !.state = "REVOKED", !.revoked = TRUE]
  <2>1. /\ UNCHANGED fluxVars /\ connections' = [connections EXCEPT ![k] = row]
        /\ crossing' = Silence
    BY <1>1 DEF Revoke
  <2>2. row \in Row
    BY <1>0 DEF RowsOK, Row, States
  <2> HIDE DEF row
  <2> QED BY <1>0, <1>u, <1>w, <1>c, <2>1, <2>2, RowTypes, SilenceTypes DEF FabricInv
<1>2. ASSUME NEW k \in DOMAIN connections, NEW evidence \in BOOLEAN, VerifyConnection(k, evidence)
      PROVE  FluxTypeOK' /\ FabricInv'
  <2> DEFINE row == [connections[k] EXCEPT !.verified = connections[k].measured /\ evidence]
  <2>1. /\ UNCHANGED fluxVars /\ connections' = [connections EXCEPT ![k] = row]
        /\ crossing' = Silence
    BY <1>2 DEF VerifyConnection
  <2>2. connections[k] \in Row
    BY <1>0 DEF RowsOK
  <2>3. (connections[k].measured /\ evidence) \in BOOLEAN
    OBVIOUS
  <2>4. row \in Row
    BY <2>2, <2>3 DEF Row
  <2> HIDE DEF row
  <2> QED BY <1>0, <1>u, <1>w, <1>c, <2>1, <2>4, RowTypes, SilenceTypes DEF FabricInv
<1>3. ASSUME NEW k \in DOMAIN connections, NEW now \in 0 .. MaxTime, NEW sort,
             Receive(k, now, sort)
      PROVE  FluxTypeOK' /\ FabricInv'
  <2> DEFINE frame == Frame(connections[k].actor, NoDigest, connections[k].session, now,
                            connections[k].authenticated, sort)
  <2>1. /\ AdmitIngress(frame) /\ UNCHANGED connections
        /\ Cross("receive", k) \/ crossing' = Silence
    BY <1>3 DEF Receive
  <2>2. Framed(frame)
    BY <1>0, FrameTypes DEF RowsOK, Row
  <2> HIDE DEF frame
  <2>3. crossing' \in Crossings
    BY <1>0, <2>1, CrossTypes, SilenceTypes DEF DataOps
  <2> QED BY <1>0, <1>w, <1>c, <2>1, <2>2, <2>3, FluxAdmits DEF FabricInv, RowsOK
<1>4. ASSUME \/ \E k \in DOMAIN connections : \/ \E op \in {"send", "request"}, sort \in Sorts : Send(k, op, sort)
                                              \/ \E op \in {"observe", "cancel"} : Ask(k, op)
             \/ \E sort \in Sorts : Release(sort)
      PROVE  FluxTypeOK' /\ FabricInv'
  <2>1. UNCHANGED <<fluxVars, connections>>
    BY <1>4 DEF Send, Ask, Release
  <2>2. \/ \E k, op : op \in DataOps \cup AdapterOps /\ Cross(op, k)
        \/ crossing' = Silence
    BY <1>4 DEF Send, Ask, Release, DataOps, AdapterOps
  <2>3. crossing' \in Crossings
    BY <1>0, <2>2, CrossTypes, SilenceTypes
  <2> QED BY <1>0, <1>u, <1>w, <1>c, <2>1, <2>3 DEF FabricInv, RowsOK
<1> QED BY <1>1, <1>2, <1>3, <1>4, Use DEF Use

LEMMA SweepTypes ==
    ASSUME TypeInv, Sweep \/ SweepProbed
    PROVE  FluxTypeOK' /\ FabricInv'
<1>0. FluxTypeOK /\ FabricInv /\ RowsOK /\ ordered \in BOOLEAN
  BY DEF TypeInv, FabricInv
<1>1. /\ UNCHANGED <<connections, call, wasHealthy>> /\ probing' \in BOOLEAN
      /\ Cross("capabilities", 0) \/ Cross("authenticate", 0)
  BY DEF Sweep, SweepProbed
<1>2. crossing' \in Crossings
  BY <1>0, <1>1, CrossTypes DEF AdapterOps
<1>3. FluxTypeOK'
  <2>1. CASE UNCHANGED fluxVars
    BY <1>0, <2>1 DEF fluxVars, FluxTypeOK
  <2>2. CASE ResetConnector
    <3>1. << >> \in Seq(Traced) /\ DOMAIN << >> = {}
      OBVIOUS
    <3> QED BY <1>0, <2>2, <3>1 DEF ResetConnector, FluxTypeOK, Traced
  <2> QED BY <2>1, <2>2 DEF Sweep, SweepProbed
<1> QED BY <1>0, <1>1, <1>2, <1>3 DEF FabricInv, RowsOK, CallsOK, Awaited

LEMMA ControlTypes ==
    ASSUME TypeInv, Control
    PROVE  TypeInv'
<1>0. /\ FluxTypeOK /\ FabricInv /\ pendingCuts \in 0 .. MaxPending
      /\ mode \in Modes \cup {"unset"} /\ ordered \in BOOLEAN
  BY DEF TypeInv
<1>1. FabricInv'
  BY <1>0, SilenceTypes DEF Control, Quiet, FabricInv, RowsOK, CallsOK, Awaited
<1>2. UNCHANGED fluxVars => FluxTypeOK'
  BY <1>0 DEF fluxVars, FluxTypeOK
<1>m. MaxPending \in Nat /\ Commands \subseteq Modes
  BY MembraneConstants
<1> DEFINE Breaker == mode \in Modes \cup {"unset"} /\ ordered \in BOOLEAN
<1>3. ASSUME NEW actor, NEW command \in Commands, Command(actor, command)
      PROVE  TypeInv'
  <2>1. UNCHANGED <<fluxVars, pendingCuts>>
    BY <1>3 DEF Command
  <2>2. mode' \in Modes \cup {"unset"}
    BY <1>0, <1>m, <1>3 DEF Command, ApplyBreakerCommand, breakerVars
  <2>3. ordered' \in BOOLEAN
    BY <1>0, <1>3 DEF Command, ApplyBreakerCommand, breakerVars
  <2> QED BY <1>0, <1>1, <1>2, <2>1, <2>2, <2>3 DEF TypeInv
<1>4. ASSUME NEW actor, RestoreFlows(actor)
      PROVE  TypeInv'
  <2>1. UNCHANGED <<breakerVars, pendingCuts>>
    BY <1>4 DEF RestoreFlows
  <2>2. FluxTypeOK'
    BY <1>0, <1>4 DEF RestoreFlows, RestoreExternalFlows, FluxTypeOK
  <2> QED BY <1>0, <1>1, <2>1, <2>2 DEF TypeInv, breakerVars
<1>5. ASSUME NEW actor, NEW verified, Recover(actor, verified)
      PROVE  TypeInv'
  <2>1. UNCHANGED <<fluxVars, pendingCuts>>
    BY <1>5 DEF Recover
  <2>2. mode' \in Modes \cup {"unset"} /\ ordered' \in BOOLEAN
    BY <1>0, <1>5 DEF Recover, HumanRecover, Modes, breakerVars
  <2> QED BY <1>0, <1>1, <1>2, <2>1, <2>2 DEF TypeInv
<1>6. ASSUME NEW condition, NEW compromised, NEW certain, HardCut(condition, compromised, certain)
      PROVE  TypeInv'
  <2> DEFINE policy == PolicyLevel(condition, compromised, certain)
  <2>1. /\ ApplySurvivalPolicy(policy) /\ UNCHANGED fluxVars
        /\ pendingCuts' = pendingCuts + (IF policy \in Cutting THEN 1 ELSE 0)
        /\ pendingCuts' <= MaxPending
    BY <1>6 DEF HardCut
  <2> HIDE DEF policy
  <2>2. mode' \in Modes \cup {"unset"}
    BY <1>0, <2>1 DEF ApplySurvivalPolicy, ModeUnder, Modes
  <2>3. ordered' \in BOOLEAN
    BY <1>0, <2>1 DEF ApplySurvivalPolicy
  <2>4. pendingCuts' \in 0 .. MaxPending
    BY <1>0, <1>m, <2>1
  <2> QED BY <1>0, <1>1, <1>2, <2>1, <2>2, <2>3, <2>4 DEF TypeInv
<1>7. CASE CommandConnectorCut
  <2>1. UNCHANGED breakerVars /\ pendingCuts' \in 0 .. MaxPending
    BY <1>0, <1>m, <1>7 DEF CommandConnectorCut
  <2>2. FluxTypeOK'
    BY <1>0, <1>7 DEF CommandConnectorCut, CutExternalFlows, FluxTypeOK
  <2> QED BY <1>0, <1>1, <2>1, <2>2 DEF TypeInv, breakerVars
<1>8. ASSUME NEW source, CutFlows(source)
      PROVE  TypeInv'
  <2>1. UNCHANGED <<breakerVars, pendingCuts>>
    BY <1>8 DEF CutFlows
  <2>2. FluxTypeOK'
    BY <1>0, <1>8 DEF CutFlows, CutExternalFlows, FluxTypeOK
  <2> QED BY <1>0, <1>1, <2>1, <2>2 DEF TypeInv, breakerVars
<1> QED BY <1>3, <1>4, <1>5, <1>6, <1>7, <1>8, Control DEF Control

LEMMA MemoryTypes ==
    ASSUME TypeInv, Memory
    PROVE  FluxTypeOK' /\ FabricInv'
<1>0. FluxTypeOK /\ FabricInv
  BY DEF TypeInv
<1>1. FabricInv'
  BY <1>0, SilenceTypes DEF Memory, Quiet, FabricInv, RowsOK, CallsOK, Awaited
<1>2. ASSUME NEW s, RevokeSession(s)
      PROVE  FluxTypeOK'
  <2> DEFINE record == [sessions[s] EXCEPT !.revoked = TRUE]
  <2>1. s \in DOMAIN sessions /\ sessions' = [sessions EXCEPT ![s] = record]
    BY <1>2 DEF RevokeSession
  <2>2. record \in [expiresAt : Nat, revoked : BOOLEAN]
    BY <1>0, <2>1 DEF FluxTypeOK
  <2> HIDE DEF record
  <2> QED BY <1>0, <1>2, <2>1, <2>2 DEF RevokeSession, FluxTypeOK
<1> QED BY <1>1, <1>2 DEF Memory

LEMMA TypeInit == Init => TypeInv
<1> SUFFICES ASSUME Init PROVE TypeInv OBVIOUS
<1>1. << >> \in Seq(Traced) /\ DOMAIN << >> = {}
  OBVIOUS
<1>2. FluxTypeOK
  <2>1. /\ sessions = << >> /\ inspected \in Seq(Traced)
        /\ rateWindow \in [Actors -> SUBSET DOMAIN inspected]
    BY <1>1 DEF Init, EmptyConnector
  <2>2. issued \in 0 .. MaxSessions
    BY FluxConstants DEF Init
  <2>3. seenDigests \subseteq Digests /\ externalCut \in BOOLEAN
    BY DEF Init, EmptyConnector
  <2> QED BY <1>1, <2>1, <2>2, <2>3 DEF FluxTypeOK, Traced
<1>3. crossing \in Crossings
  BY DEF Init, NoConnections, Silence, Crossings
<1>4. FabricInv
  BY <1>1, <1>3, IdleTypes DEF Init, NoConnections, FabricInv, RowsOK, CallsOK, Awaited
<1>5. mode \in Modes \cup {"unset"} /\ pendingCuts \in 0 .. MaxPending
  BY MembraneConstants DEF Init
<1>6. ordered \in BOOLEAN
  BY Zenon DEF Init
<1> QED BY <1>2, <1>4, <1>5, <1>6 DEF TypeInv

LEMMA TypeNext == ASSUME TypeInv, Gapless, [Next]_vars PROVE TypeInv'
<1>0. FluxTypeOK /\ FabricInv
  BY DEF TypeInv
<1>1. ASSUME FluxTypeOK', FabricInv', UNCHANGED <<breakerVars, pendingCuts>>
      PROVE  TypeInv'
  BY <1>1 DEF TypeInv, breakerVars
<1>2. CASE UNCHANGED vars
  BY <1>0, <1>1, <1>2 DEF vars, fluxVars, fabricVars, FluxTypeOK, FabricInv, RowsOK, CallsOK, Awaited
<1> QED
  BY <1>1, <1>2, ControlTypes, CallerTypes, UseTypes, SweepTypes, MemoryTypes DEF Next

\* Whatever callers, adapters, Carl and Acorn do, the membrane, the breaker and the
\* fabric hold what they are meant to hold: sessions that were issued, connections
\* in a state the code names, calls that know whom they connect.
THEOREM MembraneTypeCorrect == Spec => []TypeOK
<1>1. TypeInv => TypeOK
  BY Zenon DEF TypeInv, TypeOK, FabricInv, FabricTypeOK, RowsOK, CallsOK, Row, Waiting, Crossings
<1>2. PromotionInv => Gapless
  BY DEF PromotionInv
<1> QED BY <1>1, <1>2, TypeInit, TypeNext, PromotionInit, PromotionNext, PTL DEF Spec

-----------------------------------------------------------------------------
(* Admission.  The bucket of an actor holds exactly those of its frames     *)
(* since the memory was emptied that no later one of its frames left a      *)
(* window behind, whatever times they tell.  So the length of the bucket    *)
(* that admission asks is the number WithinTheRate counts.                  *)

Held(a) ==
    {i \in DOMAIN inspected :
        /\ inspected[i].actor = a
        /\ \A j \in i + 1 .. Len(inspected) : inspected[j].actor = a
                => inspected[j].at - inspected[i].at < RateWindow}

BucketsHold == \A a \in Actors : rateWindow[a] = Held(a)
AdmittedIsSeen ==
    \A j \in DOMAIN inspected :
        inspected[j].admitted /\ inspected[j].digest # NoDigest
            => inspected[j].digest \in seenDigests

AdmissionInv == BucketsHold /\ WithinTheRate /\ AdmittedIsSeen /\ AdmittedOnce

LEMMA InspectedTypes ==
    ASSUME FluxTypeOK
    PROVE  /\ inspected \in Seq(Traced) /\ Len(inspected) \in Nat
           /\ DOMAIN inspected = 1 .. Len(inspected)
           /\ \A i \in 1 .. Len(inspected) :
                  inspected[i].actor \in Actors /\ inspected[i].at \in Nat
<1>1. inspected \in Seq(Traced)
  BY DEF FluxTypeOK, Traced
<1>2. \A i \in 1 .. Len(inspected) : inspected[i] \in Traced
  BY <1>1, ElementOfSeq
<1>3. \A x \in Traced : x.actor \in Actors /\ x.at \in Nat
  BY FluxConstants DEF Traced
<1> HIDE DEF Traced
<1> QED BY <1>1, <1>2, <1>3, LenProperties

\* What is kept of a bucket is finite, and has one more once the frame is counted.
LEMMA RecentCounted ==
    ASSUME FluxTypeOK, NEW a \in Actors, NEW t, NEW n, n = Len(inspected) + 1
    PROVE  /\ Cardinality(Recent(a, t)) \in Nat
           /\ Cardinality(Recent(a, t) \cup {n}) = Cardinality(Recent(a, t)) + 1
<1>1. Recent(a, t) \subseteq 1 .. Len(inspected) /\ Len(inspected) \in Nat
  BY InspectedTypes DEF Recent, FluxTypeOK
<1>2. IsFiniteSet(Recent(a, t)) /\ n \notin Recent(a, t)
  <2>1. IsFiniteSet(1 .. Len(inspected))
    BY <1>1, FS_Interval
  <2> QED BY <1>1, <2>1, FS_Subset
<1> QED BY <1>2, FS_AddElement, FS_CardinalityType

\* The bucket after a frame is what it held, filtered by the frame's time, and the
\* frame.
LEMMA TraceHolds ==
    ASSUME FluxTypeOK, BucketsHold, NEW frame, Framed(frame), Trace(frame),
           NEW n, n = Len(inspected) + 1
    PROVE  /\ BucketsHold'
           /\ StillCounted(n)' = Recent(frame.actor, frame.at) \cup {n}
           /\ \A i \in 1 .. Len(inspected) : StillCounted(i)' = StillCounted(i)
<1> DEFINE kept == Recent(frame.actor, frame.at)
<1>m. PICK m : m = Len(inspected)
  OBVIOUS
<1>1. /\ m = Len(inspected) /\ m \in Nat /\ n = m + 1
      /\ DOMAIN inspected = 1 .. m /\ DOMAIN inspected' = 1 .. n
      /\ \A i \in 1 .. m : inspected'[i] = inspected[i]
      /\ inspected'[n].actor = frame.actor /\ inspected'[n].at = frame.at
      /\ rateWindow' = [rateWindow EXCEPT ![frame.actor] = kept \cup {n}]
  <2>1. /\ Len(inspected) \in Nat /\ DOMAIN inspected = 1 .. Len(inspected)
        /\ DOMAIN inspected' = 1 .. n
        /\ \A i \in 1 .. Len(inspected) : inspected'[i] = inspected[i]
        /\ inspected'[n] = [actor |-> frame.actor, digest |-> frame.digest,
                            at |-> frame.at, admitted |-> Admits(frame)]
        /\ rateWindow' = [rateWindow EXCEPT ![frame.actor] = kept \cup {n}]
    BY TraceTypes
  <2>2. inspected'[n].actor = frame.actor /\ inspected'[n].at = frame.at
    BY <2>1
  <2> HIDE DEF kept
  <2> QED BY <1>m, <2>1, <2>2
<1>2. /\ frame.actor \in Actors /\ frame.at \in Nat
      /\ \A i \in 1 .. m : inspected[i].at \in Nat
  BY <1>m, FluxConstants, InspectedTypes DEF Framed
<1>3. rateWindow \in [Actors -> SUBSET DOMAIN inspected]
  BY DEF FluxTypeOK
<1>4. \A a \in Actors : rateWindow[a] = Held(a)
  BY DEF BucketsHold
<1>5. kept = {i \in Held(frame.actor) : frame.at - inspected[i].at < RateWindow}
  BY <1>2, <1>4 DEF Recent
<1>6. /\ Len(inspected') = n
      /\ \A a : Held(a)' = {i \in 1 .. n :
             /\ inspected'[i].actor = a
             /\ \A j \in i + 1 .. n : inspected'[j].actor = a
                     => inspected'[j].at - inspected'[i].at < RateWindow}
  BY <1>1 DEF Held
<1>7. \A a : Held(a) = {i \in 1 .. m :
             /\ inspected[i].actor = a
             /\ \A j \in i + 1 .. m : inspected[j].actor = a
                     => inspected[j].at - inspected[i].at < RateWindow}
  BY <1>1 DEF Held
<1> HIDE DEF kept
<1>8. ASSUME NEW a, a # frame.actor
      PROVE  Held(a)' = Held(a)
  <2>1. ASSUME NEW i PROVE i \in Held(a)' <=> i \in Held(a)
    <3>1. i \in 1 .. n /\ inspected'[i].actor = a <=> i \in 1 .. m /\ inspected[i].actor = a
      BY <1>1, <1>8
    <3>2. ASSUME NEW j, i \in 1 .. m
          PROVE  j \in i + 1 .. n /\ inspected'[j].actor = a
                     <=> j \in i + 1 .. m /\ inspected[j].actor = a
      BY <1>1, <1>8, <3>2
    <3> QED BY <1>1, <1>6, <1>7, <3>1, <3>2
  <2> QED BY <1>6, <1>7, <2>1
<1>9. Held(frame.actor)' = kept \cup {n}
  <2>1. ASSUME NEW i \in Held(frame.actor)' PROVE i \in kept \cup {n}
    <3>1. CASE i = n
      BY <3>1
    <3>2. CASE i # n
      <4>1. i \in 1 .. m /\ n \in i + 1 .. n /\ inspected[i].actor = frame.actor
        BY <1>1, <1>6, <2>1, <3>2
      <4>2. frame.at - inspected[i].at < RateWindow
        BY <1>1, <1>6, <2>1, <4>1
      <4>3. i \in Held(frame.actor)
        BY <1>1, <1>6, <1>7, <2>1, <4>1
      <4> QED BY <1>5, <4>2, <4>3
    <3> QED BY <3>1, <3>2
  <2>2. ASSUME NEW i \in kept PROVE i \in Held(frame.actor)'
    <3>1. i \in Held(frame.actor) /\ frame.at - inspected[i].at < RateWindow
      BY <1>5
    <3>2. i \in 1 .. m /\ inspected'[i] = inspected[i]
      BY <1>1, <1>7, <3>1
    <3>3. ASSUME NEW j \in i + 1 .. n, inspected'[j].actor = frame.actor
          PROVE  inspected'[j].at - inspected'[i].at < RateWindow
      <4>1. CASE j = n
        BY <1>1, <3>1, <3>2, <4>1
      <4>2. CASE j # n
        BY <1>1, <1>7, <3>1, <3>2, <3>3, <4>2
      <4> QED BY <4>1, <4>2
    <3> QED BY <1>1, <1>6, <1>7, <3>1, <3>2, <3>3
  <2>3. n \in Held(frame.actor)'
    BY <1>1, <1>6
  <2> QED BY <2>1, <2>2, <2>3
<1>10. BucketsHold'
  <2>1. ASSUME NEW a \in Actors PROVE rateWindow'[a] = Held(a)'
    BY <1>1, <1>2, <1>3, <1>4, <1>8, <1>9
  <2> QED BY <2>1 DEF BucketsHold
<1>11. StillCounted(n)' = kept \cup {n}
  <2>1. StillCounted(n)' = Held(frame.actor)'
    BY <1>1, <1>6 DEF StillCounted
  <2> QED BY <1>9, <2>1
<1>12. ASSUME NEW i \in 1 .. m PROVE StillCounted(i)' = StillCounted(i)
  BY <1>1 DEF StillCounted
<1> QED BY <1>m, <1>10, <1>11, <1>12 DEF kept

LEMMA NothingInspected ==
    ASSUME AdmissionInv, UNCHANGED <<inspected, rateWindow, seenDigests>>
    PROVE  AdmissionInv'
BY DEF AdmissionInv, BucketsHold, Held, WithinTheRate, StillCounted, AdmittedIsSeen, AdmittedOnce

LEMMA IngressAdmits ==
    ASSUME FluxTypeOK, AdmissionInv, NEW frame, Framed(frame), AdmitIngress(frame)
    PROVE  AdmissionInv'
<1>1. CASE ~Inspected(frame)
  BY <1>1, NothingInspected DEF AdmitIngress
<1>2. CASE Inspected(frame)
  <2> DEFINE kept == Recent(frame.actor, frame.at)
  <2>m. PICK m : m = Len(inspected)
    OBVIOUS
  <2>n. PICK n : n = Len(inspected) + 1
    OBVIOUS
  <2>0. Trace(frame) /\ BucketsHold
    BY <1>2 DEF AdmitIngress, AdmissionInv
  <2>1. /\ m \in Nat /\ n = m + 1 /\ DOMAIN inspected = 1 .. m /\ DOMAIN inspected' = 1 .. n
        /\ \A i \in 1 .. m : inspected'[i] = inspected[i]
        /\ inspected'[n] = [actor |-> frame.actor, digest |-> frame.digest, at |-> frame.at,
                            admitted |-> Admits(frame)]
    BY <2>0, <2>m, <2>n, TraceTypes
  <2>2. /\ BucketsHold' /\ StillCounted(n)' = kept \cup {n}
        /\ \A i \in 1 .. m : StillCounted(i)' = StillCounted(i)
    BY <2>0, <2>m, <2>n, TraceHolds
  <2>3. Cardinality(kept) \in Nat /\ Cardinality(kept \cup {n}) = Cardinality(kept) + 1
    BY <2>n, RecentCounted DEF Framed
  <2>4. /\ seenDigests' = seenDigests \cup ({frame.digest} \ {NoDigest})
    BY <2>0 DEF Trace
  <2>5. Admits(frame) => frame.digest \notin seenDigests
                         /\ ~ (Cardinality(kept) + 1 > RateLimit)
    BY DEF Admits, TooFast, Replayed
  <2>6. RateLimit \in Nat
    BY FluxConstants
  <2> HIDE DEF kept
  <2>7. WithinTheRate'
    <3>1. ASSUME NEW i \in 1 .. n, inspected'[i].admitted
          PROVE  Cardinality(StillCounted(i)') <= RateLimit
      <4>1. CASE i = n
        <5>1. Cardinality(kept) + 1 <= RateLimit
          BY <2>1, <2>3, <2>5, <2>6, <3>1, <4>1
        <5> QED BY <2>2, <2>3, <4>1, <5>1
      <4>2. CASE i # n
        BY <2>1, <2>2, <3>1, <4>2 DEF AdmissionInv, WithinTheRate
      <4> QED BY <4>1, <4>2
    <3> QED BY <2>1, <3>1 DEF WithinTheRate
  <2>8. AdmittedIsSeen'
    <3>1. ASSUME NEW j \in 1 .. n, inspected'[j].admitted, inspected'[j].digest # NoDigest
          PROVE  inspected'[j].digest \in seenDigests'
      <4>1. CASE j = n
        BY <2>1, <2>4, <3>1, <4>1
      <4>2. CASE j # n
        BY <2>1, <2>4, <3>1, <4>2 DEF AdmissionInv, AdmittedIsSeen
      <4> QED BY <4>1, <4>2
    <3> QED BY <2>1, <3>1 DEF AdmittedIsSeen
  <2>9. AdmittedOnce'
    <3>1. ASSUME NEW i \in 1 .. n, NEW j \in 1 .. n,
                 inspected'[i].admitted, inspected'[j].admitted,
                 inspected'[i].digest = inspected'[j].digest,
                 inspected'[i].digest # NoDigest
          PROVE  i = j
      <4>1. CASE i # n /\ j # n
        BY <2>1, <3>1, <4>1 DEF AdmissionInv, AdmittedOnce
      <4>2. CASE i = n /\ j # n
        <5>1. j \in 1 .. m /\ frame.digest \in seenDigests /\ Admits(frame)
          BY <2>1, <3>1, <4>2 DEF AdmissionInv, AdmittedIsSeen
        <5> QED BY <2>5, <5>1
      <4>3. CASE i # n /\ j = n
        <5>1. i \in 1 .. m /\ frame.digest \in seenDigests /\ Admits(frame)
          BY <2>1, <3>1, <4>3 DEF AdmissionInv, AdmittedIsSeen
        <5> QED BY <2>5, <5>1
      <4> QED BY <4>1, <4>2, <4>3
    <3> QED BY <2>1, <3>1 DEF AdmittedOnce
  <2> QED BY <2>2, <2>7, <2>8, <2>9 DEF AdmissionInv
<1> QED BY <1>1, <1>2

Emptied == inspected = << >> /\ rateWindow = [a \in Actors |-> {}]

LEMMA EmptyMemory == Emptied => AdmissionInv
<1> SUFFICES ASSUME Emptied PROVE AdmissionInv
  OBVIOUS
<1>1. DOMAIN inspected = {} /\ \A a \in Actors : rateWindow[a] = {}
  BY DEF Emptied
<1> QED BY <1>1 DEF AdmissionInv, BucketsHold, Held, WithinTheRate, AdmittedIsSeen, AdmittedOnce

LEMMA AdmissionNext ==
    ASSUME TypeInv, AdmissionInv, [Next]_vars
    PROVE  AdmissionInv'
<1>0. FluxTypeOK /\ RowsOK
  BY DEF TypeInv, FabricInv
<1>1. ASSUME UNCHANGED <<inspected, rateWindow, seenDigests>>
      PROVE  AdmissionInv'
  BY <1>1, NothingInspected
<1>2. CASE Control
  BY <1>1, <1>2 DEF Control, Command, RestoreFlows, RestoreExternalFlows, Recover, HardCut,
     CommandConnectorCut, CutFlows, CutExternalFlows, fluxVars
<1>3. ASSUME NEW p \in Callers, Caller(p)
      PROVE  AdmissionInv'
  <2>1. ASSUME NEW actor \in Actors, NEW now \in 0 .. MaxTime, NEW authenticated, NEW held,
               Connect(p, actor, now, authenticated, held)
        PROVE  AdmissionInv'
    <3> DEFINE frame == Frame(actor, NoDigest, NoSession, now, authenticated, "clean")
    <3>1. Framed(frame) /\ AdmitIngress(frame)
      BY <2>1, FrameTypes DEF Connect
    <3> HIDE DEF frame
    <3> QED BY <1>0, <3>1, IngressAdmits
  <2>2. ASSUME NEW actor \in Actors, NEW digest \in Digests, NEW authenticated, NEW s,
               NEW at \in 0 .. MaxTime, NEW sort,
               Execute(p, Frame(actor, digest, s, at, authenticated, sort))
        PROVE  AdmissionInv'
    <3> DEFINE frame == Frame(actor, digest, s, at, authenticated, sort)
    <3>1. Framed(frame) /\ AdmitIngress(frame)
      BY <2>2, FrameTypes DEF Execute
    <3> HIDE DEF frame
    <3> QED BY <1>0, <3>1, IngressAdmits
  <2> QED BY <1>1, <1>3, <2>1, <2>2 DEF Caller, Authenticated, Connected, HealthAnswered,
             CapabilitiesAnswered, Disconnect, AskHealth, Disconnected, Executed, fluxVars
<1>4. CASE Use
  <2>1. ASSUME NEW k \in DOMAIN connections, NEW now \in 0 .. MaxTime, NEW sort,
               Receive(k, now, sort)
        PROVE  AdmissionInv'
    <3> DEFINE frame == Frame(connections[k].actor, NoDigest, connections[k].session, now,
                              connections[k].authenticated, sort)
    <3>1. Framed(frame) /\ AdmitIngress(frame)
      BY <1>0, <2>1, FrameTypes DEF Receive, RowsOK, Row
    <3> HIDE DEF frame
    <3> QED BY <1>0, <3>1, IngressAdmits
  <2> QED BY <1>1, <1>4, <2>1 DEF Use, Revoke, VerifyConnection, Send, Ask, Release, fluxVars
<1>5. CASE Sweep \/ SweepProbed
  <2>1. CASE ResetConnector
    <3>1. Emptied'
      BY <2>1 DEF ResetConnector, Emptied
    <3>2. (Emptied => AdmissionInv)'
      BY EmptyMemory, PTL
    <3> QED BY <3>1, <3>2
  <2> QED BY <1>1, <1>5, <2>1 DEF Sweep, SweepProbed, fluxVars
<1>6. CASE Memory
  BY <1>1, <1>6 DEF Memory, RevokeSession
<1>7. CASE UNCHANGED vars
  BY <1>1, <1>7 DEF vars, fluxVars
<1> QED BY <1>2, <1>3, <1>4, <1>5, <1>6, <1>7 DEF Next

\* Between two sweeps of runConnectionSweep no nonce is admitted twice, and when a
\* frame is admitted, the frames of its actor that no later one was dated a window
\* past are at most RATE_LIMIT, whichever of connect, receive and throughMembrane
\* they came through and whatever times they tell.
THEOREM NeitherReplayNorFlood == Spec => []AdmissionHolds
<1>1. AdmissionInv => AdmissionHolds
  BY DEF AdmissionInv, AdmissionHolds
<1>2. Init => AdmissionInv
  BY EmptyMemory DEF Init, EmptyConnector, Emptied
<1>3. PromotionInv => Gapless
  BY DEF PromotionInv
<1> QED BY <1>1, <1>2, <1>3, AdmissionNext, TypeInit, TypeNext, PromotionInit, PromotionNext,
           PTL DEF Spec
=============================================================================
