---------------------------- MODULE SwarmKernel ----------------------------
(***************************************************************************)
(* The meta-kernel of the swarm, .github/swarm/kernel.mjs, over the memory *)
(* of lease.mjs: the inbound bus and its gateway, pulses, invitations and  *)
(* handshakes, and the calls that reach the lease.  runVault and runKernel *)
(* are scripts of these calls that begin with resetKernel.  Posts, their   *)
(* weights, the telemetry and its WORM chain are left out.                 *)
(*                                                                         *)
(* Envelopes outlive the process; what its memory holds does not.          *)
(***************************************************************************)
EXTENDS SwarmLease

CONSTANTS
    Invites,    \* the envelopes that hold an invitation
    Ring,       \* RING, the length of the inbound buffer
    MaxSignals, \* bound on the signals one memory accepts
    MaxLives    \* bound on the losses of the memory

ASSUME KernelConstants ==
    /\ Invites \subseteq Envelopes
    /\ {Ring, MaxSignals, MaxLives} \subseteq Nat

VARIABLES
    gateway,  \* MESH.gateway
    buffer,   \* MESH.buffer: the accepted signals, by number
    accepted, \* history: how many signals this memory accepted
    altered,  \* history: a sealed epoch was altered
    alarm,    \* history: an anomaly was seen and not lifted since
    last      \* history: the verdict of the last call

vars == <<leaseVars, gateway, buffer, accepted, altered, alarm, last>>

Verdicts == {"other", "connected", "lifted", "died"}

EpochOK(epoch) ==
    /\ epoch.body.n \in 0 .. MaxEpochs
    /\ \A i \in DOMAIN epoch.body.leaves :
           epoch.body.leaves[i].kind \in {"lease", "revocation", "signal"}

TypeOK ==
    /\ {isolated, gateway, altered, alarm} \subseteq BOOLEAN
    /\ leases \in Seq(Leases)
    /\ revocations \in 0 .. MaxRevocations
    /\ \A i \in DOMAIN epochs : EpochOK(epochs[i])
    /\ nonces \subseteq {NonceOf[e] : e \in Envelopes}
    /\ stamp \in [Envelopes -> Times \cup {Unset}]
    /\ clock \in Times
    /\ life \in 0 .. MaxLives
    /\ openings \in Seq([of : Envelopes, at : Times, life : 0 .. MaxLives])
    /\ buffer \in Seq(1 .. MaxSignals)
    /\ Len(buffer) <= Ring
    /\ accepted \in 0 .. MaxSignals
    /\ last \in Verdicts

Init ==
    /\ EmptyLease
    /\ stamp = [e \in Envelopes |-> Unset]
    /\ clock = 0
    /\ life = 0
    /\ openings = << >>
    /\ gateway = TRUE
    /\ buffer = << >>
    /\ accepted = 0
    /\ altered = FALSE
    /\ alarm = FALSE
    /\ last = "other"

history == <<clock, life, openings, altered>>
bus == <<gateway, buffer, accepted>>
\* An alarm lasts until it is lifted.
Alarms == alarm' = (alarm \/ revocations' > revocations)

(***************************************************************************)
(* The inbound bus.  A payload that claims a channel or carries raw        *)
(* quantum data is refused and changes nothing.                            *)
(***************************************************************************)
\* The forms a likely mistake would give a definition come before it, as here.
AdmitsIfOpen == gateway
Admits == ~isolated /\ gateway

QueuedWhole == Append(buffer, accepted + 1)
Queued == LET queue == Append(buffer, accepted + 1)
          IN  IF Len(queue) > Ring THEN Tail(queue) ELSE queue

Accept ==
    /\ accepted < MaxSignals
    /\ accepted' = accepted + 1
    /\ buffer' = Queued

Inbound ==
    /\ IF Admits
       THEN Accept
       ELSE UNCHANGED <<accepted, buffer>>
    /\ last' = "other"
    /\ UNCHANGED <<memory, stamp, history, gateway, alarm>>

Signals(queue) == [i \in DOMAIN queue |-> Leaf("signal", queue[i])]

\* The watchdog of a pulse measures nothing and shuts the gateway when it trips.
Pulse(keyed) ==
    /\ Admits
    /\ Accept
    /\ Watchdog(Unset, FALSE)
    /\ gateway' = ~isolated'
    /\ IF keyed
       THEN CloseEpoch(Len(leases), revocations', Signals(buffer'))
       ELSE UNCHANGED epochs
    /\ Alarms
    /\ last' = "other"
    /\ UNCHANGED <<leases, nonces, stamp, history>>

PulseRefused ==
    /\ ~Admits
    /\ last' = "other"
    /\ UNCHANGED <<memory, stamp, history, bus, alarm>>

(***************************************************************************)
(* Invitations and handshakes.                                             *)
(***************************************************************************)
WrapEnvelope(e, ts) ==
    /\ Wrap(e, ts)
    /\ last' = "other"
    /\ UNCHANGED <<memory, history, bus, alarm>>

\* claims: it says it is mTLS or has a fiber, and is refused before it is opened.
HandshakeRefused(e, now, claims) ==
    /\ stamp[e] # Unset
    /\ claims \/ ~Opens(e, now)
    /\ last' = "other"
    /\ UNCHANGED <<memory, stamp, history, bus, alarm>>

(***************************************************************************)
(* An envelope that opens is spent before the rest is looked at.           *)
(* now: the time its caller tells or, untold, the clock's; meant: the      *)
(* guest and its lease are those expected; carries: it brings a payload    *)
(* for the bus.                                                            *)
(***************************************************************************)
Handshake(e, now, meant, carries) ==
    /\ Opens(e, now)
    /\ Spend(e, now)
    /\ IF e \in Invites /\ meant /\ carries /\ Admits
       THEN Accept
       ELSE UNCHANGED <<buffer, accepted>>
    /\ last' = "other"
    /\ UNCHANGED <<isolated, leases, revocations, epochs, stamp, clock, life, altered, gateway, alarm>>

(***************************************************************************)
(* The calls that reach the lease.                                         *)
(***************************************************************************)
Prove(l) ==
    /\ Len(leases) < Cardinality(Leases)
    /\ ProveLease(l)
    /\ last' = "other"
    /\ UNCHANGED <<isolated, revocations, epochs, nonces, stamp, history, bus, alarm>>

Seal ==
    /\ CloseEpoch(Len(leases), revocations, << >>)
    /\ last' = "other"
    /\ UNCHANGED <<isolated, leases, revocations, nonces, stamp, history, bus, alarm>>

Watch(measured, corrupt) ==
    /\ Watchdog(measured, corrupt)
    /\ Alarms
    /\ last' = "other"
    /\ UNCHANGED <<leases, epochs, nonces, stamp, history, bus>>

LiftAndReopen ==
    /\ ResetIsolation
    /\ gateway' = TRUE
    /\ alarm' = FALSE
    /\ last' = "lifted"
    /\ UNCHANGED <<leases, revocations, epochs, nonces, stamp, history, buffer, accepted>>

\* Only Carl's name lifts the kill-switch; the gateway stays as it is.
Lift ==
    /\ ResetIsolation
    /\ alarm' = FALSE
    /\ last' = "lifted"
    /\ UNCHANGED <<leases, revocations, epochs, nonces, stamp, history, bus>>

OpticalCanal(signed, fiber) ==
    /\ last' = IF Connects(signed, fiber) THEN "connected" ELSE "other"
    /\ UNCHANGED <<memory, stamp, history, bus, alarm>>

(***************************************************************************)
(* resetKernel, which heal calls for anybody; a restart does the same.     *)
(***************************************************************************)
Forget ==
    /\ life < MaxLives
    /\ ResetLease
    /\ life' = life + 1
    /\ gateway' = TRUE
    /\ buffer' = << >>
    /\ accepted' = 0
    /\ altered' = FALSE
    /\ alarm' = FALSE
    /\ UNCHANGED <<stamp, clock, openings>>


Heal == Forget /\ last' = "other"
Restart == Forget /\ last' = "died"

\* The leaves of a sealed epoch are an array that its readers can change; here
\* once in a memory.
Alter(i) ==
    /\ ~altered
    /\ i \in DOMAIN epochs
    /\ epochs[i].body.leaves # << >>
    /\ epochs' = [epochs EXCEPT ![i].body.leaves = Append(@, Last(@))]
    /\ altered' = TRUE
    /\ UNCHANGED <<isolated, leases, revocations, nonces, stamp, clock, life, openings, bus, alarm, last>>

Tick ==
    /\ clock < MaxTime
    /\ clock' = clock + 1
    /\ UNCHANGED <<memory, stamp, life, openings, altered, bus, alarm, last>>

Losses == {Unset} \cup 0 .. 2

Call ==
    \/ Inbound
    \/ PulseRefused
    \/ \E keyed \in BOOLEAN : Pulse(keyed)
    \/ \E e \in Envelopes, ts \in Times : WrapEnvelope(e, ts)
    \/ \E e \in Envelopes, now \in Times, claims \in BOOLEAN : HandshakeRefused(e, now, claims)
    \/ \E e \in Envelopes, now \in Times, meant, carries \in BOOLEAN :
           Handshake(e, now, meant, carries)
    \/ \E l \in Leases : Prove(l)
    \/ Seal
    \/ \E measured \in Losses, corrupt \in BOOLEAN : Watch(measured, corrupt)
    \/ Lift
    \/ \E signed, fiber \in BOOLEAN : OpticalCanal(signed, fiber)
    \/ Heal

Next ==
    \/ Call
    \/ Restart
    \/ \E i \in 1 .. MaxEpochs : Alter(i)
    \/ Tick

Spec == Init /\ [][Next]_vars

(***************************************************************************)
(* Properties.                                                             *)
(***************************************************************************)
\* The chain of epochs verifies as long as nobody altered a sealed epoch, and no
\* longer, although an epoch with a repeated last leaf may keep its Merkle root.
TamperingIsSeen == VerifyChain(epochs) <=> ~altered

\* A nonce is opened a second time only by a process that lost its memory: even a
\* handshake that was refused after it opened its invitation has used it up.
ReplayNeedsAmnesia ==
    \A i, j \in DOMAIN openings :
        /\ i < j
        /\ NonceOf[openings[i].of] = NonceOf[openings[j].of]
        => openings[i].life # openings[j].life

\* Whatever was forgotten or postdated, an envelope is never opened at two times
\* more than twice the skew apart, the times being those its callers told: between
\* callers who leave the time to the kernel, twice the skew of the clock.
ReplayIsRecent ==
    \A i, j \in DOMAIN openings :
        openings[i].of = openings[j].of => openings[j].at - openings[i].at <= 2 * Skew

\* "timestamp outside replay window" (lease.mjs:410): an envelope that is opened is
\* within the skew of the clock.  A caller that tells its own time opens an old one.
OldStaysShut ==
    [][\A e \in Envelopes, now \in Times :
           openings' = Append(openings, [of |-> e, at |-> now, life |-> life])
           => clock - stamp[e] \in -Skew .. Skew]_vars

\* From an alarm to the end of it no signal enters the bus and no canal is told
\* CONNECTED, whichever call noticed the anomaly.
AlarmStopsTraffic ==
    [][alarm /\ alarm' => accepted' = accepted /\ last' # "connected"]_vars

\* Once a pulse has shut the gateway nothing is accepted, not even after Carl
\* lifted the kill-switch, until the memory is gone.
ShutUntilForgotten ==
    [][~gateway /\ life' = life => ~gateway' /\ accepted' = accepted]_vars

\* "No automatic resume. Carl only." (lease.mjs:260): within a process the
\* kill-switch is lifted by Carl's reset alone.  heal() lifts it for anybody.
OnlyCarlLifts ==
    [][isolated /\ ~isolated' /\ last' # "died" => last' = "lifted"]_vars
=============================================================================
