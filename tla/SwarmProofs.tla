---------------------------- MODULE SwarmProofs ----------------------------
(***************************************************************************)
(* Theorems of the swarm, for any leases, envelopes, nonces, rosters and   *)
(* bounds.  Its memory: a nonce is spent once in a life of the memory, an  *)
(* envelope is not opened again for long, an alarm stops the bus and the   *)
(* canals, and an altered epoch is seen.  Its cognition, whose state is    *)
(* apart from the memory's: what is thought first is thought apart, talk   *)
(* moves no verdict, consensus stays at home and dissent travels.          *)
(***************************************************************************)
EXTENDS SwarmKernel, Cognition, FiniteSetTheorems, SequenceTheorems,
        WellFoundedInduction, TLAPS

\* What a life has opened is spent, and no opening is of a life to come.
OpeningsAreSpent ==
    \A i \in DOMAIN openings :
        /\ openings[i].life \in Nat
        /\ openings[i].life <= life
        /\ openings[i].life = life => NonceOf[openings[i].of] \in nonces

Opened == [of : Envelopes, at : Int, life : Nat]

Memory ==
    /\ life \in Nat
    /\ clock \in Int
    /\ openings \in Seq(Opened)
    /\ OpeningsAreSpent
    /\ ReplayNeedsAmnesia

\* An alarm means that the kill-switch is pulled.
Switch ==
    /\ revocations \in Nat
    /\ alarm => isolated /\ last # "connected"

USE DEF memory, history, bus, leaseVars

LEMMA MemoryInit == Init => Memory
BY DEF Init, EmptyLease, Memory, OpeningsAreSpent, ReplayNeedsAmnesia

LEMMA SpendKeepsMemory ==
    ASSUME Memory, NEW e \in Envelopes, NEW now \in Int, Opens(e, now), Spend(e, now),
           life' = life, clock' = clock
    PROVE  Memory'
<1> DEFINE new == [of |-> e, at |-> now, life |-> life]
           n == Len(openings) + 1
<1>1. /\ openings' = Append(openings, new)
      /\ nonces' = nonces \cup {NonceOf[e]}
      /\ new \in Opened
      /\ openings \in Seq(Opened)
  BY DEF Spend, Memory, Opened
<1>2. /\ openings' \in Seq(Opened)
      /\ Len(openings') = n
      /\ openings'[n] = new
      /\ \A i \in 1 .. Len(openings) : openings'[i] = openings[i]
  <2> HIDE DEF new
  <2> QED BY <1>1
<1>3. DOMAIN openings = 1 .. Len(openings) /\ DOMAIN openings' = 1 .. n /\ Len(openings) \in Nat
  BY <1>1, <1>2
<1>4. \A i \in DOMAIN openings' : i \in DOMAIN openings \/ i = n
  BY <1>3
<1>5. OpeningsAreSpent'
  <2> SUFFICES ASSUME NEW i \in DOMAIN openings'
               PROVE  /\ openings'[i].life \in Nat
                      /\ openings'[i].life <= life'
                      /\ openings'[i].life = life' => NonceOf[openings'[i].of] \in nonces'
    BY DEF OpeningsAreSpent
  <2>1. CASE i = n
    BY <2>1, <1>1, <1>2 DEF Memory
  <2>2. CASE i \in DOMAIN openings
    BY <2>2, <1>1, <1>2, <1>3 DEF Memory, OpeningsAreSpent
  <2> QED BY <2>1, <2>2, <1>4
<1>6. ReplayNeedsAmnesia'
  <2> SUFFICES ASSUME NEW i \in DOMAIN openings', NEW j \in DOMAIN openings', i < j,
                      NonceOf[openings'[i].of] = NonceOf[openings'[j].of]
               PROVE  openings'[i].life # openings'[j].life
    BY DEF ReplayNeedsAmnesia
  <2>1. i \in DOMAIN openings
    BY <1>3
  <2>2. CASE j = n
    <3>1. NonceOf[openings[i].of] \notin nonces
      BY <2>1, <2>2, <1>1, <1>2, <1>3 DEF Opens
    <3> QED BY <3>1, <2>1, <2>2, <1>1, <1>2, <1>3 DEF Memory, OpeningsAreSpent
  <2>3. CASE j \in DOMAIN openings
    BY <2>1, <2>3, <1>2, <1>3 DEF Memory, ReplayNeedsAmnesia
  <2> QED BY <2>2, <2>3, <1>4
<1> QED BY <1>2, <1>5, <1>6 DEF Memory

LEMMA ForgetKeepsMemory == ASSUME Memory, Forget PROVE Memory'
BY DEF Memory, Forget, ResetLease, OpeningsAreSpent, ReplayNeedsAmnesia

\* Every other step leaves the nonces, the openings and the life alone.
LEMMA MemoryUnchanged ==
    ASSUME Memory, UNCHANGED <<nonces, openings, life>>, clock' \in Int
    PROVE  Memory'
BY DEF Memory, OpeningsAreSpent, ReplayNeedsAmnesia

LEMMA MemoryNext == ASSUME Memory, [Next]_vars PROVE Memory'
<1>1. CASE UNCHANGED vars
  BY <1>1, MemoryUnchanged DEF vars, Memory
<1>2. CASE Call
  <2>1. ASSUME NEW e \in Envelopes, NEW now \in Times, NEW meant \in BOOLEAN,
               NEW carries \in BOOLEAN, Handshake(e, now, meant, carries)
        PROVE  Memory'
    BY <2>1, SpendKeepsMemory DEF Handshake, Times
  <2>2. CASE Heal
    BY <2>2, ForgetKeepsMemory DEF Heal
  <2>3. CASE UNCHANGED <<nonces, openings, life, clock>>
    BY <2>3, MemoryUnchanged DEF Memory
  <2> QED
    BY <1>2, <2>1, <2>2, <2>3
    DEF Call, Inbound, PulseRefused, Pulse, WrapEnvelope, HandshakeRefused, Prove, Seal,
        Watch, Lift, OpticalCanal
<1>3. CASE Restart
  BY <1>3, ForgetKeepsMemory DEF Restart
<1>4. CASE \E i \in 1 .. MaxEpochs : Alter(i)
  BY <1>4, MemoryUnchanged DEF Alter, Memory
<1>5. CASE Tick
  BY <1>5, MemoryUnchanged DEF Tick, Memory
<1> QED BY <1>1, <1>2, <1>3, <1>4, <1>5 DEF Next

\* Whatever is lost, replayed or postdated, a nonce opens one envelope in a life of
\* the memory (lease.mjs:411-412).
THEOREM OneOpeningPerLife == Spec => []ReplayNeedsAmnesia
<1>1. Memory => ReplayNeedsAmnesia
  BY DEF Memory
<1> QED BY <1>1, MemoryInit, MemoryNext, PTL DEF Spec

LEMMA SwitchInit == Init => Switch
BY DEF Init, EmptyLease, Switch

LEMMA WatchdogKeepsSwitch ==
    ASSUME Switch, NEW measured, NEW corrupt, Watchdog(measured, corrupt), Alarms,
           last' = "other"
    PROVE  Switch'
<1>1. CASE Isolate
  BY <1>1 DEF Switch, Isolate
<1>2. CASE UNCHANGED <<isolated, revocations>>
  <2>1. ~(revocations' > revocations)
    BY <1>2 DEF Switch
  <2>2. alarm' = (alarm \/ FALSE)
    BY <2>1 DEF Alarms
  <2> QED BY <1>2, <2>2 DEF Switch
<1> QED BY <1>1, <1>2 DEF Watchdog

LEMMA SwitchNext == ASSUME Switch, [Next]_vars PROVE Switch'
<1>1. CASE UNCHANGED <<isolated, revocations, alarm>> /\ (alarm => last' # "connected")
  BY <1>1 DEF Switch
<1>2. ASSUME NEW keyed \in BOOLEAN, Pulse(keyed) PROVE Switch'
  BY <1>2, WatchdogKeepsSwitch DEF Pulse
<1>3. ASSUME NEW measured \in Losses, NEW corrupt \in BOOLEAN, Watch(measured, corrupt)
      PROVE  Switch'
  BY <1>3, WatchdogKeepsSwitch DEF Watch
<1>4. CASE Lift
  BY <1>4 DEF Lift, ResetIsolation, Switch
<1>5. CASE Forget
  BY <1>5 DEF Forget, ResetLease, Switch
<1>6. CASE UNCHANGED <<isolated, revocations, alarm>> /\ last' \in {"other", last}
  BY <1>1, <1>6 DEF Switch
<1>7. ASSUME NEW signed \in BOOLEAN, NEW fiber \in BOOLEAN, OpticalCanal(signed, fiber)
      PROVE  Switch'
  BY <1>1, <1>7 DEF OpticalCanal, Connects, Switch
<1> QED
  BY <1>2, <1>3, <1>4, <1>5, <1>6, <1>7
  DEF Next, vars, Call, Inbound, PulseRefused, WrapEnvelope, HandshakeRefused, Handshake, Prove,
      Seal, Heal, Restart, Alter, Tick

LEMMA SwitchStops ==
    ASSUME Switch, [Next]_vars
    PROVE  [alarm /\ alarm' => accepted' = accepted /\ last' # "connected"]_vars
<1> SUFFICES ASSUME alarm, alarm', Next
             PROVE  accepted' = accepted /\ last' # "connected"
  OBVIOUS
<1>1. isolated
  BY DEF Switch
<1>2. ~Admits
  BY <1>1 DEF Admits
<1>3. CASE Call
  BY <1>1, <1>2, <1>3
  DEF Call, Inbound, Pulse, PulseRefused, WrapEnvelope, HandshakeRefused, Handshake, Prove, Seal,
      Watch, Lift, OpticalCanal, Connects, Heal, Forget
<1>4. CASE Restart
  BY <1>4 DEF Restart, Forget
<1>5. CASE \E i \in 1 .. MaxEpochs : Alter(i)
  BY <1>5 DEF Alter, Switch
<1>6. CASE Tick
  BY <1>6 DEF Tick, Switch
<1> QED BY <1>3, <1>4, <1>5, <1>6 DEF Next

\* An alarm stops the bus and the canals, whichever call raised it.
THEOREM AlarmStops == Spec => AlarmStopsTraffic
<1> QED BY SwitchInit, SwitchNext, SwitchStops, PTL DEF Spec, AlarmStopsTraffic

\* A gateway that a pulse has shut stays shut for the life of the memory.
THEOREM GatewayStaysShut == Spec => ShutUntilForgotten
<1>1. ASSUME Memory, [Next]_vars
      PROVE  [~gateway /\ life' = life => ~gateway' /\ accepted' = accepted]_vars
  <2> SUFFICES ASSUME ~gateway, life' = life, Next
               PROVE  ~gateway' /\ accepted' = accepted
    BY <1>1
  <2>1. ~Admits /\ life \in Nat
    BY <1>1 DEF Admits, Memory
  <2>2. ~Forget
    BY <2>1 DEF Forget
  <2>3. CASE UNCHANGED <<gateway, accepted>>
    BY <2>3
  <2>4. ASSUME NEW keyed \in BOOLEAN PROVE ~Pulse(keyed)
    BY <2>1 DEF Pulse
  <2>5. ASSUME NEW e \in Envelopes, NEW now \in Times, NEW meant \in BOOLEAN,
               NEW carries \in BOOLEAN, Handshake(e, now, meant, carries)
        PROVE  UNCHANGED <<gateway, accepted>>
    BY <2>1, <2>5 DEF Handshake
  <2>6. Inbound => UNCHANGED <<gateway, accepted>>
    BY <2>1 DEF Inbound
  <2>7. ~Heal /\ ~Restart
    BY <2>2 DEF Heal, Restart
  <2> QED
    BY <2>3, <2>4, <2>5, <2>6, <2>7
    DEF Next, Call, PulseRefused, WrapEnvelope, HandshakeRefused, Prove, Seal, Watch, Lift,
        OpticalCanal, Alter, Tick
<1> QED BY <1>1, MemoryInit, MemoryNext, PTL DEF Spec, ShutUntilForgotten

\* Every opening was told a time within the skew of the one its envelope was given,
\* once and for all: so two times told for it are within twice the skew.
OpenedInTime ==
    \A i \in DOMAIN openings :
        LET e == openings[i].of
        IN  /\ stamp[e] # Unset
            /\ openings[i].at - stamp[e] \in -Skew .. Skew

Dated ==
    /\ clock \in Int
    /\ stamp \in [Envelopes -> Int]
    /\ openings \in Seq(Opened)
    /\ OpenedInTime

LEMMA OpeningType ==
    ASSUME openings \in Seq(Opened), NEW i \in DOMAIN openings
    PROVE  openings[i].of \in Envelopes /\ openings[i].at \in Int
<1>1. openings[i] \in Opened
  OBVIOUS
<1> QED BY <1>1 DEF Opened

LEMMA DatedInit == Init => Dated
BY DEF Init, Dated, OpenedInTime, Unset

LEMMA SpendKeepsDates ==
    ASSUME Dated, life \in Nat, NEW e \in Envelopes, NEW now \in Int, Opens(e, now), Spend(e, now),
           UNCHANGED <<stamp, clock>>
    PROVE  Dated'
<1> DEFINE new == [of |-> e, at |-> now, life |-> life]
<1>1. openings' = Append(openings, new) /\ new \in Opened
  BY DEF Spend, Dated, Opened
<1>2. new.of = e /\ new.at = now
  OBVIOUS
<1> HIDE DEF new
<1>3. /\ openings' \in Seq(Opened)
      /\ openings'[Len(openings) + 1] = new
      /\ \A i \in DOMAIN openings : openings'[i] = openings[i]
      /\ \A i \in DOMAIN openings' : i \in DOMAIN openings \/ i = Len(openings) + 1
  BY <1>1 DEF Dated
<1>4. stamp[e] # Unset /\ now - stamp[e] \in -Skew .. Skew
  BY DEF Opens, Fresh
<1> QED
  BY <1>2, <1>3, <1>4 DEF Dated, OpenedInTime

\* An envelope that was opened had its time, and is not wrapped again.
LEMMA WrapKeepsDates ==
    ASSUME Dated, NEW e \in Envelopes, NEW ts \in Times, Wrap(e, ts), UNCHANGED <<openings, clock>>
    PROVE  Dated'
<1>1. stamp' \in [Envelopes -> Int]
  BY DEF Dated, Wrap, Times
<1>2. ASSUME NEW i \in DOMAIN openings
      PROVE  openings[i].of \in Envelopes /\ openings[i].of # e
  BY OpeningType DEF Dated, OpenedInTime, Wrap
<1>3. ASSUME NEW i \in DOMAIN openings
      PROVE  stamp'[openings[i].of] = stamp[openings[i].of]
  <2>1. openings[i].of \in Envelopes \ {e}
    BY <1>2
  <2>2. stamp' = [stamp EXCEPT ![e] = ts]
    BY DEF Wrap
  <2> QED BY <2>1, <2>2 DEF Dated
<1>4. OpenedInTime'
  BY <1>3 DEF Dated, OpenedInTime
<1> QED BY <1>1, <1>4 DEF Dated

LEMMA DatedUnchanged ==
    ASSUME Dated, UNCHANGED <<stamp, openings>>, clock' \in Int
    PROVE  Dated'
BY DEF Dated, OpenedInTime

LEMMA DatedNext == ASSUME Memory, Dated, [Next]_vars PROVE Dated'
<1>1. ASSUME NEW e \in Envelopes, NEW now \in Times, NEW meant \in BOOLEAN,
             NEW carries \in BOOLEAN, Handshake(e, now, meant, carries)
      PROVE  Dated'
  BY <1>1, SpendKeepsDates DEF Handshake, Memory, Times
<1>2. ASSUME NEW e \in Envelopes, NEW ts \in Times, WrapEnvelope(e, ts)
      PROVE  Dated'
  BY <1>2, WrapKeepsDates DEF WrapEnvelope
<1>3. CASE Tick
  BY <1>3, DatedUnchanged DEF Tick, Dated
<1>4. CASE UNCHANGED <<stamp, openings, clock>>
  BY <1>4, DatedUnchanged DEF Dated
<1> QED
  BY <1>1, <1>2, <1>3, <1>4
  DEF Next, vars, Call, Inbound, PulseRefused, Pulse, HandshakeRefused, Prove, Seal, Watch, Lift,
      OpticalCanal, Heal, Restart, Forget, Alter

LEMMA DatedBounds == Dated => ReplayIsRecent
<1> SUFFICES ASSUME Dated, NEW i \in DOMAIN openings, NEW j \in DOMAIN openings,
                    openings[i].of = openings[j].of
             PROVE  openings[j].at - openings[i].at <= 2 * Skew
  BY DEF ReplayIsRecent
<1>1. Skew \in Nat
  BY LeaseConstants
<1>2. /\ openings[i].of \in Envelopes
      /\ openings[i].at \in Int /\ openings[j].at \in Int
  BY OpeningType DEF Dated
<1>3. PICK s \in Int : s = stamp[openings[i].of]
  BY <1>2 DEF Dated
<1>4. openings[i].at - s \in -Skew .. Skew /\ openings[j].at - s \in -Skew .. Skew
  BY <1>3 DEF Dated, OpenedInTime
<1>5. \A x, y \in Int : x - s \in -Skew .. Skew /\ y - s \in -Skew .. Skew => y - x <= 2 * Skew
  BY <1>1, <1>3
<1> QED BY <1>2, <1>4, <1>5

\* Whatever the memory forgets and whatever time a caller tells, the times at which
\* an envelope opens are within twice the skew of one another (lease.mjs:407-410).
THEOREM ReplaysRecent == Spec => []ReplayIsRecent
BY MemoryInit, MemoryNext, DatedInit, DatedNext, DatedBounds, PTL DEF Spec
-----------------------------------------------------------------------------
(* The chain of epochs. *)

AnyLeaf == [kind : {"lease", "revocation", "signal"}, of : Nat]

\* The fields of an epoch.  The roots are left open: they nest as the chain grows.
IsEpoch(e) ==
    /\ e = [body |-> e.body, seal |-> e.seal]
    /\ e.body = [n |-> e.body.n, leaves |-> e.body.leaves, prevRoot |-> e.body.prevRoot,
                 prevSignature |-> e.body.prevSignature, root |-> e.body.root]
    /\ e.body.n \in 0 .. MaxEpochs
    /\ e.body.leaves \in Seq(AnyLeaf)

Chain ==
    /\ epochs \in Seq(Range(epochs))
    /\ Len(epochs) <= MaxEpochs
    /\ \A i \in DOMAIN epochs : IsEpoch(epochs[i])

\* One epoch no longer is what was sealed.
Broken == \E i \in DOMAIN epochs : epochs[i].seal # epochs[i].body

Tampering ==
    /\ altered \in BOOLEAN
    /\ ~altered => VerifyChain(epochs)
    /\ altered => Broken

Bounds == MaxEpochs \in Nat /\ MaxRevocations \in Nat /\ MaxSignals \in Nat /\ Ring \in Nat

LEMMA BoundsHold == Bounds
BY LeaseConstants, KernelConstants DEF Bounds

LEMMA AppendInDomain ==
    ASSUME NEW S, NEW s \in Seq(S), NEW x \in S
    PROVE  /\ DOMAIN Append(s, x) = 1 .. Len(s) + 1
           /\ DOMAIN s = 1 .. Len(s)
           /\ Len(s) \in Nat
           /\ \A i \in DOMAIN s : Append(s, x)[i] = s[i] /\ i \in DOMAIN Append(s, x)
           /\ Append(s, x)[Len(s) + 1] = x
           /\ Append(s, x) \in Seq(S)
OBVIOUS

\* Whether an epoch chains depends on the epochs up to it alone.
LEMMA ChainsAfterAppend ==
    ASSUME NEW S, NEW c \in Seq(S), NEW e \in S, NEW i \in DOMAIN c
    PROVE  /\ RootsChain(Append(c, e), i) <=> RootsChain(c, i)
           /\ SealsChain(Append(c, e), i) <=> SealsChain(c, i)
<1>1. Append(c, e)[i] = c[i] /\ i \in 1 .. Len(c) /\ Len(c) \in Nat
  BY AppendInDomain
<1>2. SubSeq(Append(c, e), 1, i - 1) = SubSeq(c, 1, i - 1)
  <2>1. \A j \in 1 .. i - 1 : Append(c, e)[j] = c[j] /\ c[j] \in S
    BY <1>1
  <2>2. SubSeq(c, 1, i - 1) \in Seq(S) /\ SubSeq(Append(c, e), 1, i - 1) \in Seq(S)
    BY <1>1, <2>1, SubSeqProperties
  <2>3. Len(SubSeq(c, 1, i - 1)) = i - 1 /\ Len(SubSeq(Append(c, e), 1, i - 1)) = i - 1
    BY <1>1, <2>1, SubSeqProperties
  <2>4. \A j \in 1 .. i - 1 : SubSeq(Append(c, e), 1, i - 1)[j] = SubSeq(c, 1, i - 1)[j]
    BY <1>1, <2>1, SubSeqProperties
  <2> QED BY <2>2, <2>3, <2>4, SeqEqual
<1> QED BY <1>1, <1>2 DEF RootsChain, SealsChain

\* The epoch that is sealed now chains to those before it.
LEMMA NewEpochChains ==
    ASSUME NEW S, NEW c \in Seq(S), NEW leaves, EpochAfter(c, leaves) \in S
    PROVE  LET longer == Append(c, EpochAfter(c, leaves))
           IN  RootsChain(longer, Len(c) + 1) /\ SealsChain(longer, Len(c) + 1)
<1> DEFINE e == EpochAfter(c, leaves)
           longer == Append(c, e)
<1>1. longer[Len(c) + 1] = e /\ Len(c) \in Nat
  BY AppendInDomain
<1>2. SubSeq(longer, 1, Len(c)) = c
  <2>1. \A j \in 1 .. Len(c) : longer[j] = c[j] /\ c[j] \in S
    BY AppendInDomain
  <2> HIDE DEF longer
  <2>2. /\ SubSeq(longer, 1, Len(c)) \in Seq(S)
        /\ Len(SubSeq(longer, 1, Len(c))) = Len(c)
        /\ \A j \in 1 .. Len(c) : SubSeq(longer, 1, Len(c))[j] = c[j]
    BY <1>1, <2>1, SubSeqProperties
  <2> QED BY <2>2, SeqEqual
<1>3. /\ e.body.prevRoot = PrevRoot(c)
      /\ MerkleRoot(OrPrevious(e.body.leaves, e.body.prevRoot)) = e.body.root
      /\ e.seal = e.body
      /\ e.body.prevSignature = PrevSignature(c)
  BY DEF EpochAfter
<1> HIDE DEF e, longer
<1>4. (Len(c) + 1) - 1 = Len(c)
  BY <1>1
<1> QED BY <1>1, <1>2, <1>3, <1>4 DEF RootsChain, SealsChain, e, longer

LEMMA EachIsLeaves ==
    ASSUME NEW kind \in {"lease", "revocation", "signal"}, NEW n \in Nat
    PROVE  Each(kind, n) \in Seq(AnyLeaf)
BY DEF Each, Leaf, AnyLeaf

\* A sealed epoch is of its type and chains, whatever happened to those before it.
LEMMA CloseKeepsChain ==
    ASSUME Chain, Tampering, UNCHANGED altered,
           NEW leased \in Nat, NEW revoked \in Nat, NEW extra \in Seq(AnyLeaf),
           CloseEpoch(leased, revoked, extra)
    PROVE  Chain' /\ Tampering'
<1> DEFINE leaves == Each("lease", leased) \o Each("revocation", revoked) \o extra
           e == EpochAfter(epochs, leaves)
           S == Range(epochs) \cup {e}
<1>1. /\ epochs' = Append(epochs, e)
      /\ Len(epochs) < MaxEpochs
  BY DEF CloseEpoch
<1>2. leaves \in Seq(AnyLeaf)
  <2>1. Each("lease", leased) \in Seq(AnyLeaf) /\ Each("revocation", revoked) \in Seq(AnyLeaf)
    BY EachIsLeaves
  <2>2. Each("lease", leased) \o Each("revocation", revoked) \in Seq(AnyLeaf)
    BY <2>1, ConcatProperties
  <2> QED BY <2>2, ConcatProperties
<1> HIDE DEF leaves
<1>3. epochs \in Seq(S) /\ e \in S
  BY SeqMonotonic DEF Chain
<1>4. Len(epochs) \in 0 .. MaxEpochs
  BY <1>1, <1>3, BoundsHold DEF Bounds
<1>5. IsEpoch(e)
  BY <1>2, <1>4 DEF IsEpoch, EpochAfter
<1>6. /\ \A i \in DOMAIN epochs' : i \in DOMAIN epochs \/ i = Len(epochs) + 1
      /\ \A i \in DOMAIN epochs : epochs'[i] = epochs[i] /\ i \in DOMAIN epochs'
      /\ epochs'[Len(epochs) + 1] = e
      /\ epochs' \in Seq(S)
      /\ Len(epochs') <= MaxEpochs
  <2> HIDE DEF e, S
  <2> QED BY <1>1, <1>3, <1>4, AppendInDomain, BoundsHold DEF Bounds
<1>7. Chain'
  <2>1. epochs' \in Seq(Range(epochs'))
    <3> HIDE DEF S
    <3> QED BY <1>6, SeqOfRange
  <2>2. \A i \in DOMAIN epochs' : IsEpoch(epochs'[i])
    BY <1>5, <1>6 DEF Chain
  <2> QED BY <1>6, <2>1, <2>2 DEF Chain
<1>8. Tampering'
  <2>1. CASE altered
    <3>1. PICK i \in DOMAIN epochs : epochs[i].seal # epochs[i].body
      BY <2>1 DEF Tampering, Broken
    <3>2. epochs'[i].seal # epochs'[i].body /\ i \in DOMAIN epochs'
      BY <3>1, <1>6
    <3> QED BY <3>2, <2>1 DEF Tampering, Broken
  <2>2. CASE ~altered
    <3>1. VerifyChain(epochs)
      BY <2>2 DEF Tampering
    <3>2. ASSUME NEW i \in DOMAIN epochs PROVE RootsChain(epochs', i) /\ SealsChain(epochs', i)
      <4>1. RootsChain(epochs, i) /\ SealsChain(epochs, i)
        BY <3>1 DEF VerifyChain
      <4> HIDE DEF e, S
      <4> QED BY <4>1, <1>1, <1>3, ChainsAfterAppend
    <3>3. RootsChain(epochs', Len(epochs) + 1) /\ SealsChain(epochs', Len(epochs) + 1)
      <4> HIDE DEF S
      <4> QED BY <1>1, <1>3, NewEpochChains
    <3> QED BY <3>2, <3>3, <2>2, <1>6 DEF Tampering, VerifyChain
  <2> QED BY <2>1, <2>2 DEF Tampering
<1> QED BY <1>7, <1>8

LEMMA EditedEpoch ==
    ASSUME NEW e, IsEpoch(e), NEW leaves
    PROVE  [e EXCEPT !.body = [e.body EXCEPT !.leaves = leaves]] =
               [body |-> [n |-> e.body.n, leaves |-> leaves, prevRoot |-> e.body.prevRoot,
                          prevSignature |-> e.body.prevSignature, root |-> e.body.root],
                seal |-> e.seal]
<1>1. PICK B, S : e \in [body : B, seal : S]
  <2>1. e \in [body : {e.body}, seal : {e.seal}]
    BY DEF IsEpoch
  <2> QED BY <2>1
<1>2. PICK N, L, P, Q, R : e.body \in [n : N, leaves : L, prevRoot : P, prevSignature : Q, root : R]
  <2>1. e.body \in [n : {e.body.n}, leaves : {e.body.leaves}, prevRoot : {e.body.prevRoot},
                    prevSignature : {e.body.prevSignature}, root : {e.body.root}]
    BY DEF IsEpoch
  <2> QED BY <2>1
<1>3. PICK b \in [n : N, leaves : L, prevRoot : P, prevSignature : Q, root : R] : b = e.body
  BY <1>2
<1>4. [b EXCEPT !.leaves = leaves] =
          [n |-> b.n, leaves |-> leaves, prevRoot |-> b.prevRoot,
           prevSignature |-> b.prevSignature, root |-> b.root]
  OBVIOUS
<1>5. \A c : [e EXCEPT !.body = c] = [body |-> c, seal |-> e.seal]
  BY <1>1
<1> QED BY <1>3, <1>4, <1>5, Zenon

\* What is altered differs from its seal, although its root may be the same.
LEMMA AlterBreaks ==
    ASSUME Chain, Tampering, NEW k, Alter(k)
    PROVE  Chain' /\ Tampering'
<1> DEFINE old == epochs[k].body
           leaves == Append(old.leaves, Last(old.leaves))
           new == [epochs[k] EXCEPT !.body = [old EXCEPT !.leaves = leaves]]
           S == Range(epochs) \cup {new}
<1>1. /\ ~altered /\ altered'
      /\ k \in DOMAIN epochs
      /\ old.leaves # << >>
      /\ epochs' = [epochs EXCEPT ![k] = new]
  BY DEF Alter
<1>2. IsEpoch(epochs[k])
  BY <1>1 DEF Chain
<1>3. /\ leaves \in Seq(AnyLeaf)
      /\ leaves # old.leaves
  <2>1. old.leaves \in Seq(AnyLeaf) /\ Len(old.leaves) \in Nat \ {0}
    BY <1>1, <1>2, EmptySeq DEF IsEpoch
  <2>2. Last(old.leaves) \in AnyLeaf
    BY <2>1, ElementOfSeq DEF Last
  <2>3. Len(leaves) = Len(old.leaves) + 1
    BY <2>1, <2>2, AppendProperties
  <2> QED BY <2>1, <2>2, <2>3, AppendProperties
<1>4. new = [body |-> [n |-> old.n, leaves |-> leaves, prevRoot |-> old.prevRoot,
                       prevSignature |-> old.prevSignature, root |-> old.root],
             seal |-> epochs[k].seal]
  <2> HIDE DEF leaves
  <2> QED BY <1>2, EditedEpoch
<1> HIDE DEF new, leaves
<1>5. /\ IsEpoch(new)
      /\ new.body # old
  BY <1>2, <1>3, <1>4 DEF IsEpoch
<1>6. epochs \in Seq(S) /\ new \in S /\ k \in 1 .. Len(epochs)
  BY <1>1, SeqMonotonic, LenProperties DEF Chain
<1>7. /\ epochs' \in Seq(S) /\ Len(epochs') = Len(epochs)
      /\ DOMAIN epochs' = DOMAIN epochs
      /\ \A i \in DOMAIN epochs : epochs'[i] = IF i = k THEN new ELSE epochs[i]
  <2> HIDE DEF S, new
  <2> QED BY <1>1, <1>6, ExceptSeq, LenProperties
<1>8. Chain'
  <2>1. epochs' \in Seq(Range(epochs'))
    <3> HIDE DEF S
    <3> QED BY <1>7, SeqOfRange
  <2> QED BY <2>1, <1>5, <1>7 DEF Chain
<1>9. Broken'
  <2>1. epochs[k].seal = old
    <3>1. SealsChain(epochs, k)
      BY <1>1 DEF Tampering, VerifyChain
    <3> QED BY <3>1 DEF SealsChain
  <2>2. epochs'[k].seal = old /\ epochs'[k].body # old
    <3> HIDE DEF new
    <3> QED BY <2>1, <1>1, <1>4, <1>5, <1>7
  <2> QED BY <2>2, <1>1, <1>7 DEF Broken
<1> QED BY <1>1, <1>8, <1>9 DEF Tampering

-----------------------------------------------------------------------------
(* Types. *)

SignalLeaves == \A queue : queue \in Seq(1 .. MaxSignals) => Signals(queue) \in Seq(AnyLeaf)

LEMMA SignalsAreLeaves == SignalLeaves
<1> SUFFICES ASSUME NEW queue \in Seq(1 .. MaxSignals) PROVE Signals(queue) \in Seq(AnyLeaf)
  BY DEF SignalLeaves
<1>1. DOMAIN queue = 1 .. Len(queue) /\ Len(queue) \in Nat
  OBVIOUS
<1>2. \A i \in 1 .. Len(queue) : queue[i] \in Nat
  BY BoundsHold DEF Bounds
<1>3. \A i \in 1 .. Len(queue) : Leaf("signal", queue[i]) \in AnyLeaf
  BY <1>2 DEF Leaf, AnyLeaf
<1>4. Signals(queue) = [i \in 1 .. Len(queue) |-> Leaf("signal", queue[i])]
  BY <1>1 DEF Signals
<1> QED BY <1>1, <1>3, <1>4, IsASeq

\* The types of all but the epochs.
SwitchOK ==
    /\ {isolated, gateway, alarm} \subseteq BOOLEAN
    /\ leases \in Seq(Leases)
    /\ revocations \in 0 .. MaxRevocations
    /\ last \in Verdicts
EnvelopesOK ==
    /\ nonces \subseteq {NonceOf[e] : e \in Envelopes}
    /\ stamp \in [Envelopes -> Times \cup {Unset}]
    /\ clock \in Times
    /\ life \in 0 .. MaxLives
    /\ openings \in Seq([of : Envelopes, at : Times, life : 0 .. MaxLives])
BusOK ==
    /\ buffer \in Seq(1 .. MaxSignals)
    /\ Len(buffer) <= Ring
    /\ accepted \in 0 .. MaxSignals

MemoryOK == Chain /\ Tampering /\ SwitchOK /\ EnvelopesOK /\ BusOK

LEMMA MemoryTypes == MemoryOK => TypeOK
<1> SUFFICES ASSUME MemoryOK PROVE TypeOK
  OBVIOUS
<1>1. ASSUME NEW i \in DOMAIN epochs PROVE EpochOK(epochs[i])
  <2>1. IsEpoch(epochs[i])
    BY DEF MemoryOK, Chain
  <2>2. epochs[i].body.leaves \in Seq(AnyLeaf)
    BY <2>1 DEF IsEpoch
  <2>3. \A j \in DOMAIN epochs[i].body.leaves : epochs[i].body.leaves[j] \in AnyLeaf
    BY <2>2
  <2> QED BY <2>1, <2>3 DEF IsEpoch, EpochOK, AnyLeaf
<1> QED BY <1>1 DEF TypeOK, MemoryOK, Tampering, SwitchOK, EnvelopesOK, BusOK

LEMMA EmptyIsAChain ==
    /\ << >> \in Seq(Range(<< >>))
    /\ Len(<< >>) <= MaxEpochs
    /\ DOMAIN << >> = {}
<1>1. Len(<< >>) = 0 /\ DOMAIN << >> = {}
  OBVIOUS
<1> QED BY <1>1, EmptySeq, BoundsHold DEF Bounds

LEMMA NoEpochs == ASSUME epochs = << >>, altered = FALSE PROVE Chain /\ Tampering
BY EmptyIsAChain DEF Chain, Tampering, VerifyChain

LEMMA NoEpochsLeft == ASSUME epochs' = << >>, altered' = FALSE PROVE Chain' /\ Tampering'
BY EmptyIsAChain DEF Chain, Tampering, VerifyChain

LEMMA InitMemoryOK == Init => MemoryOK
<1> SUFFICES ASSUME Init PROVE MemoryOK
  OBVIOUS
<1>1. Chain /\ Tampering
  BY NoEpochs DEF Init, EmptyLease
<1>2. SwitchOK /\ BusOK
  <2>1. {isolated, gateway, alarm} \subseteq BOOLEAN
    BY DEF Init, EmptyLease
  <2>2. leases \in Seq(Leases) /\ buffer \in Seq(1 .. MaxSignals) /\ Len(buffer) = 0
    BY EmptySeq DEF Init, EmptyLease
  <2>3. revocations \in 0 .. MaxRevocations /\ accepted \in 0 .. MaxSignals /\ Len(buffer) <= Ring
    BY <2>2, BoundsHold DEF Bounds, Init, EmptyLease
  <2>4. last \in Verdicts
    BY DEF Init, Verdicts
  <2> QED BY <2>1, <2>2, <2>3, <2>4 DEF SwitchOK, BusOK
<1>3. EnvelopesOK
  BY LeaseConstants, KernelConstants DEF Init, EmptyLease, EnvelopesOK, Times
<1> QED BY <1>1, <1>2, <1>3 DEF MemoryOK

LEMMA AcceptTypes ==
    ASSUME BusOK, Accept PROVE BusOK'
<1> DEFINE queue == Append(buffer, accepted + 1)
<1>1. accepted + 1 \in 1 .. MaxSignals /\ accepted' = accepted + 1
  BY BoundsHold DEF Bounds, BusOK, Accept
<1>2. /\ queue \in Seq(1 .. MaxSignals) /\ Len(queue) = Len(buffer) + 1 /\ queue # << >>
      /\ Len(buffer) \in 0 .. Ring
  BY <1>1, KernelConstants DEF BusOK
<1>3. buffer' = IF Len(queue) > Ring THEN Tail(queue) ELSE queue
  BY DEF Accept, Queued
<1> HIDE DEF queue
<1>4. buffer' \in Seq(1 .. MaxSignals) /\ Len(buffer') <= Ring
  <2>1. Ring \in Nat
    BY BoundsHold DEF Bounds
  <2>2. CASE Len(queue) > Ring
    <3>1. Tail(queue) \in Seq(1 .. MaxSignals) /\ Len(Tail(queue)) = Len(queue) - 1
      BY <1>2, HeadTailProperties
    <3> QED BY <2>1, <2>2, <3>1, <1>2, <1>3
  <2>3. CASE Len(queue) <= Ring
    BY <2>1, <2>3, <1>2, <1>3
  <2> QED BY <2>1, <2>2, <2>3, <1>2
<1> QED BY <1>1, <1>4 DEF BusOK

LEMMA ChainUnchanged ==
    ASSUME Chain, Tampering, UNCHANGED <<epochs, altered>> PROVE Chain' /\ Tampering'
BY DEF Chain, Tampering, Broken, VerifyChain, RootsChain, SealsChain

LEMMA WatchdogTypes ==
    ASSUME SwitchOK, NEW measured, NEW corrupt, Watchdog(measured, corrupt), Alarms,
           UNCHANGED leases, gateway' \in {gateway, ~isolated'}, last' = "other"
    PROVE  SwitchOK' /\ revocations' \in Nat
<1>1. revocations' \in 0 .. MaxRevocations /\ isolated' \in BOOLEAN
  <2>1. CASE Isolate
    <3>1. revocations' \in 0 .. MaxRevocations
      BY <2>1, BoundsHold DEF Bounds, Isolate, SwitchOK
    <3>2. isolated' \in BOOLEAN
      BY <2>1 DEF Isolate
    <3> QED BY <3>1, <3>2
  <2>2. CASE UNCHANGED <<isolated, revocations>>
    BY <2>2 DEF SwitchOK
  <2> QED BY <2>1, <2>2 DEF Watchdog
<1>2. alarm' \in BOOLEAN
  <2>1. (alarm \/ revocations' > revocations) \in BOOLEAN
    OBVIOUS
  <2> QED BY <2>1, Zenon DEF Alarms
<1>3. gateway' \in BOOLEAN
  BY <1>1, Zenon DEF SwitchOK
<1>4. revocations' \in Nat
  BY <1>1, BoundsHold DEF Bounds
<1>5. {isolated, gateway, alarm}' \subseteq BOOLEAN
  BY <1>1, <1>2, <1>3, Zenon
<1> QED BY <1>1, <1>4, <1>5 DEF SwitchOK, Verdicts

LEMMA PulseKeeps ==
    ASSUME MemoryOK, NEW keyed \in BOOLEAN, Pulse(keyed) PROVE MemoryOK'
<1>1. BusOK'
  BY AcceptTypes DEF MemoryOK, Pulse
<1>2. SwitchOK' /\ revocations' \in Nat
  BY WatchdogTypes DEF MemoryOK, Pulse
<1>3. EnvelopesOK'
  BY DEF MemoryOK, EnvelopesOK, Pulse
<1>4. Chain' /\ Tampering'
  <2>1. CASE keyed
    <3>1. Len(leases) \in Nat
      BY DEF MemoryOK, SwitchOK
    <3>2. Signals(buffer') \in Seq(AnyLeaf)
      BY <1>1, SignalsAreLeaves DEF SignalLeaves, BusOK
    <3>3. CloseEpoch(Len(leases), revocations', Signals(buffer')) /\ UNCHANGED altered
      BY <2>1 DEF Pulse
    <3> QED BY <3>1, <3>2, <3>3, <1>2, CloseKeepsChain DEF MemoryOK
  <2>2. CASE ~keyed
    BY <2>2, ChainUnchanged DEF MemoryOK, Pulse
  <2> QED BY <2>1, <2>2
<1> QED BY <1>1, <1>2, <1>3, <1>4 DEF MemoryOK

LEMMA HandshakeKeeps ==
    ASSUME MemoryOK, NEW e \in Envelopes, NEW now \in Times, NEW meant, NEW carries,
           Handshake(e, now, meant, carries)
    PROVE  MemoryOK'
<1>1. BusOK'
  <2>1. CASE Accept
    BY <2>1, AcceptTypes DEF MemoryOK
  <2>2. CASE UNCHANGED <<buffer, accepted>>
    BY <2>2 DEF MemoryOK, BusOK
  <2> QED BY <2>1, <2>2 DEF Handshake
<1>2. SwitchOK'
  BY DEF MemoryOK, SwitchOK, Handshake, Verdicts
<1>3. EnvelopesOK'
  <2>1. [of |-> e, at |-> now, life |-> life]
            \in [of : Envelopes, at : Times, life : 0 .. MaxLives]
    BY DEF MemoryOK, EnvelopesOK
  <2>2. openings' \in Seq([of : Envelopes, at : Times, life : 0 .. MaxLives])
    BY <2>1, AppendProperties DEF MemoryOK, EnvelopesOK, Handshake, Spend
  <2> QED BY <2>2 DEF MemoryOK, EnvelopesOK, Handshake, Spend
<1>4. Chain' /\ Tampering'
  BY ChainUnchanged DEF MemoryOK, Handshake
<1> QED BY <1>1, <1>2, <1>3, <1>4 DEF MemoryOK

LEMMA ForgetKeeps ==
    ASSUME MemoryOK, Forget, last' \in Verdicts PROVE MemoryOK'
<1>1. Chain' /\ Tampering'
  BY NoEpochsLeft DEF Forget, ResetLease
<1>2. SwitchOK' /\ BusOK'
  <2>1. {isolated, gateway, alarm}' \subseteq BOOLEAN
    BY DEF Forget, ResetLease
  <2>2. leases' \in Seq(Leases) /\ buffer' \in Seq(1 .. MaxSignals) /\ Len(buffer') = 0
    BY EmptySeq DEF Forget, ResetLease
  <2>3. revocations' \in 0 .. MaxRevocations /\ accepted' \in 0 .. MaxSignals /\ Len(buffer') <= Ring
    BY <2>2, BoundsHold DEF Bounds, Forget, ResetLease
  <2> QED BY <2>1, <2>2, <2>3 DEF SwitchOK, BusOK
<1>3. EnvelopesOK'
  BY LeaseConstants, KernelConstants DEF MemoryOK, Forget, ResetLease, EnvelopesOK
<1> QED BY <1>1, <1>2, <1>3 DEF MemoryOK

LEMMA NextMemoryOK == ASSUME MemoryOK, [Next]_vars PROVE MemoryOK'
<1> USE DEF Verdicts
<1>1. CASE UNCHANGED vars
  BY <1>1, ChainUnchanged DEF vars, MemoryOK, SwitchOK, EnvelopesOK, BusOK
<1>2. CASE Inbound
  <2>1. BusOK'
    BY <1>2, AcceptTypes DEF Inbound, MemoryOK, BusOK
  <2> QED BY <1>2, <2>1, ChainUnchanged DEF Inbound, MemoryOK, SwitchOK, EnvelopesOK
<1>3. ASSUME NEW e \in Envelopes, NEW ts \in Times, WrapEnvelope(e, ts) PROVE MemoryOK'
  BY <1>3, ChainUnchanged DEF WrapEnvelope, Wrap, MemoryOK, SwitchOK, EnvelopesOK, BusOK
<1>4. ASSUME NEW l \in Leases, Prove(l) PROVE MemoryOK'
  BY <1>4, ChainUnchanged DEF Prove, ProveLease, MemoryOK, SwitchOK, EnvelopesOK, BusOK
<1>5. CASE Seal
  <2>1. Chain' /\ Tampering'
    <3>1. Len(leases) \in Nat /\ revocations' \in Nat /\ << >> \in Seq(AnyLeaf)
      BY <1>5, BoundsHold DEF Bounds, Seal, MemoryOK, SwitchOK
    <3>2. CloseEpoch(Len(leases), revocations', << >>) /\ UNCHANGED altered
      BY <1>5 DEF Seal
    <3> QED BY <3>1, <3>2, CloseKeepsChain DEF MemoryOK
  <2> QED BY <1>5, <2>1 DEF Seal, MemoryOK, SwitchOK, EnvelopesOK, BusOK
<1>6. ASSUME NEW measured \in Losses, NEW corrupt \in BOOLEAN, Watch(measured, corrupt)
      PROVE  MemoryOK'
  <2>1. SwitchOK'
    BY <1>6, WatchdogTypes DEF Watch, MemoryOK
  <2> QED BY <1>6, <2>1, ChainUnchanged DEF Watch, MemoryOK, EnvelopesOK, BusOK
<1>7. CASE Lift
  BY <1>7, ChainUnchanged DEF Lift, ResetIsolation, MemoryOK, SwitchOK, EnvelopesOK, BusOK
<1>8. ASSUME NEW signed \in BOOLEAN, NEW fiber \in BOOLEAN, OpticalCanal(signed, fiber)
      PROVE  MemoryOK'
  BY <1>8, ChainUnchanged DEF OpticalCanal, MemoryOK, SwitchOK, EnvelopesOK, BusOK
<1>9. CASE PulseRefused \/ \E e \in Envelopes, now \in Times, claims \in BOOLEAN :
                             HandshakeRefused(e, now, claims)
  BY <1>9, ChainUnchanged
  DEF PulseRefused, HandshakeRefused, MemoryOK, SwitchOK, EnvelopesOK, BusOK
<1>10. CASE Tick
  <2>1. clock' \in Times
    BY <1>10, LeaseConstants DEF Tick, Times, MemoryOK, EnvelopesOK
  <2> QED BY <1>10, <2>1, ChainUnchanged DEF Tick, MemoryOK, SwitchOK, EnvelopesOK, BusOK
<1>11. ASSUME NEW k \in 1 .. MaxEpochs, Alter(k) PROVE MemoryOK'
  <2>1. Chain' /\ Tampering'
    BY <1>11, AlterBreaks DEF MemoryOK
  <2> QED BY <1>11, <2>1 DEF Alter, MemoryOK, SwitchOK, EnvelopesOK, BusOK
<1>12. CASE Heal \/ Restart
  BY <1>12, ForgetKeeps DEF Heal, Restart
<1> QED
  BY <1>1, <1>2, <1>3, <1>4, <1>5, <1>6, <1>7, <1>8, <1>9, <1>10, <1>11, <1>12,
     PulseKeeps, HandshakeKeeps
  DEF Next, Call

\* Every call leaves each part of the memory of its type, the epochs' leaves and the
\* inbound buffer within its RING included.
THEOREM KernelTypeCorrect == Spec => []TypeOK
BY InitMemoryOK, NextMemoryOK, MemoryTypes, PTL DEF Spec

LEMMA BrokenIsSeen == Tampering => TamperingIsSeen
<1> SUFFICES ASSUME altered, Tampering PROVE ~VerifyChain(epochs)
  BY DEF Tampering, TamperingIsSeen
<1>1. PICK i \in DOMAIN epochs : epochs[i].seal # epochs[i].body
  BY DEF Tampering, Broken
<1>2. ~SealsChain(epochs, i)
  BY <1>1 DEF SealsChain
<1> QED BY <1>2 DEF VerifyChain

\* The chain verifies exactly as long as no sealed epoch was altered, although an
\* alteration may leave its Merkle root as it is (lease.mjs, verifyChain).
THEOREM TamperingSeen == Spec => []TamperingIsSeen
<1>1. MemoryOK => TamperingIsSeen
  BY BrokenIsSeen DEF MemoryOK
<1> QED BY <1>1, InitMemoryOK, NextMemoryOK, PTL DEF Spec

-----------------------------------------------------------------------------
(* The swarm's cognition (cognition.mjs).                                   *)

Filings == [from : Thinkers, tour : {"independent", "confrontation", "revision"},
            position : Positions]
Entries == [at : Places, status : Statuses,
            disagreement : SUBSET (Positions \cup Thinkers), origin : Nat,
            explicit : BOOLEAN, direct : BOOLEAN]

LEMMA Least == ASSUME NEW T, T \subseteq Nat, T # {} PROVE \E x \in T : \A y \in T : x <= y
<1> DEFINE R == OpToRel(<, Nat)
<1>1. IsWellFoundedOn(R, Nat)
  BY NatLessThanWellFounded
<1>2. \A x, y \in Nat : y < x => <<y, x>> \in R
  BY DEF OpToRel
<1> HIDE DEF R
<1>3. PICK x \in T : \A y \in T : ~ (<<y, x>> \in R)
  BY <1>1, WFMin
<1>4. \A y \in T : ~(y < x)
  BY <1>2, <1>3
<1> QED BY <1>4

-----------------------------------------------------------------------------
(* The count.                                                               *)

\* The verdict depends on the independent filings alone.
LEMMA SameVerdict ==
    ASSUME NEW fs, NEW gs, Independents(fs) = Independents(gs),
           \A i \in Independents(fs) : fs[i].position = gs[i].position
    PROVE  Rows(fs) = Rows(gs) /\ Verdict(fs) = Verdict(gs)
<1>1. Rows(fs) = Rows(gs)
  BY DEF Rows
<1>2. \A p : Who(fs, p) = Who(gs, p)
  BY DEF Who
<1>3. \A p, q : Leads(fs, p, q) <=> Leads(gs, p, q)
  <2> SUFFICES ASSUME NEW p, NEW q PROVE Leads(fs, p, q) <=> Leads(gs, p, q)
    OBVIOUS
  <2>1. Who(fs, p) = Who(gs, p) /\ Who(fs, q) = Who(gs, q)
    BY <1>2
  <2> QED BY <2>1 DEF Leads
<1>4. {p \in Rows(fs) : \A q \in Rows(fs) : Leads(fs, p, q)}
        = {p \in Rows(gs) : \A q \in Rows(gs) : Leads(gs, p, q)}
  BY <1>1, <1>3
<1> QED BY <1>1, <1>4, Zenon DEF Verdict

\* Of two rows one does not lead: a tie goes to the row whose first filing is earlier,
\* and no filing is of two rows.
LEMMA NoTwoLead ==
    ASSUME NEW fs \in Seq(Filings), NEW p \in Rows(fs), NEW q \in Rows(fs),
           Leads(fs, p, q), Leads(fs, q, p)
    PROVE  p = q
<1>1. Len(fs) \in Nat /\ DOMAIN fs = 1 .. Len(fs)
  BY LenProperties
<1>2. ASSUME NEW r \in Rows(fs)
      PROVE  Cardinality(Who(fs, r)) \in Nat /\ Min(Who(fs, r)) \in Who(fs, r)
             /\ Min(Who(fs, r)) \in Nat
  <2>1. Who(fs, r) \in SUBSET (1 .. Len(fs)) /\ Who(fs, r) # {}
    BY <1>1 DEF Who, Rows, Independents
  <2>2. IsFiniteSet(1 .. Len(fs))
    BY <1>1, FS_Interval
  <2>3. Who(fs, r) \subseteq Nat
    BY <2>1
  <2> DEFINE who == Who(fs, r)
  <2> HIDE DEF who
  <2>4. Cardinality(who) \in Nat
    BY <2>1, <2>2, FS_Subset, FS_CardinalityType DEF who
  <2>5. PICK i \in who : \A j \in who : i <= j
    BY <2>1, <2>3, Least DEF who
  <2>6. Min(who) \in who
    BY <2>5 DEF Min
  <2> QED BY <2>3, <2>4, <2>6 DEF who
<1>3. Min(Who(fs, p)) = Min(Who(fs, q))
  BY <1>2 DEF Leads
<1>4. Min(Who(fs, p)) \in Who(fs, p) \cap Who(fs, q)
  BY <1>2, <1>3
<1> QED BY <1>4 DEF Who

\* A disputed verdict has a minority.
LEMMA DisputeHasMinority ==
    ASSUME NEW fs \in Seq(Filings), Verdict(fs).status = "disputed"
    PROVE  Verdict(fs).minority # {}
<1> DEFINE leading == {p \in Rows(fs) : \A q \in Rows(fs) : Leads(fs, p, q)}
<1>1. Verdict(fs).status = Status(Rows(fs)) /\ Verdict(fs).minority = Rows(fs) \ leading
  BY DEF Verdict
<1>2. Rows(fs) # {} /\ Cardinality(Rows(fs)) # 1
  BY <1>1 DEF Status
<1>3. PICK p \in Rows(fs) : TRUE
  BY <1>2
<1>4. PICK q \in Rows(fs) : q # p
  <2>1. Rows(fs) # {p}
    BY <1>2, FS_Singleton
  <2> QED BY <1>3, <2>1
<1>5. ~(p \in leading /\ q \in leading)
  BY <1>4, NoTwoLead
<1> QED BY <1>1, <1>4, <1>5

LEMMA VerdictTypes ==
    ASSUME NEW fs \in Seq(Filings)
    PROVE  /\ Verdict(fs).status \in {"unresolved", "consensus", "disputed"}
           /\ Verdict(fs).minority \subseteq Positions
           /\ Verdict(fs).status = "consensus" => Cardinality(Rows(fs)) = 1
<1>1. Verdict(fs).status = Status(Rows(fs)) /\ Verdict(fs).minority \subseteq Rows(fs)
  BY DEF Verdict
<1>2. \A i \in DOMAIN fs : fs[i] \in Filings
  BY LenProperties, ElementOfSeq
<1>3. Rows(fs) \subseteq Positions
  BY <1>2 DEF Rows, Independents, Filings
<1> QED BY <1>1, <1>3 DEF Status

\* What is filed after the independent round, in any number, is not counted.
Talked(fs, gs) ==
    /\ DOMAIN fs \subseteq DOMAIN gs
    /\ \A i \in DOMAIN fs : gs[i] = fs[i]
    /\ \A i \in DOMAIN gs \ DOMAIN fs : gs[i].tour # "independent"

LEMMA TalkIsNotCounted ==
    ASSUME NEW fs, NEW gs, Talked(fs, gs)
    PROVE  /\ Independents(fs) = Independents(gs)
           /\ Rows(fs) = Rows(gs) /\ Verdict(fs) = Verdict(gs)
<1>1. Independents(fs) = Independents(gs)
  BY DEF Talked, Independents
<1>2. \A i \in Independents(fs) : fs[i].position = gs[i].position
  BY DEF Talked, Independents
<1> QED BY <1>1, <1>2, SameVerdict

LEMMA AppendTalks ==
    ASSUME NEW fs \in Seq(Filings), NEW c \in Filings, c.tour # "independent"
    PROVE  Talked(fs, Append(fs, c)) /\ Append(fs, c) \in Seq(Filings)
BY DEF Talked

LEMMA RoundTypes ==
    ASSUME NEW fs \in Seq(Filings), NEW filers \in Lineups,
           NEW positions \in [DOMAIN filers -> Positions], NEW t \in {"independent", "revision"}
    PROVE  /\ fs \o Round(t, filers, positions) \in Seq(Filings)
           /\ Len(fs) \in Nat /\ DOMAIN fs = 1 .. Len(fs)
           /\ \A i \in 1 .. Len(fs) : (fs \o Round(t, filers, positions))[i] = fs[i]
           /\ \E n \in Nat :
                  /\ DOMAIN filers = 1 .. n
                  /\ DOMAIN (fs \o Round(t, filers, positions)) = 1 .. Len(fs) + n
                  /\ \A k \in 1 .. n :
                         (fs \o Round(t, filers, positions))[Len(fs) + k]
                             = Filing(filers[k], t, positions[k])
<1>1. PICK n \in 0 .. Len(Roster) : filers \in [1 .. n -> Thinkers]
  BY DEF Lineups
<1>2. n \in Nat /\ DOMAIN filers = 1 .. n
  BY <1>1, RosterAssumption, LenProperties
<1> DEFINE round == Round(t, filers, positions)
<1>3. round = [k \in 1 .. n |-> Filing(filers[k], t, positions[k])]
  BY <1>2 DEF Round
<1>4. \A k \in 1 .. n : Filing(filers[k], t, positions[k]) \in Filings
  BY <1>1, <1>2 DEF Filing, Filings
<1> HIDE DEF round
<1>5. round \in Seq(Filings) /\ Len(round) = n
  BY <1>2, <1>3, <1>4
<1>6. Len(fs) \in Nat /\ DOMAIN fs = 1 .. Len(fs)
  BY LenProperties
<1>7. /\ fs \o round \in Seq(Filings)
      /\ Len(fs \o round) = Len(fs) + n
      /\ \A i \in 1 .. Len(fs) + n :
             (fs \o round)[i] = IF i <= Len(fs) THEN fs[i] ELSE round[i - Len(fs)]
  BY <1>5, ConcatProperties
<1>8. DOMAIN (fs \o round) = 1 .. Len(fs) + n
  BY <1>7, LenProperties
<1>9. \A i \in 1 .. Len(fs) : (fs \o round)[i] = fs[i]
  BY <1>2, <1>6, <1>7
<1>10. \A k \in 1 .. n : (fs \o round)[Len(fs) + k] = Filing(filers[k], t, positions[k])
  <2> SUFFICES ASSUME NEW k \in 1 .. n
               PROVE  (fs \o round)[Len(fs) + k] = Filing(filers[k], t, positions[k])
    OBVIOUS
  <2>1. /\ Len(fs) + k \in 1 .. Len(fs) + n /\ ~(Len(fs) + k <= Len(fs))
        /\ (Len(fs) + k) - Len(fs) = k
    BY <1>2, <1>6
  <2> QED BY <1>3, <1>7, <2>1
<1> QED BY <1>2, <1>6, <1>7, <1>8, <1>9, <1>10 DEF round

LEMMA LineupIsOfDifferent ==
    ASSUME NEW filers \in Lineups, NEW j \in DOMAIN filers, NEW k \in DOMAIN filers, j < k
    PROVE  filers[j] # filers[k]
<1>1. Precedes(filers[j], filers[k])
  BY DEF Lineups
<1>2. PICK m, n \in DOMAIN Roster : m < n /\ Roster[m] = filers[j] /\ Roster[n] = filers[k]
  BY <1>1 DEF Precedes
<1>3. m # n
  <2>1. DOMAIN Roster = 1 .. Len(Roster) /\ Len(Roster) \in Nat
    BY RosterAssumption, LenProperties
  <2> QED BY <1>2, <2>1
<1> QED BY <1>2, <1>3, RosterAssumption

-----------------------------------------------------------------------------
(* The session.  What makes the count settle is that the round closes for   *)
(* good before anything else is filed or synthesised.                       *)

SessionTypes ==
    /\ place \in Places \cup {Nowhere}
    /\ tour \in Tours
    /\ open \in BOOLEAN
    /\ filings \in Seq(Filings)
    /\ \E S : syntheses \in Seq(S)

RoundIsFirst ==
    /\ place = Nowhere => ~open /\ filings = <<>> /\ syntheses = <<>>
    /\ open => /\ syntheses = <<>>
               /\ \A i \in DOMAIN filings : filings[i].tour = "independent"

EntryTypes ==
    /\ MEMORY \in Seq(Entries)
    /\ \A i \in DOMAIN MEMORY : MEMORY[i].origin <= i - 1

DissentKept ==
    \A i \in DOMAIN MEMORY :
        /\ MEMORY[i].origin # 0 =>
               MEMORY[MEMORY[i].origin].disagreement \subseteq MEMORY[i].disagreement
        /\ MEMORY[i].status = "disputed" /\ ~MEMORY[i].direct => MEMORY[i].disagreement # {}

ConsensusInv ==
    \A i \in DOMAIN MEMORY : MEMORY[i].status = "consensus" =>
        /\ MEMORY[i].origin = 0
        /\ \/ MEMORY[i].direct
           \/ MEMORY[i].at = place /\ Cardinality(Rows(filings)) = 1 /\ ~open

SessionInv == SessionTypes /\ RoundIsFirst /\ IndependentFirst /\ VerdictIsSettled
MemoryInv == EntryTypes /\ DissentKept
CogInv == SessionInv /\ MemoryInv /\ ConsensusInv

\* What is said once the round is closed leaves the count and the memory's claims alone.
LEMMA TalkKeeps ==
    ASSUME CogInv, SessionTypes', UNCHANGED <<place, syntheses>>, ~open', place # Nowhere,
           Talked(filings, filings')
    PROVE  /\ SessionInv' /\ Rows(filings') = Rows(filings)
           /\ UNCHANGED MEMORY => CogInv'
<1>1. Verdict(filings') = Verdict(filings) /\ Rows(filings') = Rows(filings)
  BY TalkIsNotCounted
<1>2. RoundIsFirst' /\ VerdictIsSettled'
  BY <1>1 DEF RoundIsFirst, VerdictIsSettled, CogInv, SessionInv
<1>3. /\ DOMAIN filings \subseteq DOMAIN filings' /\ DOMAIN filings = 1 .. Len(filings)
      /\ \A i \in DOMAIN filings : filings'[i] = filings[i]
      /\ \A i \in DOMAIN filings' \ DOMAIN filings : filings'[i].tour # "independent"
      /\ Len(filings) \in Nat
  BY LenProperties DEF Talked, CogInv, SessionInv, SessionTypes
<1>4. IndependentFirst'
  <2> SUFFICES ASSUME NEW j \in DOMAIN filings', filings'[j].tour = "independent",
                      NEW i \in 1 .. j - 1
               PROVE  /\ filings'[i].tour = "independent" /\ filings'[i].from # filings'[j].from
    BY DEF IndependentFirst
  <2>1. j \in DOMAIN filings
    BY <1>3
  <2>2. i \in DOMAIN filings
    BY <1>3, <2>1
  <2> QED BY <1>3, <2>1, <2>2 DEF CogInv, SessionInv, IndependentFirst
<1>5. SessionInv'
  BY <1>2, <1>4 DEF SessionInv
<1>6. UNCHANGED MEMORY => MemoryInv' /\ ConsensusInv'
  BY <1>1 DEF CogInv, MemoryInv, EntryTypes, DissentKept, ConsensusInv
<1> QED BY <1>1, <1>5, <1>6 DEF CogInv

\* One more entry.
LEMMA EntryKept ==
    ASSUME MemoryInv, NEW entry \in Entries, MEMORY' = Append(MEMORY, entry),
           \/ entry.origin = 0
           \/ /\ entry.origin \in DOMAIN MEMORY
              /\ MEMORY[entry.origin].disagreement \subseteq entry.disagreement,
           entry.status = "disputed" /\ ~entry.direct => entry.disagreement # {}
    PROVE  /\ MemoryInv'
           /\ \A i \in DOMAIN MEMORY' : \/ i \in DOMAIN MEMORY /\ MEMORY'[i] = MEMORY[i]
                                        \/ MEMORY'[i] = entry
<1> DEFINE n == Len(MEMORY)
<1>1. MEMORY \in Seq(Entries) /\ n \in Nat /\ DOMAIN MEMORY = 1 .. n
  BY LenProperties DEF MemoryInv, EntryTypes
<1>2. /\ MEMORY' \in Seq(Entries) /\ DOMAIN MEMORY' = 1 .. n + 1
      /\ \A i \in 1 .. n : MEMORY'[i] = MEMORY[i]
      /\ MEMORY'[n + 1] = entry
  BY <1>1
<1>3. \A i \in 1 .. n : MEMORY[i] \in Entries
  BY <1>1, ElementOfSeq
<1> HIDE DEF n
<1>4. \A i \in 1 .. n + 1 : i \in 1 .. n \/ i = n + 1
  BY <1>1
<1>5. EntryTypes'
  <2>1. \A i \in 1 .. n : MEMORY[i].origin <= i - 1
    BY <1>1 DEF MemoryInv, EntryTypes
  <2>2. entry.origin <= (n + 1) - 1
    BY <1>1 DEF Entries
  <2> QED BY <1>1, <1>2, <1>4, <2>1, <2>2 DEF EntryTypes
<1>6. DissentKept'
  <2> SUFFICES ASSUME NEW i \in 1 .. n + 1
               PROVE  /\ MEMORY'[i].origin # 0 =>
                             MEMORY'[MEMORY'[i].origin].disagreement \subseteq MEMORY'[i].disagreement
                      /\ MEMORY'[i].status = "disputed" /\ ~MEMORY'[i].direct =>
                             MEMORY'[i].disagreement # {}
    BY <1>2 DEF DissentKept
  <2>1. CASE i = n + 1
    BY <1>1, <1>2, <2>1
  <2>2. CASE i \in 1 .. n
    <3>1. /\ MEMORY[i].origin # 0 =>
                 MEMORY[MEMORY[i].origin].disagreement \subseteq MEMORY[i].disagreement
          /\ MEMORY[i].status = "disputed" /\ ~MEMORY[i].direct => MEMORY[i].disagreement # {}
          /\ MEMORY[i].origin <= i - 1 /\ MEMORY[i].origin \in Nat
      BY <1>1, <1>3, <2>2 DEF MemoryInv, EntryTypes, DissentKept, Entries
    <3>2. MEMORY[i].origin # 0 => MEMORY[i].origin \in 1 .. n
      BY <1>1, <2>2, <3>1
    <3> QED BY <1>2, <2>2, <3>1, <3>2
  <2> QED BY <1>4, <2>1, <2>2
<1> QED BY <1>1, <1>2, <1>4, <1>5, <1>6 DEF MemoryInv

-----------------------------------------------------------------------------
(* The actions.                                                             *)

LEMMA OpenKeeps == ASSUME CogInv, NEW at \in Places, OpenSession(at) PROVE CogInv'
<1>1. /\ place = Nowhere /\ place' = at /\ tour' = "independent" /\ open' = TRUE
      /\ filings = <<>> /\ syntheses = <<>> /\ UNCHANGED <<filings, syntheses, MEMORY>>
  BY DEF OpenSession, CogInv, SessionInv, RoundIsFirst
<1>2. at # Nowhere
  BY PlacesAssumption
<1>3. SessionInv'
  BY <1>1, <1>2 DEF CogInv, SessionInv, SessionTypes, RoundIsFirst, IndependentFirst,
     VerdictIsSettled, Tours
<1>4. ASSUME NEW i \in DOMAIN MEMORY, MEMORY[i].status = "consensus"
      PROVE  MEMORY[i].origin = 0 /\ MEMORY[i].direct
  <2>1. MEMORY[i].at \in Places
    <3>1. MEMORY \in Seq(Entries)
      BY DEF CogInv, MemoryInv, EntryTypes
    <3>2. MEMORY[i] \in Entries
      BY <3>1, LenProperties, ElementOfSeq
    <3> QED BY <3>2 DEF Entries
  <2> QED BY <1>1, <1>4, <2>1, PlacesAssumption DEF CogInv, ConsensusInv
<1>5. MemoryInv' /\ ConsensusInv'
  BY <1>1, <1>4 DEF CogInv, MemoryInv, EntryTypes, DissentKept, ConsensusInv
<1> QED BY <1>3, <1>5 DEF CogInv

LEMMA RunIndependentKeeps ==
    ASSUME CogInv, NEW filers \in Lineups, NEW positions \in [DOMAIN filers -> Positions],
           RunIndependent(filers, positions)
    PROVE  CogInv'
<1> DEFINE n == Len(filings)
<1>1. /\ open /\ filings' = filings \o Round("independent", filers, positions)
      /\ \A k \in DOMAIN filers : ~HasThought(filers[k])
      /\ UNCHANGED <<place, tour, open, syntheses, MEMORY>>
  BY DEF RunIndependent
<1>2. /\ filings \in Seq(Filings) /\ syntheses = <<>> /\ place # Nowhere
      /\ \A i \in DOMAIN filings : filings[i].tour = "independent"
  BY <1>1 DEF CogInv, SessionInv, SessionTypes, RoundIsFirst
<1>3. PICK m \in Nat :
          /\ DOMAIN filers = 1 .. m /\ filings' \in Seq(Filings)
          /\ n \in Nat /\ DOMAIN filings = 1 .. n
          /\ \A i \in 1 .. n : filings'[i] = filings[i]
          /\ DOMAIN filings' = 1 .. n + m
          /\ \A k \in 1 .. m :
                 filings'[n + k] = Filing(filers[k], "independent", positions[k])
  BY <1>1, <1>2, RoundTypes
<1> HIDE DEF n
<1>4. ASSUME NEW i \in 1 .. n + m, i \notin 1 .. n
      PROVE  i - n \in 1 .. m /\ n + (i - n) = i
  BY <1>3, <1>4
<1>5. ASSUME NEW i \in 1 .. n + m, i \notin 1 .. n
      PROVE  filings'[i].tour = "independent" /\ filings'[i].from = filers[i - n]
  <2>1. i - n \in 1 .. m /\ n + (i - n) = i
    BY <1>4, <1>5
  <2>2. filings'[n + (i - n)] = Filing(filers[i - n], "independent", positions[i - n])
    BY <1>3, <2>1
  <2>3. filings'[i] = Filing(filers[i - n], "independent", positions[i - n])
    BY <2>1, <2>2
  <2> QED BY <2>3 DEF Filing
<1>6. \A i \in 1 .. n + m : filings'[i].tour = "independent"
  BY <1>2, <1>3, <1>5
<1>7. IndependentFirst'
  <2> SUFFICES ASSUME NEW j \in 1 .. n + m, NEW i \in 1 .. j - 1
               PROVE  filings'[i].tour = "independent" /\ filings'[i].from # filings'[j].from
    BY <1>3 DEF IndependentFirst
  <2>1. i \in 1 .. n + m /\ i < j
    BY <1>3
  <2>2. filings'[i].from # filings'[j].from
    <3>1. CASE j \in 1 .. n
      <4>1. i \in 1 .. n
        BY <1>3, <3>1
      <4> QED BY <1>2, <1>3, <3>1, <4>1 DEF CogInv, SessionInv, IndependentFirst
    <3>2. CASE j \notin 1 .. n /\ i \in 1 .. n
      <4>1. ~HasThought(filers[j - n]) /\ filings'[j].from = filers[j - n]
        BY <1>1, <1>3, <1>4, <1>5, <3>2
      <4> QED BY <1>2, <1>3, <3>2, <4>1 DEF HasThought
    <3>3. CASE j \notin 1 .. n /\ i \notin 1 .. n
      <4>1. i - n \in DOMAIN filers /\ j - n \in DOMAIN filers /\ i - n < j - n
        BY <1>3, <1>4, <2>1, <3>3
      <4> QED BY <1>5, <2>1, <3>3, <4>1, LineupIsOfDifferent
    <3> QED BY <3>1, <3>2, <3>3
  <2> QED BY <1>6, <2>1, <2>2
<1>8. SessionInv'
  BY <1>1, <1>2, <1>3, <1>6, <1>7 DEF CogInv, SessionInv, SessionTypes, RoundIsFirst,
     VerdictIsSettled
<1>9. MemoryInv' /\ ConsensusInv'
  BY <1>1 DEF CogInv, MemoryInv, EntryTypes, DissentKept, ConsensusInv
<1> QED BY <1>8, <1>9 DEF CogInv

LEMMA StaysTalked == Talked(filings, filings)
BY DEF Talked

LEMMA ShareKeeps == ASSUME CogInv, Share PROVE CogInv'
<1>1. /\ place # Nowhere /\ open' = FALSE /\ tour' = "confrontation"
      /\ UNCHANGED <<place, filings, syntheses, MEMORY>>
  BY DEF Share
<1>2. SessionTypes'
  BY <1>1 DEF CogInv, SessionInv, SessionTypes, Tours
<1> QED BY <1>1, <1>2, StaysTalked, TalkKeeps

LEMMA AnswerTalks ==
    ASSUME filings \in Seq(Filings), NEW a \in Thinkers, NEW target, NEW p \in Positions, NEW now,
           Answer(a, target, p, now)
    PROVE  Talked(filings, filings') /\ filings' \in Seq(Filings)
<1> DEFINE c == Filing(a, IF now = "revision" THEN "revision" ELSE "confrontation", p)
<1>1. c \in Filings /\ c.tour # "independent"
  BY DEF Filing, Filings
<1>2. filings' = Append(filings, c)
  BY DEF Answer
<1> HIDE DEF c
<1> QED BY <1>1, <1>2, AppendTalks

LEMMA ReplyKeeps ==
    ASSUME CogInv, NEW a \in Thinkers, NEW target, NEW p \in Positions, Reply(a, target, p)
    PROVE  CogInv'
<1>1. ~open /\ place # Nowhere /\ UNCHANGED <<place, tour, open, syntheses, MEMORY>>
  BY DEF Reply, Confronting
<1>2. Talked(filings, filings') /\ filings' \in Seq(Filings)
  BY AnswerTalks DEF Reply, CogInv, SessionInv, SessionTypes
<1>3. SessionTypes'
  BY <1>1, <1>2 DEF CogInv, SessionInv, SessionTypes
<1> QED BY <1>1, <1>2, <1>3, TalkKeeps

LEMMA ReviseKeeps ==
    ASSUME CogInv, NEW a \in Thinkers, NEW p \in Positions, NEW taken, Revise(a, p, taken)
    PROVE  CogInv'
<1>1. /\ ~open /\ place # Nowhere /\ tour' = "revision"
      /\ UNCHANGED <<place, open, syntheses, MEMORY>>
  BY DEF Revise, Confronting
<1>2. Talked(filings, filings') /\ filings' \in Seq(Filings)
  <2>1. Filing(a, "revision", p) \in Filings /\ Filing(a, "revision", p).tour # "independent"
    BY DEF Filing, Filings
  <2>2. filings' = Append(filings, Filing(a, "revision", p)) \/ filings' = filings
    BY DEF Revise
  <2> QED BY <2>1, <2>2, AppendTalks, StaysTalked DEF CogInv, SessionInv, SessionTypes
<1>3. SessionTypes'
  BY <1>1, <1>2 DEF CogInv, SessionInv, SessionTypes, Tours
<1> QED BY <1>1, <1>2, <1>3, TalkKeeps

LEMMA RunRevisionKeeps ==
    ASSUME CogInv, NEW filers \in Lineups, NEW positions \in [DOMAIN filers -> Positions],
           RunRevision(filers, positions)
    PROVE  CogInv'
<1> DEFINE n == Len(filings)
<1>1. /\ ~open /\ place # Nowhere /\ tour' = "revision"
      /\ filings' = filings \o Round("revision", filers, positions)
      /\ UNCHANGED <<place, open, syntheses, MEMORY>>
  BY DEF RunRevision, Confronting
<1>2. PICK m \in Nat :
          /\ filings' \in Seq(Filings) /\ n \in Nat /\ DOMAIN filings = 1 .. n
          /\ \A i \in 1 .. n : filings'[i] = filings[i]
          /\ DOMAIN filings' = 1 .. n + m
          /\ \A k \in 1 .. m : filings'[n + k] = Filing(filers[k], "revision", positions[k])
  BY <1>1, RoundTypes DEF CogInv, SessionInv, SessionTypes
<1> HIDE DEF n
<1>3. Talked(filings, filings')
  <2>1. ASSUME NEW i \in 1 .. n + m, i \notin 1 .. n
        PROVE  filings'[i].tour # "independent"
    <3>1. i - n \in 1 .. m /\ n + (i - n) = i
      BY <1>2, <2>1
    <3>2. filings'[n + (i - n)] = Filing(filers[i - n], "revision", positions[i - n])
      BY <1>2, <3>1
    <3>3. filings'[i] = Filing(filers[i - n], "revision", positions[i - n])
      BY <3>1, <3>2
    <3> QED BY <3>3 DEF Filing
  <2>2. 1 .. n \subseteq 1 .. n + m
    BY <1>2
  <2> QED BY <1>2, <2>1, <2>2 DEF Talked
<1>4. SessionTypes'
  BY <1>1, <1>2 DEF CogInv, SessionInv, SessionTypes, Tours
<1> QED BY <1>1, <1>3, <1>4, TalkKeeps

LEMMA CorrectKeeps ==
    ASSUME CogInv, NEW a \in Thinkers, NEW target \in DOMAIN filings, NEW p \in Positions,
           NEW kept, Correct(a, target, p, kept)
    PROVE  CogInv'
<1> DEFINE now == TourOfCorrection
           entry == Entry(place, "disputed", {filings[target].from})
<1>1. /\ open' = FALSE /\ tour' = now /\ UNCHANGED <<place, syntheses>>
      /\ Answer(a, target, p, now)
      /\ MEMORY' = Append(MEMORY, entry) \/ UNCHANGED MEMORY
  BY DEF Correct, Learn, Remember
<1>2. now \in Tours /\ filings \in Seq(Filings) /\ place \in Places /\ place # Nowhere
  BY DEF TourOfCorrection, CogInv, SessionInv, SessionTypes, RoundIsFirst, Tours
<1>3. entry \in Entries /\ entry.origin = 0 /\ entry.status = "disputed" /\ entry.disagreement # {}
  <2>1. filings[target].from \in Thinkers
    <3>1. filings[target] \in Filings
      BY <1>2, LenProperties, ElementOfSeq
    <3> QED BY <3>1 DEF Filings
  <2> QED BY <1>2, <2>1 DEF Entry, Entries, Statuses
<1> HIDE DEF now, entry
<1>4. Talked(filings, filings') /\ filings' \in Seq(Filings)
  BY <1>1, <1>2, AnswerTalks
<1>5. SessionTypes'
  BY <1>1, <1>2, <1>4 DEF CogInv, SessionInv, SessionTypes
<1>6. SessionInv' /\ Rows(filings') = Rows(filings) /\ (UNCHANGED MEMORY => CogInv')
  BY <1>1, <1>2, <1>4, <1>5, TalkKeeps
<1>7. CASE MEMORY' = Append(MEMORY, entry)
  <2>1. /\ MemoryInv'
        /\ \A i \in DOMAIN MEMORY' : \/ i \in DOMAIN MEMORY /\ MEMORY'[i] = MEMORY[i]
                                     \/ MEMORY'[i] = entry
    <3>1. MemoryInv
      BY DEF CogInv
    <3> QED BY <1>3, <1>7, <3>1, EntryKept
  <2>2. ConsensusInv'
    BY <1>1, <1>3, <1>6, <2>1 DEF CogInv, ConsensusInv
  <2> QED BY <1>6, <2>1, <2>2 DEF CogInv
<1> QED BY <1>1, <1>6, <1>7

LEMMA CorrectRefusedKeeps == ASSUME CogInv, CorrectRefused PROVE CogInv'
<1>1. /\ filings # <<>> /\ open' = FALSE /\ tour' = TourOfCorrection
      /\ UNCHANGED <<place, filings, syntheses, MEMORY>>
  BY DEF CorrectRefused
<1>2. place # Nowhere /\ TourOfCorrection \in Tours
  BY <1>1 DEF TourOfCorrection, CogInv, SessionInv, SessionTypes, RoundIsFirst, Tours
<1>3. SessionTypes'
  BY <1>1, <1>2 DEF CogInv, SessionInv, SessionTypes
<1> QED BY <1>1, <1>2, <1>3, StaysTalked, TalkKeeps

LEMMA SynthesizeKeeps == ASSUME CogInv, NEW kept, Synthesize(kept) PROVE CogInv'
<1> DEFINE verdict == Verdict(filings)
           entry == Entry(place, verdict.status, verdict.minority)
<1>1. /\ ~open /\ place # Nowhere /\ syntheses' = Append(syntheses, verdict)
      /\ tour' = "synthesis" /\ UNCHANGED <<place, open, filings>>
      /\ MEMORY' = Append(MEMORY, entry) \/ UNCHANGED MEMORY
  BY DEF Synthesize, Confronting, Learn, Remember
<1>2. filings \in Seq(Filings) /\ place \in Places
  BY <1>1 DEF CogInv, SessionInv, SessionTypes
<1>3. /\ verdict.status \in {"unresolved", "consensus", "disputed"}
      /\ verdict.minority \subseteq Positions
      /\ verdict.status = "consensus" => Cardinality(Rows(filings)) = 1
      /\ verdict.status = "disputed" => verdict.minority # {}
  BY <1>2, VerdictTypes, DisputeHasMinority
<1> HIDE DEF verdict
<1>4. /\ entry \in Entries /\ entry.origin = 0 /\ entry.at = place
      /\ entry.status = verdict.status /\ entry.disagreement = verdict.minority
  BY <1>2, <1>3 DEF Entry, Entries, Statuses
<1> HIDE DEF entry
<1>5. /\ MemoryInv'
      /\ \A i \in DOMAIN MEMORY' : \/ i \in DOMAIN MEMORY /\ MEMORY'[i] = MEMORY[i]
                                   \/ MEMORY'[i] = entry
  <2>1. MemoryInv
    BY DEF CogInv
  <2>2. CASE MEMORY' = Append(MEMORY, entry)
    <3>1. entry.status = "disputed" => entry.disagreement # {}
      BY <1>3, <1>4
    <3> QED BY <1>4, <2>1, <2>2, <3>1, EntryKept
  <2>3. CASE UNCHANGED MEMORY
    BY <2>1, <2>3 DEF MemoryInv, EntryTypes, DissentKept
  <2> QED BY <1>1, <2>2, <2>3
<1>6. ConsensusInv'
  BY <1>1, <1>3, <1>4, <1>5 DEF CogInv, ConsensusInv
<1>7. VerdictIsSettled'
  <2>1. \A k \in DOMAIN syntheses : syntheses[k] = verdict
    BY DEF CogInv, SessionInv, VerdictIsSettled, verdict
  <2>2. verdict = Verdict(filings')
    BY <1>1 DEF verdict
  <2>3. \A k \in DOMAIN syntheses' : syntheses'[k] = verdict
    <3>1. PICK S : syntheses \in Seq(S)
      BY DEF CogInv, SessionInv, SessionTypes
    <3>2. syntheses \in Seq(S \cup {verdict})
      BY <3>1
    <3> QED BY <1>1, <2>1, <3>2
  <2> QED BY <2>2, <2>3 DEF VerdictIsSettled
<1>8. SessionInv'
  <2>1. \E S : syntheses' \in Seq(S)
    <3>1. PICK S : syntheses \in Seq(S)
      BY DEF CogInv, SessionInv, SessionTypes
    <3>2. syntheses \in Seq(S \cup {verdict})
      BY <3>1
    <3>3. syntheses' \in Seq(S \cup {verdict})
      BY <1>1, <3>2
    <3> QED BY <3>3
  <2>2. SessionTypes'
    BY <1>1, <2>1 DEF CogInv, SessionInv, SessionTypes, Tours
  <2> QED BY <1>1, <1>7, <2>2 DEF CogInv, SessionInv, RoundIsFirst, IndependentFirst
<1> QED BY <1>5, <1>6, <1>8 DEF CogInv

LEMMA DerivedKeeps ==
    ASSUME CogInv, NEW e \in DOMAIN MEMORY, NEW at \in Places, NEW explicit \in BOOLEAN,
           Remember(Derived(e, at, explicit)), UNCHANGED session
    PROVE  CogInv'
<1> DEFINE entry == Derived(e, at, explicit)
<1>1. MEMORY[e] \in Entries /\ e \in Nat
  BY LenProperties, ElementOfSeq DEF CogInv, MemoryInv, EntryTypes
<1>2. /\ entry \in Entries /\ entry.origin = e /\ entry.status = "unresolved"
      /\ entry.disagreement = MEMORY[e].disagreement
  BY <1>1 DEF Derived, Entries, Statuses
<1>3. MEMORY' = Append(MEMORY, entry)
  BY DEF Remember
<1> HIDE DEF entry
<1>4. /\ MemoryInv'
      /\ \A i \in DOMAIN MEMORY' : \/ i \in DOMAIN MEMORY /\ MEMORY'[i] = MEMORY[i]
                                   \/ MEMORY'[i] = entry
  BY <1>2, <1>3, EntryKept DEF CogInv
<1>5. ConsensusInv'
  BY <1>2, <1>4 DEF CogInv, ConsensusInv, session
<1>6. SessionInv'
  BY DEF CogInv, SessionInv, SessionTypes, RoundIsFirst, IndependentFirst, VerdictIsSettled, session
<1> QED BY <1>4, <1>5, <1>6 DEF CogInv

\* What a caller writes himself makes no dispute of a session and no consensus of one.
LEMMA DirectKeeps ==
    ASSUME CogInv, NEW at \in Places, NEW claim \in Claims, RememberDirectly(at, claim)
    PROVE  CogInv'
<1> DEFINE entry == [Entry(at, claim.status, claim.disagreement) EXCEPT !.direct = TRUE]
<1>1. MEMORY' = Append(MEMORY, entry) /\ UNCHANGED session
  BY DEF RememberDirectly, Remember
<1>2. entry \in Entries /\ entry.origin = 0 /\ entry.direct
  BY ClaimsAssumption DEF Claim, Entry, Entries
<1> HIDE DEF entry
<1>3. /\ MemoryInv'
      /\ \A i \in DOMAIN MEMORY' : \/ i \in DOMAIN MEMORY /\ MEMORY'[i] = MEMORY[i]
                                   \/ MEMORY'[i] = entry
  BY <1>1, <1>2, EntryKept DEF CogInv
<1>4. ConsensusInv'
  BY <1>1, <1>2, <1>3 DEF CogInv, ConsensusInv, session
<1>5. SessionInv'
  BY <1>1 DEF CogInv, SessionInv, SessionTypes, RoundIsFirst, IndependentFirst, VerdictIsSettled,
     session
<1> QED BY <1>3, <1>4, <1>5 DEF CogInv

LEMMA CogNextKeeps == ASSUME CogInv, [CogNext]_cogVars PROVE CogInv'
<1>1. CASE UNCHANGED cogVars
  BY <1>1 DEF cogVars, session, CogInv, SessionInv, SessionTypes, RoundIsFirst, IndependentFirst,
     VerdictIsSettled, MemoryInv, EntryTypes, DissentKept, ConsensusInv
<1>2. ASSUME NEW e \in DOMAIN MEMORY, NEW at \in Places,
             ShareAcrossProjects(e, at) \/ ShareAcrossClients(e, at) \/ Reevaluate(e, at)
      PROVE  CogInv'
  BY <1>2, DerivedKeeps DEF ShareAcrossProjects, ShareAcrossClients, Reevaluate
<1> QED
  BY <1>1, <1>2, OpenKeeps, RunIndependentKeeps, RunRevisionKeeps, ShareKeeps, ReplyKeeps,
     ReviseKeeps, CorrectKeeps, CorrectRefusedKeeps, SynthesizeKeeps, DirectKeeps DEF CogNext

LEMMA CogInitHolds == CogInit => CogInv
<1> SUFFICES ASSUME CogInit PROVE CogInv
  OBVIOUS
<1>1. <<>> \in Seq(Filings) /\ <<>> \in Seq(Entries) /\ DOMAIN <<>> = {}
  OBVIOUS
<1> QED BY <1>1 DEF CogInit, CogInv, SessionInv, SessionTypes, RoundIsFirst, IndependentFirst,
           VerdictIsSettled, MemoryInv, EntryTypes, DissentKept, ConsensusInv, Tours

LEMMA CogInvHolds == CogSpec => []CogInv
BY CogInitHolds, CogNextKeeps, PTL DEF CogSpec

\* What the session files and remembers is well formed, and an entry of MEMORY is made
\* from an earlier one.
THEOREM CognitionTypeCorrect == CogSpec => []CogTypeOK
<1>1. CogInv => CogTypeOK
  <2> SUFFICES ASSUME CogInv PROVE CogTypeOK
    OBVIOUS
  <2>1. \A i \in DOMAIN filings : filings[i] \in Filings
    BY LenProperties, ElementOfSeq DEF CogInv, SessionInv, SessionTypes
  <2>2. ASSUME NEW i \in DOMAIN MEMORY
        PROVE  MEMORY[i] \in [at : Places, status : Statuses,
                   disagreement : SUBSET (Positions \cup Thinkers),
                   origin : 0 .. i - 1, explicit : BOOLEAN, direct : BOOLEAN]
    <3>1. MEMORY[i] \in Entries /\ MEMORY[i].origin <= i - 1 /\ i \in Nat
      BY LenProperties, ElementOfSeq DEF CogInv, MemoryInv, EntryTypes
    <3>2. MEMORY[i].origin \in 0 .. i - 1
      BY <3>1 DEF Entries
    <3> QED BY <3>1, <3>2 DEF Entries
  <2> QED BY <2>1, <2>2 DEF CogTypeOK, CogInv, SessionInv, SessionTypes, Filings
<1> QED BY <1>1, CogInvHolds, PTL

\* Whoever closes the round, and however often, what an agent thinks first it thinks
\* before anything is shared, and once (runIndependent, thinkOne).
THEOREM ThoughtApart == CogSpec => []IndependentFirst
<1>1. CogInv => IndependentFirst
  BY DEF CogInv, SessionInv
<1> QED BY <1>1, CogInvHolds, PTL

\* No reply, revision, correction or further synthesis moves the count of a verdict that
\* synthesize() gave.
THEOREM TalkMovesNoVerdict == CogSpec => []VerdictIsSettled
<1>1. CogInv => VerdictIsSettled
  BY DEF CogInv, SessionInv
<1> QED BY <1>1, CogInvHolds, PTL

\* No share and no reevaluation makes an entry that says "consensus", whoever wrote the
\* entry it starts from; and one that no caller wrote himself is of the session's own
\* place, and of a session whose independent filings agree (synthesize, remember).
THEOREM ConsensusStaysHome == CogSpec => []ConsensusIsLocal
<1>1. CogInv => ConsensusIsLocal
  BY DEF CogInv, ConsensusInv, ConsensusIsLocal
<1> QED BY <1>1, CogInvHolds, PTL

\* Along any chain of shareAcrossProjects, shareAcrossClients and reevaluate an entry
\* names everyone who disagreed in the entries it comes from, and someone when one of
\* those is a dispute that a session wrote.
THEOREM DissentIsCarried == CogSpec => []DissentTravels
<1>1. CogInv => DissentTravels
  <2> SUFFICES ASSUME CogInv, NEW i \in DOMAIN MEMORY, NEW j \in Ancestors(i)
               PROVE  /\ MEMORY[j].disagreement \subseteq MEMORY[i].disagreement
                      /\ MEMORY[j].status = "disputed" /\ ~MEMORY[j].direct
                           => MEMORY[i].disagreement # {}
    BY DEF DissentTravels
  <2> DEFINE line == {e \in DOMAIN MEMORY : MEMORY[e].disagreement \subseteq MEMORY[i].disagreement}
  <2>1. ASSUME NEW e \in line, MEMORY[e].origin # 0
        PROVE  MEMORY[e].origin \in line
    <3>1. /\ MEMORY[MEMORY[e].origin].disagreement \subseteq MEMORY[e].disagreement
          /\ MEMORY[e].origin <= e - 1
      BY <2>1 DEF CogInv, MemoryInv, EntryTypes, DissentKept
    <3>2. MEMORY \in Seq(Entries) /\ e \in DOMAIN MEMORY
      BY DEF CogInv, MemoryInv, EntryTypes
    <3>3. e \in 1 .. Len(MEMORY) /\ Len(MEMORY) \in Nat /\ MEMORY[e].origin \in Nat
          /\ DOMAIN MEMORY = 1 .. Len(MEMORY)
      <4>1. MEMORY[e] \in Entries
        BY <3>2, LenProperties, ElementOfSeq
      <4>2. MEMORY[e].origin \in Nat
        BY <4>1 DEF Entries
      <4> QED BY <3>2, <4>2, LenProperties
    <3>4. MEMORY[e].origin \in DOMAIN MEMORY
      BY <2>1, <3>1, <3>3
    <3> QED BY <3>1, <3>4
  <2>2. j \in line
    BY <2>1 DEF Ancestors
  <2>3. MEMORY[j].status = "disputed" /\ ~MEMORY[j].direct => MEMORY[j].disagreement # {}
    BY <2>2 DEF CogInv, MemoryInv, DissentKept
  <2> QED BY <2>2, <2>3
<1> QED BY <1>1, CogInvHolds, PTL
=============================================================================
