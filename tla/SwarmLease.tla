----------------------------- MODULE SwarmLease -----------------------------
(***************************************************************************)
(* The kill-switch, the chain of epochs and the envelopes of the swarm,    *)
(* .github/swarm/lease.mjs.  The state is the memory of one process; a     *)
(* call is synchronous, so an action is a whole call.  The module          *)
(* SwarmKernel makes the calls.                                            *)
(*                                                                         *)
(* A hash is the term it is the hash of, so it is injective.  The hash and *)
(* the signature of an epoch cover the same body: they are one field, its  *)
(* seal.                                                                   *)
(***************************************************************************)
EXTENDS Integers, FiniteSets, SequencesExt

CONSTANTS
    Leases,         \* the leases that may be proved
    LossMax,        \* their loss_db_max
    Envelopes,      \* the envelopes that may be wrapped
    NonceOf,        \* their nonces: a caller may choose one
    Skew,           \* SKEW_MS
    MaxTime,        \* bound on the clock
    MaxEpochs,      \* bound on the epochs of one memory
    MaxRevocations, \* bound on its revocations
    MaxOpenings     \* bound on the envelopes opened in a behaviour

ASSUME LeaseConstants ==
    /\ LossMax \in [Leases -> Nat]
    /\ {Skew, MaxTime, MaxEpochs, MaxRevocations, MaxOpenings} \subseteq Nat

VARIABLES
    isolated,    \* STATE.isolated
    leases,      \* STATE.leases
    revocations, \* how many STATE.revocations there are
    epochs,      \* STATE.epochs
    nonces,      \* STATE.nonces
    stamp,       \* the ts of each envelope, Unset while it is not wrapped
    clock,       \* Date.now()
    life,        \* how often the memory was lost
    openings     \* history: the envelopes opened, at which told time, in which life

memory == <<isolated, leases, revocations, epochs, nonces>>
leaseVars == <<memory, stamp, clock, life, openings>>

Unset == -1
Times == 0 .. MaxTime

(***************************************************************************)
(* Merkle trees.  An odd layer repeats its last node, so different leaves  *)
(* may have one root.                                                      *)
(***************************************************************************)
Leaf(kind, n) == [kind |-> kind, of |-> n]
Genesis == <<Leaf("genesis", 0)>>

Even(layer) == IF Len(layer) % 2 = 1 THEN Append(layer, Last(layer)) ELSE layer
Paired(layer) == [i \in 1 .. Len(Even(layer)) \div 2 |->
                      <<Even(layer)[2 * i - 1], Even(layer)[2 * i]>>]

MerkleRoot(leaves) ==
    LET Layer[n \in 0 .. Len(leaves)] ==
          IF n = 0 THEN [i \in 1 .. Len(leaves) |-> <<leaves[i]>>]
          ELSE IF Len(Layer[n - 1]) > 1 THEN Paired(Layer[n - 1]) ELSE Layer[n - 1]
    IN  Layer[Len(leaves)][1]

(***************************************************************************)
(* Epochs.                                                                 *)
(***************************************************************************)
Each(kind, n) == [i \in 1 .. n |-> Leaf(kind, i)]
PrevRoot(chain) == IF chain = << >> THEN Genesis ELSE Last(chain).body.root
PrevSignature(chain) == IF chain = << >> THEN << >> ELSE <<Last(chain).seal>>
OrPrevious(leaves, prevRoot) ==
    IF leaves = << >> THEN <<Leaf("root", prevRoot)>> ELSE leaves

EpochAfter(chain, leaves) ==
    LET body == [n |-> Len(chain), leaves |-> leaves,
                 prevRoot |-> PrevRoot(chain), prevSignature |-> PrevSignature(chain),
                 root |-> MerkleRoot(OrPrevious(leaves, PrevRoot(chain)))]
    IN  [body |-> body, seal |-> body]

RootsChain(chain, i) ==
    LET body == chain[i].body
    IN  /\ body.prevRoot = PrevRoot(SubSeq(chain, 1, i - 1))
        /\ MerkleRoot(OrPrevious(body.leaves, body.prevRoot)) = body.root

SealsChain(chain, i) ==
    LET body == chain[i].body
    IN  /\ chain[i].seal = body
        /\ body.prevSignature = PrevSignature(SubSeq(chain, 1, i - 1))

RootsAlone(chain) == \A i \in DOMAIN chain : RootsChain(chain, i)
VerifyChain(chain) == \A i \in DOMAIN chain : RootsChain(chain, i) /\ SealsChain(chain, i)

\* The revocations of this call are counted in already.
CloseEpoch(leased, revoked, extra) ==
    /\ Len(epochs) < MaxEpochs
    /\ epochs' = Append(epochs, EpochAfter(epochs,
                     Each("lease", leased) \o Each("revocation", revoked) \o extra))

(***************************************************************************)
(* Leases, the kill-switch and the watchdog.                               *)
(***************************************************************************)
ProveLease(l) == leases' = Append(leases, l)

Isolate ==
    /\ revocations < MaxRevocations
    /\ isolated' = TRUE
    /\ revocations' = revocations + 1

\* measured: the loss the caller measured, Unset when it measured none.
Anomaly(measured, corrupt) ==
    \/ ~VerifyChain(epochs)
    \/ \E i \in DOMAIN leases : measured > LossMax[leases[i]]
    \/ corrupt

\* An isolated node stays so: the watchdog looks no further.
Watchdog(measured, corrupt) ==
    IF ~isolated /\ Anomaly(measured, corrupt)
    THEN Isolate
    ELSE UNCHANGED <<isolated, revocations>>

ResetIsolation == isolated' = FALSE

\* A caller is told CONNECTED when it shows a signed lease and attests a fiber.
Connects(signed, fiber) == ~isolated /\ signed /\ fiber

(***************************************************************************)
(* Envelopes.                                                              *)
(***************************************************************************)
\* The caller may date an envelope.
Wrap(e, ts) ==
    /\ stamp[e] = Unset
    /\ stamp' = [stamp EXCEPT ![e] = ts]

\* now: the time the caller tells, the clock's when it tells none.
FreshOrPostdated(e, now) == now - stamp[e] <= Skew
Fresh(e, now) == now - stamp[e] \in -Skew .. Skew
Opens(e, now) == stamp[e] # Unset /\ Fresh(e, now) /\ NonceOf[e] \notin nonces

SpendNothing(e, now) ==
    /\ Len(openings) < MaxOpenings
    /\ openings' = Append(openings, [of |-> e, at |-> now, life |-> life])
    /\ UNCHANGED nonces

\* What opening an envelope leaves behind, whatever is made of it afterwards.
Spend(e, now) ==
    /\ Len(openings) < MaxOpenings
    /\ nonces' = nonces \cup {NonceOf[e]}
    /\ openings' = Append(openings, [of |-> e, at |-> now, life |-> life])

(***************************************************************************)
(* Memory.                                                                 *)
(***************************************************************************)
EmptyLease ==
    /\ isolated = FALSE
    /\ leases = << >>
    /\ revocations = 0
    /\ epochs = << >>
    /\ nonces = {}

ResetLease ==
    /\ isolated' = FALSE
    /\ leases' = << >>
    /\ revocations' = 0
    /\ epochs' = << >>
    /\ nonces' = {}
=============================================================================
