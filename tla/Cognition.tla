----------------------------- MODULE Cognition -----------------------------
(***************************************************************************)
(* One thinking session of the swarm and the memory that outlives it       *)
(* (.github/swarm/cognition.mjs).  Agents first file independent analyses, *)
(* share() closes that round, then they reply, revise, correct, and anyone *)
(* may ask for a synthesis, which counts the independent filings only and  *)
(* leaves a lesson in MEMORY.  Entries of MEMORY are frozen; they are      *)
(* carried to other projects and clients by making new ones.  remember(),  *)
(* which writes them, is exported: a caller may write one of his own, of   *)
(* any status, with no session.                                            *)
(*                                                                         *)
(* Every function is synchronous, so each is one action; a call the code   *)
(* refuses without a change is no step.  Two outcomes are taken from       *)
(* outside: flux.accept(), which may refuse any packet, and the content    *)
(* check of remember(), which may refuse the lesson of a packet that was   *)
(* accepted.  runCycle() and serveClientProblem() are sequences of these   *)
(* actions on a fresh session.  A body callback that calls back into the   *)
(* session while runIndependent() loops is left out.                       *)
(* Sessions meet only in MEMORY, so one session is modelled.  Relations    *)
(* (who answered what), drift flags and texts are left out: no function    *)
(* but the synthesis that copies them reads them.                          *)
(***************************************************************************)
EXTENDS Integers, Sequences, FiniteSets, FiniteSetsExt, Functions

CONSTANTS Roster,       \* the thinking identities, in roster order
          Positions,    \* what a body's "position:" normalises to
          Projects, Clients,
          MaxFilings,   \* bound on the contributions of the session
          MaxMemory,    \* bound on the entries of MEMORY
          MaxRecords,   \* bound on the contributions and the entries together
          Claims,       \* what callers state in the entries they write themselves
          MaxDirect,    \* bound on those entries
          MaxSyntheses  \* bound on the syntheses of the session

Thinkers == Range(Roster)
Places   == [project : Projects, client : Clients]
Nowhere  == [project |-> "none", client |-> "none"]

ASSUME BoundsAssumption ==
  {MaxFilings, MaxMemory, MaxRecords, MaxDirect, MaxSyntheses} \subseteq Nat

(* No identity is in the roster twice: they are the values of a map. *)
ASSUME RosterAssumption ==
  /\ Roster \in Seq(Thinkers)
  /\ \A i, j \in DOMAIN Roster : Roster[i] = Roster[j] => i = j

ASSUME PlacesAssumption == Nowhere \notin Places

(* What remember() keeps of the status a caller gives.                     *)
Statuses == {"unresolved", "consensus", "disputed"}
Claim    == [status : Statuses, disagreement : SUBSET (Positions \cup Thinkers)]

ASSUME ClaimsAssumption == Claims \subseteq Claim

VARIABLES place,        \* session.project and session.client
          tour,         \* session.tour
          open,         \* session.independentOpen
          filings,      \* session.contributions
          syntheses,    \* session.syntheses
          MEMORY        \* MEMORY: what the sessions learnt and callers wrote

session == <<place, tour, open, filings, syntheses>>
cogVars == <<session, MEMORY>>

-----------------------------------------------------------------------------
(* What is filed, and what a synthesis makes of it. *)

(* The bounds leave room for so many more filings and entries. *)
Room(filed, learnt) ==
  /\ Len(filings) + filed <= MaxFilings
  /\ Len(MEMORY) + learnt <= MaxMemory
  /\ Len(filings) + filed + Len(MEMORY) + learnt <= MaxRecords

Filing(a, t, p) == [from |-> a, tour |-> t, position |-> p]

(* The agents that file in a loop over thinkers(): any of them, each once, *)
(* in roster order.                                                        *)
Precedes(a, b) == \E i, j \in DOMAIN Roster : i < j /\ Roster[i] = a /\ Roster[j] = b
Lineups == {filers \in UNION {[1 .. n -> Thinkers] : n \in 0 .. Len(Roster)} :
              \A j, k \in DOMAIN filers : j < k => Precedes(filers[j], filers[k])}

Round(t, filers, positions) ==
  [k \in DOMAIN filers |-> Filing(filers[k], t, positions[k])]

(* Bug for the mutants: a revision counts too. *)
Considered(fs)   == {i \in DOMAIN fs : fs[i].tour # "confrontation"}

(* The filings that count, by their places. *)
Independents(fs) == {i \in DOMAIN fs : fs[i].tour = "independent"}
HasThought(a)    == \E i \in DOMAIN filings :
                      filings[i].from = a /\ filings[i].tour = "independent"

(* The rows of synthesize() and clusterStatus(): one per position, the     *)
(* largest first, the earlier one on a tie.                                *)
Rows(fs)   == {fs[i].position : i \in Independents(fs)}
Who(fs, p) == {i \in Independents(fs) : fs[i].position = p}

Leads(fs, p, q) ==
  \/ Cardinality(Who(fs, p)) > Cardinality(Who(fs, q))
  \/ /\ Cardinality(Who(fs, p)) = Cardinality(Who(fs, q))
     /\ Min(Who(fs, p)) <= Min(Who(fs, q))

(* Bug for the mutants: `outcome' of clusterStatus() taken for `status'. *)
StatusOutcome(rows) == IF rows = {} THEN "unresolved"
                       ELSE IF Cardinality(rows) = 1 THEN "consensus" ELSE "majority"

Status(rows) == IF rows = {} THEN "unresolved"
                ELSE IF Cardinality(rows) = 1 THEN "consensus" ELSE "disputed"

Verdict(fs) ==
  LET rows    == Rows(fs)
      leading == {p \in rows : \A q \in rows : Leads(fs, p, q)}
  IN [status |-> Status(rows), majority |-> leading, minority |-> rows \ leading]

-----------------------------------------------------------------------------
(* The entries of MEMORY: remember() freezes and pushes one.  `explicit'   *)
(* says that the caller passed explicit: true, `origin' is the entry this  *)
(* one was made from (0 for an entry made from none), `direct' says that   *)
(* a caller wrote it by remember() himself.                                *)

Entry(at, status, disagreement) ==
  [at |-> at, status |-> status, disagreement |-> disagreement,
   origin |-> 0, explicit |-> FALSE, direct |-> FALSE]

(* Bugs for the mutants: the copy keeps its status, or drops the dissent.  *)
DerivedAsSettled(e, at, explicit) ==
  [MEMORY[e] EXCEPT !.at = at, !.origin = e, !.explicit = explicit, !.direct = FALSE]

DerivedAgreed(e, at, explicit) ==
  [at |-> at, status |-> "unresolved", disagreement |-> {},
   origin |-> e, explicit |-> explicit, direct |-> FALSE]

(* The entry a share or a reevaluation makes of entry e, at another place. *)
Derived(e, at, explicit) ==
  [at |-> at, status |-> "unresolved", disagreement |-> MEMORY[e].disagreement,
   origin |-> e, explicit |-> explicit, direct |-> FALSE]

Remember(entry) == MEMORY' = Append(MEMORY, entry)

(* The lesson of a correction or a synthesis.  The content check of        *)
(* remember() may refuse it after the packet was accepted and filed.       *)
Learn(entry, kept) == IF kept THEN Remember(entry) ELSE UNCHANGED MEMORY

-----------------------------------------------------------------------------
CogInit ==
  /\ place = Nowhere
  /\ tour = "none"
  /\ open = FALSE
  /\ filings = <<>>
  /\ syntheses = <<>>
  /\ MEMORY = <<>>

OpenSession(at) ==
  /\ place = Nowhere
  /\ place' = at
  /\ tour' = "independent"
  /\ open' = TRUE
  /\ UNCHANGED <<filings, syntheses, MEMORY>>

(* runIndependent(): every thinker that has a body, has not thought yet    *)
(* and whose packet is accepted files.  A body callback that throws stops  *)
(* the loop: the agents after it have filed nothing.                       *)
RunIndependent(filers, positions) ==
  /\ open
  /\ \A k \in DOMAIN filers : ~HasThought(filers[k])
  /\ Room(Len(filers), 0)
  /\ filings' = filings \o Round("independent", filers, positions)
  /\ UNCHANGED <<place, tour, open, syntheses, MEMORY>>

(* share(): callable again, in any tour. *)
Share ==
  /\ place # Nowhere
  /\ open' = FALSE
  /\ tour' = "confrontation"
  /\ UNCHANGED <<place, filings, syntheses, MEMORY>>

(* The contribution of reply(), filed while the session's tour is `now'. *)
Answer(a, target, p, now) ==
  /\ filings[target].from # a
  /\ filings' = Append(filings,
       Filing(a, IF now = "revision" THEN "revision" ELSE "confrontation", p))

(* Bug for the mutants: the independent round may still be open. *)
ConfrontingAnyhow == place # Nowhere

Confronting == ~open /\ place # Nowhere

Reply(a, target, p) ==
  /\ Confronting
  /\ Room(1, 0)
  /\ Answer(a, target, p, tour)
  /\ UNCHANGED <<place, tour, open, syntheses, MEMORY>>

(* revise(): the previous filing is named by its id, whoever filed it, or  *)
(* is the agent's own independent one, so that any filing lets any agent   *)
(* revise.  The tour is set before accept().                               *)
Revise(a, p, accepted) ==
  /\ Confronting
  /\ filings # <<>>
  /\ tour' = "revision"
  /\ IF accepted
       THEN /\ Room(1, 0)
            /\ filings' = Append(filings, Filing(a, "revision", p))
       ELSE UNCHANGED filings
  /\ UNCHANGED <<place, open, syntheses, MEMORY>>

(* runRevision(): every thinker with an independent filing revises it. *)
RunRevision(filers, positions) ==
  /\ Confronting
  /\ tour' = "revision"
  /\ \A k \in DOMAIN filers : HasThought(filers[k])
  /\ Room(Len(filers), 0)
  /\ filings' = filings \o Round("revision", filers, positions)
  /\ UNCHANGED <<place, open, syntheses, MEMORY>>

(* correct(): closes the independent round first, so that a correction     *)
(* which reply() then refuses has still closed it.                         *)
TourOfCorrection == IF open THEN "confrontation" ELSE tour

Correct(a, target, p, kept) ==
  /\ Room(1, 1)
  /\ open' = FALSE
  /\ tour' = TourOfCorrection
  /\ Answer(a, target, p, TourOfCorrection)
  /\ Learn(Entry(place, "disputed", {filings[target].from}), kept)
  /\ UNCHANGED <<place, syntheses>>

CorrectRefused ==
  /\ filings # <<>>
  /\ open' = FALSE
  /\ tour' = TourOfCorrection
  /\ UNCHANGED <<place, filings, syntheses, MEMORY>>

Synthesize(kept) ==
  LET verdict == Verdict(filings)
  IN /\ Confronting
     /\ Len(syntheses) < MaxSyntheses
     /\ Room(0, 1)
     /\ syntheses' = Append(syntheses, verdict)
     /\ tour' = "synthesis"
     /\ Learn(Entry(place, verdict.status, verdict.minority), kept)
     /\ UNCHANGED <<place, open, filings>>

(* remember(), called by anyone: it looks at the text of an entry, not at  *)
(* what the status and the disagreement rest on.                           *)
RememberDirectly(at, claim) ==
  /\ Cardinality({i \in DOMAIN MEMORY : MEMORY[i].direct}) < MaxDirect
  /\ Room(0, 1)
  /\ Remember([Entry(at, claim.status, claim.disagreement) EXCEPT !.direct = TRUE])
  /\ UNCHANGED session

(* shareAcrossProjects(): explicit, to another project; the caller may     *)
(* name another client as well.                                            *)
ShareAcrossProjects(e, at) ==
  /\ MEMORY[e].at.project # at.project
  /\ Room(0, 1)
  /\ Remember(Derived(e, at, TRUE))
  /\ UNCHANGED session

ShareAcrossClients(e, at) ==
  /\ MEMORY[e].at.client # at.client
  /\ Room(0, 1)
  /\ Remember(Derived(e, at, TRUE))
  /\ UNCHANGED session

(* reevaluate(): new evidence; the caller may name a project and a client, *)
(* and is not asked for explicit: true.                                    *)
Reevaluate(e, at) ==
  /\ Room(0, 1)
  /\ Remember(Derived(e, at, FALSE))
  /\ UNCHANGED session

CogNext ==
  \/ \E at \in Places : OpenSession(at)
  \/ \E filers \in Lineups : \E positions \in [DOMAIN filers -> Positions] :
       \/ RunIndependent(filers, positions)
       \/ RunRevision(filers, positions)
  \/ Share
  \/ \E a \in Thinkers, p \in Positions :
       \/ \E accepted \in BOOLEAN : Revise(a, p, accepted)
       \/ \E t \in DOMAIN filings :
            \/ Reply(a, t, p)
            \/ \E kept \in BOOLEAN : Correct(a, t, p, kept)
  \/ CorrectRefused
  \/ \E kept \in BOOLEAN : Synthesize(kept)
  \/ \E at \in Places, claim \in Claims : RememberDirectly(at, claim)
  \/ \E e \in DOMAIN MEMORY, at \in Places :
       \/ ShareAcrossProjects(e, at)
       \/ ShareAcrossClients(e, at)
       \/ Reevaluate(e, at)

CogSpec == CogInit /\ [][CogNext]_cogVars

-----------------------------------------------------------------------------
Tours == {"none", "independent", "confrontation", "revision", "synthesis"}

(* The types of the session and of the memory; an entry of the memory is   *)
(* made from an earlier one.                                               *)
CogTypeOK ==
  /\ place \in Places \cup {Nowhere}
  /\ tour \in Tours
  /\ open \in BOOLEAN
  /\ \A i \in DOMAIN filings :
       filings[i] \in [from : Thinkers, tour : {"independent", "confrontation", "revision"},
                       position : Positions]
  /\ \A i \in DOMAIN MEMORY :
       MEMORY[i] \in [at : Places, status : Statuses,
                      disagreement : SUBSET (Positions \cup Thinkers),
                      origin : 0 .. i - 1, explicit : BOOLEAN, direct : BOOLEAN]

(* What an agent thinks first it thinks before anything is shared: every   *)
(* independent filing precedes every reply and revision, whoever closes    *)
(* the round and however often, and no agent has two.                      *)
IndependentFirst ==
  \A j \in DOMAIN filings : filings[j].tour = "independent" =>
    \A i \in 1 .. j - 1 : /\ filings[i].tour = "independent"
                          /\ filings[i].from # filings[j].from

(* Talking does not move the count: whatever is replied, revised or        *)
(* corrected afterwards, in whatever tour, every synthesis of the session, *)
(* the earlier ones too, is the verdict of its filings as they stand now.  *)
VerdictIsSettled ==
  \A k \in DOMAIN syntheses : syntheses[k] = Verdict(filings)

(* Consensus is not exported: an entry marked "consensus" was made from no *)
(* other, by no share and no reevaluation of whatever entry; and unless a  *)
(* caller wrote it himself it stands at the session's own project and      *)
(* client, and every independent filing of the session holds one position. *)
ConsensusIsLocal ==
  \A i \in DOMAIN MEMORY : MEMORY[i].status = "consensus" =>
    /\ MEMORY[i].origin = 0
    /\ \/ MEMORY[i].direct
       \/ MEMORY[i].at = place /\ Cardinality(Rows(filings)) = 1

(* Disagreement is data: along any chain of shares and reevaluations an    *)
(* entry names everyone who disagreed in any entry of the chain, so that   *)
(* no dispute a session wrote travels as an uncontested one.  The entries  *)
(* of a chain are those in every set that holds its last and their origins.*)
Ancestors(i) ==
  {j \in DOMAIN MEMORY :
     \A line \in SUBSET DOMAIN MEMORY :
       i \in line /\ (\A e \in line : MEMORY[e].origin # 0 => MEMORY[e].origin \in line)
         => j \in line}

DissentTravels ==
  \A i \in DOMAIN MEMORY : \A j \in Ancestors(i) :
    /\ MEMORY[j].disagreement \subseteq MEMORY[i].disagreement
    /\ MEMORY[j].status = "disputed" /\ ~MEMORY[j].direct
         => MEMORY[i].disagreement # {}

(* A consensus is that of independent filings: an entry marked "consensus" *)
(* is of a session whose independent filings hold one position.            *)
(* Not kept by the code: remember() takes the status its caller gives.     *)
ConsensusIsEarned ==
  \A i \in DOMAIN MEMORY : MEMORY[i].status = "consensus" =>
    Cardinality(Rows(filings)) = 1

(* "disagreements remain visible" (cognition.mjs:563): what comes of a     *)
(* disputed entry names someone who disagreed.                             *)
(* Not kept by the code: remember() takes "disputed" with nobody named.    *)
DisputesNameSomeone ==
  \A i \in DOMAIN MEMORY : \A j \in Ancestors(i) :
    MEMORY[j].status = "disputed" => MEMORY[i].disagreement # {}

(* "Inter-project share is voluntary, traced, never implicit"              *)
(* (cognition.mjs:620): an entry that stands in another project than the   *)
(* one it was made from was made by a call that passed explicit: true.     *)
(* Not kept by the code: reevaluate() asks for no such flag.               *)
NoImplicitShare ==
  \A i \in DOMAIN MEMORY : MEMORY[i].origin # 0 =>
    \/ MEMORY[i].at.project = MEMORY[MEMORY[i].origin].at.project
    \/ MEMORY[i].explicit
=============================================================================
