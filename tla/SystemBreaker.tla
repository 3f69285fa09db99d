--------------------------- MODULE SystemBreaker ---------------------------
(***************************************************************************)
(* The global breaker, .github/swarm/system-breaker.mjs: the mode that is  *)
(* kept in the environment, the commands that only Carl may give, and the  *)
(* policy that cuts without him.  The parsing of a command and the level,  *)
(* which is only reported, are left out.                                   *)
(***************************************************************************)
EXTENDS Naturals

CONSTANT Conditions \* the conditions that survival may be asked for

VARIABLES
    mode,   \* env.ACORN_SYSTEM_MODE, or "unset"
    ordered \* history: a cut was ordered, by the policy or by Carl, and Carl has
            \* not reopened since

breakerVars == <<mode, ordered>>

Modes == {"RUN", "OFF", "DEBUG"}
Cutting == {"HARD_CUT", "SURVIVAL_MODE"}

CatastrophicLevel == [
    INTEGRITY_LOSS            |-> "HARD_CUT",
    UNCONTROLLED_PROPAGATION  |-> "HARD_CUT",
    MULTI_DOMAIN_COMPROMISE   |-> "ISOLATE",
    MASS_NETWORK_ANOMALY      |-> "ISOLATE",
    CONTROL_PLANE_CORRUPTION  |-> "HARD_CUT",
    CRITICAL_POLICY_VIOLATION |-> "CONTAIN",
    EXFILTRATION_DETECTED     |-> "HARD_CUT",
    TRUST_PATH_COMPROMISE     |-> "HARD_CUT",
    INTEGRITY_UNPROVABLE      |-> "SURVIVAL_MODE" ]

Spread(level, compromised) ==
    CASE compromised >= 3 -> "HARD_CUT"
      [] compromised = 2 /\ level = "CONTAIN" -> "ISOLATE"
      [] OTHER -> level

\* evaluateSurvivalPolicy: what is not documented is watched, what is not
\* certain is contained and never cut.
PolicyLevel(condition, compromised, certain) ==
    IF condition \notin DOMAIN CatastrophicLevel
    THEN "WATCH"
    ELSE LET level == Spread(CatastrophicLevel[condition], compromised)
         IN  IF ~certain /\ level \in Cutting THEN "CONTAIN" ELSE level

ApplyBreakerCommand(actor, command) ==
    IF actor = "carl"
    THEN mode' = command /\ ordered' = (command = "OFF")
    ELSE UNCHANGED breakerVars

\* A mistake would let the level decide the mode both ways.
ModeByLevel(level) == IF level \in Cutting THEN "OFF" ELSE "RUN"
ModeUnder(level) == IF level \in Cutting THEN "OFF" ELSE mode

ApplySurvivalPolicy(level) ==
    /\ mode' = ModeUnder(level)
    /\ ordered' = (ordered \/ level \in Cutting)

HumanRecover(actor) ==
    IF actor = "carl"
    THEN mode' = "RUN" /\ ordered' = FALSE
    ELSE UNCHANGED breakerVars
=============================================================================
