---------------------------- MODULE MCLiveServer ----------------------------
(* Instances of LiveServer for TLC: calls by what they are.  The calls of    *)
(* ann are all but reg3, q and q2, which are bob's.                          *)
EXTENDS LiveServer, TLC

CONSTANTS ann, bob, k1, reg1, reg2, reg3, log, out, r1, c1, q, q2

Asked == reg1 :> "register" @@ reg2 :> "register" @@ reg3 :> "register"
         @@ log :> "login" @@ out :> "logout" @@ r1 :> "request"
         @@ c1 :> "commercial" @@ q :> "unkept" @@ q2 :> "unkept"

MCKindOf == [c \in Calls |-> Asked[c]]
MCEmailOf == [c \in Calls |-> IF c \in {reg3, q, q2} THEN bob ELSE ann]
MCKeyOf == [c \in Calls |-> IF Asked[c] \in Posts THEN k1 ELSE NoKey]

Symmetry == Permutations({reg1, reg2})
=============================================================================
