----------------------------- MODULE LiveServer -----------------------------
(***************************************************************************)
(* The HTTP server of ACORN LIVE, live/server.mjs: accounts, sessions and  *)
(* idempotency keys.                                                       *)
(*                                                                         *)
(* The server handles any number of calls at a time and gives way at every *)
(* await, so an action is one statement of a handler.  A POST with an      *)
(* Idempotency-Key reads the table idempotency_keys before its handler     *)
(* runs and is recorded there after it, in a statement of its own whose    *)
(* error is swallowed.  A retry is another call with the same key.         *)
(***************************************************************************)
EXTENDS Integers, FiniteSets

CONSTANTS
    Emails,      \* customers, by the address that identifies them
    Keys, NoKey, \* values of the Idempotency-Key header; NoKey: none was sent
    Calls,       \* the calls clients may make; a token is named by the call that made it
    NoCall,      \* nobody
    KindOf,      \* what a call asks for, see Kinds
    EmailOf,     \* whose call it is
    KeyOf,       \* its key
    Faults,      \* the mishaps this instance admits
    MaxMishaps   \* bound on their number in a behaviour

(***************************************************************************)
(* "request": POST /requests and /customer/demand, one transaction.        *)
(* "commercial": the routes of handleAuthedCommercial, here the checkout,  *)
(* which asks the payment rail and then writes two statements.  "unkept":  *)
(* the routes that answer with send and so never record a key, such as     *)
(* /connections/measure, /runtime/plan, /runtime/run, /runtime/external.   *)
(***************************************************************************)
Posts == {"request", "commercial", "unkept"}
Kinds == {"register", "login", "logout"} \cup Posts

\* "error": a statement is rejected; "crash": the server dies and is started again.
FaultKinds == {"error", "crash"}

ASSUME ServerConstants ==
    /\ IsFiniteSet(Calls)
    /\ NoCall \notin Calls
    /\ NoKey \notin Keys
    /\ KindOf \in [Calls -> Kinds]
    /\ EmailOf \in [Calls -> Emails]
    /\ KeyOf \in [Calls -> Keys \cup {NoKey}]
    /\ Faults \subseteq FaultKinds
    /\ MaxMishaps \in Nat

VARIABLES
    customers,  \* addresses with a row in customers (email is UNIQUE)
    session,    \* the token a call made, as a row of sessions
    kept,       \* idempotency_keys: whose answer is stored under a customer's key
    pc,         \* the statement a call's handler is at
    bearer,     \* the token a call carries
    status,     \* how its own handler ended
    answer,     \* whose answer the client was given
    effects,    \* calls whose writes are committed
    blurred,    \* history: keys whose calls overlapped or whose record was lost
    mishaps

vars == <<customers, session, kept, pc, bearer, status, answer, effects, blurred, mishaps>>
tables == <<customers, session, kept, effects>>

Slots == Emails \X Keys
Keyed(c) == KeyOf[c] # NoKey
Slot(c) == <<EmailOf[c], KeyOf[c]>>

SessionStates == {"none", "live", "expired", "revoked"}
Outcomes == {"none", "ok", "refused", "failed"}
\* Where a handler waits for the database, for scrypt or for the rail.
Handling == {"hash", "lookup", "work", "write", "event", "keep"}
Places == {"idle", "answered", "cut"} \cup Handling

TypeOK ==
    /\ customers \subseteq Emails
    /\ session \in [Calls -> SessionStates]
    /\ kept \in [Slots -> Calls \cup {NoCall}]
    /\ pc \in [Calls -> Places]
    /\ bearer \in [Calls -> Calls \cup {NoCall}]
    /\ status \in [Calls -> Outcomes]
    /\ answer \in [Calls -> Calls \cup {NoCall}]
    /\ effects \subseteq Calls
    /\ blurred \subseteq Slots
    /\ mishaps \in 0..MaxMishaps

Init ==
    /\ customers = {}
    /\ session = [c \in Calls |-> "none"]
    /\ kept = [s \in Slots |-> NoCall]
    /\ pc = [c \in Calls |-> "idle"]
    /\ bearer = [c \in Calls |-> NoCall]
    /\ status = [c \in Calls |-> "none"]
    /\ answer = [c \in Calls |-> NoCall]
    /\ effects = {}
    /\ blurred = {}
    /\ mishaps = 0

-----------------------------------------------------------------------------
\* The handler of c goes on at another statement.
Goto(c, place) ==
    /\ pc' = [pc EXCEPT ![c] = place]
    /\ UNCHANGED <<status, answer>>

\* The handler is done and sends its own answer, recording nothing (send).
Send(c, outcome) ==
    /\ pc' = [pc EXCEPT ![c] = "answered"]
    /\ status' = [status EXCEPT ![c] = outcome]
    /\ answer' = [answer EXCEPT ![c] = c]

SendUnrecorded(c, outcome) == Send(c, outcome)

\* The handler is done and records its answer before it sends it (sendPersist).
SendPersist(c, outcome) ==
    IF Keyed(c) THEN /\ pc' = [pc EXCEPT ![c] = "keep"]
                     /\ status' = [status EXCEPT ![c] = outcome]
                     /\ UNCHANGED answer
                ELSE Send(c, outcome)

-----------------------------------------------------------------------------
(* Accounts and sessions.                                                  *)

\* register looks the address up before it hashes the password.
CheckEmail(c) ==
    /\ KindOf[c] = "register" /\ pc[c] = "idle"
    /\ IF EmailOf[c] \in customers THEN Send(c, "refused") ELSE Goto(c, "hash")
    /\ UNCHANGED <<tables, bearer, blurred, mishaps>>

\* One transaction writes the customer and the first session; a second row
\* with the address is rejected by the UNIQUE column.
Register(c) ==
    /\ KindOf[c] = "register" /\ pc[c] = "hash"
    /\ \/ /\ EmailOf[c] \notin customers
          /\ customers' = customers \cup {EmailOf[c]}
          /\ session' = [session EXCEPT ![c] = "live"]
          /\ Send(c, "ok")
       \/ /\ EmailOf[c] \in customers
          /\ Send(c, "failed")
          /\ UNCHANGED <<customers, session>>
    /\ UNCHANGED <<kept, effects, bearer, blurred, mishaps>>

\* login reads the customer; the password is verified or not.
FindCustomer(c) ==
    /\ KindOf[c] = "login" /\ pc[c] = "idle"
    /\ \/ EmailOf[c] \in customers /\ Goto(c, "hash")
       \/ Send(c, "refused")
    /\ UNCHANGED <<tables, bearer, blurred, mishaps>>

Login(c) ==
    /\ KindOf[c] = "login" /\ pc[c] = "hash"
    /\ session' = [session EXCEPT ![c] = "live"]
    /\ Send(c, "ok")
    /\ UNCHANGED <<customers, kept, effects, bearer, blurred, mishaps>>

\* Thirty days go by.
Expire(c) ==
    /\ session[c] = "live"
    /\ session' = [session EXCEPT ![c] = "expired"]
    /\ UNCHANGED <<customers, kept, pc, bearer, status, answer, effects, blurred, mishaps>>

\* requireAuth, with a token its client was given: the row is there and has
\* not expired.
Authenticate(c) ==
    /\ KindOf[c] \notin {"register", "login"} /\ pc[c] = "idle"
    /\ \E t \in Calls :
          /\ session[t] # "none" /\ EmailOf[t] = EmailOf[c]
          /\ bearer' = [bearer EXCEPT ![c] = t]
          /\ IF session[t] = "live" THEN Goto(c, IF Keyed(c) THEN "lookup" ELSE "work")
                                    ELSE Send(c, "refused")
    /\ UNCHANGED <<tables, blurred, mishaps>>

\* Another call with the key of c is past its look-up and not answered yet.
Overlapped(c) ==
    \E d \in Calls \ {c} :
        /\ Keyed(d) /\ Slot(d) = Slot(c)
        /\ pc[d] \in Handling \ {"lookup"}

KeptForAnybody(c) ==
    IF \E e \in Emails : kept[<<e, KeyOf[c]>>] # NoCall
    THEN CHOOSE d \in Calls : \E e \in Emails : kept[<<e, KeyOf[c]>>] = d
    ELSE NoCall

\* readIdempotency: the key is looked up among those of the customer alone.
KeptFor(c) == kept[Slot(c)]

\* A stored answer is sent as it is; otherwise the handler runs.
Lookup(c) ==
    /\ pc[c] = "lookup"
    /\ IF KeptFor(c) # NoCall
       THEN /\ pc' = [pc EXCEPT ![c] = "answered"]
            /\ answer' = [answer EXCEPT ![c] = KeptFor(c)]
            /\ UNCHANGED <<status, blurred>>
       ELSE /\ Goto(c, "work")
            /\ blurred' = IF Overlapped(c) THEN blurred \cup {Slot(c)} ELSE blurred
    /\ UNCHANGED <<tables, bearer, mishaps>>

\* The session is deleted by the token's hash.
Logout(c) ==
    /\ KindOf[c] = "logout" /\ pc[c] = "work"
    /\ session' = [session EXCEPT ![bearer[c]] = "revoked"]
    /\ Send(c, "ok")
    /\ UNCHANGED <<customers, kept, bearer, effects, blurred, mishaps>>

-----------------------------------------------------------------------------
(* Posts.                                                                  *)

\* Invalid input, or a row that is not the customer's.  The commercial routes
\* record what they refuse, except a body that is no JSON; the others do not.
Refuse(c) ==
    /\ KindOf[c] \in Posts /\ pc[c] = "work"
    /\ \/ Send(c, "refused")
       \/ KindOf[c] = "commercial" /\ SendPersist(c, "refused")
    /\ UNCHANGED <<tables, bearer, blurred, mishaps>>

Commit(c) == effects' = effects \cup {c}

\* The transaction of POST /requests.
CreateRequest(c) ==
    /\ KindOf[c] = "request" /\ pc[c] = "work"
    /\ Commit(c)
    /\ SendPersist(c, "ok")
    /\ UNCHANGED <<customers, session, kept, bearer, blurred, mishaps>>

\* The payment rail answers, or it does not: 502, which is recorded too.
AskRail(c) ==
    /\ KindOf[c] = "commercial" /\ pc[c] = "work"
    /\ Goto(c, "write") \/ SendPersist(c, "failed")
    /\ UNCHANGED <<tables, bearer, blurred, mishaps>>

\* The order is written, then the event about it.
WriteOrder(c) ==
    /\ pc[c] = "write"
    /\ Commit(c)
    /\ Goto(c, "event")
    /\ UNCHANGED <<customers, session, kept, bearer, blurred, mishaps>>

WriteEventUnlisted(c) ==
    /\ pc[c] = "event"
    /\ SendPersist(c, "created")
    /\ UNCHANGED <<tables, bearer, blurred, mishaps>>

WriteEvent(c) ==
    /\ pc[c] = "event"
    /\ SendPersist(c, "ok")
    /\ UNCHANGED <<tables, bearer, blurred, mishaps>>

\* A route that answers with send.
RunUnkept(c) ==
    /\ KindOf[c] = "unkept" /\ pc[c] = "work"
    /\ Commit(c)
    /\ Send(c, "ok")
    /\ UNCHANGED <<customers, session, kept, bearer, blurred, mishaps>>

\* writeIdempotency: ON CONFLICT DO NOTHING.
Record(c) == IF kept[Slot(c)] = NoCall THEN [kept EXCEPT ![Slot(c)] = c] ELSE kept

Keep(c) ==
    /\ pc[c] = "keep"
    /\ kept' = Record(c)
    /\ Send(c, status[c])
    /\ UNCHANGED <<customers, session, bearer, effects, blurred, mishaps>>

-----------------------------------------------------------------------------
(* Mishaps.                                                                *)

Mishap(kind) ==
    /\ kind \in Faults /\ mishaps < MaxMishaps
    /\ mishaps' = mishaps + 1

\* What a handler had committed is not on record under its key.
Blur(cs) == blurred' = blurred \cup {Slot(c) : c \in {d \in cs : Keyed(d) /\ d \in effects}}

\* A statement is rejected: 500, sent and not recorded, whatever the handler
\* wrote before; but the error of the record itself is swallowed.
StatementFails(c) ==
    /\ pc[c] \in Handling
    /\ Mishap("error")
    /\ Send(c, IF pc[c] = "keep" THEN status[c] ELSE "failed")
    /\ Blur({c})
    /\ UNCHANGED <<tables, bearer>>

\* The server dies: every call in flight is cut off.
Crash ==
    LET inFlight == {c \in Calls : pc[c] \in Handling} IN
    /\ inFlight # {}
    /\ Mishap("crash")
    /\ pc' = [c \in Calls |-> IF c \in inFlight THEN "cut" ELSE pc[c]]
    /\ Blur(inFlight)
    /\ UNCHANGED <<tables, bearer, status, answer>>

-----------------------------------------------------------------------------
Account(c) == CheckEmail(c) \/ Register(c) \/ FindCustomer(c) \/ Login(c) \/ Expire(c)
Post(c) == \/ Lookup(c) \/ Logout(c) \/ Refuse(c) \/ CreateRequest(c) \/ AskRail(c)
           \/ WriteOrder(c) \/ WriteEvent(c) \/ RunUnkept(c) \/ Keep(c)

Next ==
    \/ \E c \in Calls : Account(c) \/ Authenticate(c) \/ Post(c) \/ StatementFails(c)
    \/ Crash

Spec == Init /\ [][Next]_vars

-----------------------------------------------------------------------------
(* Properties.                                                             *)

\* An answer under a key was given by a call of that customer with that key,
\* after what it says it did was committed; so a replay tells of something
\* that is there, and never of another customer.
StoredAnswersAreTrue ==
    \A c \in Calls :
        /\ c # answer[c] /\ answer[c] # NoCall =>
              Keyed(c) /\ Keyed(answer[c]) /\ Slot(answer[c]) = Slot(c)
        /\ status[c] = "ok" /\ KindOf[c] \in Posts => c \in effects

\* Calls with one key that follow one another, on routes that record it, take
\* effect once, as long as the record itself was written.
OnceInSequence ==
    \A s \in Slots :
        LET same == {c \in Calls : Keyed(c) /\ Slot(c) = s} IN
        s \notin blurred /\ (\A c \in same : KindOf[c] # "unkept")
            => Cardinality(same \cap effects) <= 1

\* A client that was told of a failure, or of nothing, can send the call again
\* under its key; one effect per key, whatever the route and the timing.
\* Not kept by the code: of two overlapping calls neither finds an answer, and
\* the "unkept" routes record none.
OneEffectPerKey ==
    \A s \in Slots : Cardinality({c \in effects : Keyed(c) /\ Slot(c) = s}) <= 1
=============================================================================
