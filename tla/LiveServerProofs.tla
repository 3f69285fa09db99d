-------------------------- MODULE LiveServerProofs --------------------------
(***************************************************************************)
(* Theorems of the server of live/, for any customers, keys, calls and     *)
(* mishaps: what a replayed answer tells is true, and calls with one key   *)
(* that follow one another take effect once.                               *)
(***************************************************************************)
EXTENDS LiveServer, FiniteSetTheorems, TLAPS

-----------------------------------------------------------------------------
(* Typing. *)

\* Where the handlers are and what they answered; only a call with a key looks one
\* up or is recorded.
HandlersOK ==
    /\ \A c \in Calls : pc[c] \in {"lookup", "keep"} => Keyed(c)
    /\ pc \in [Calls -> Places]
    /\ status \in [Calls -> Outcomes]
    /\ answer \in [Calls -> Calls \cup {NoCall}]

\* What the tables hold, and who is whom.
TablesOK ==
    /\ customers \subseteq Emails
    /\ session \in [Calls -> SessionStates]
    /\ kept \in [Slots -> Calls \cup {NoCall}]
    /\ effects \subseteq Calls

TypeInv == HandlersOK /\ TablesOK /\ bearer \in [Calls -> Calls \cup {NoCall}]
           /\ blurred \subseteq Slots /\ mishaps \in 0 .. MaxMishaps

LEMMA TypesHold == TypeInv => TypeOK
BY DEF TypeInv, TypeOK, HandlersOK, TablesOK

LEMMA InitType == Init => TypeInv
BY ServerConstants DEF Init, TypeInv, HandlersOK, TablesOK, SessionStates, Places, Outcomes

LEMMA GotoType ==
    ASSUME HandlersOK, NEW c \in Calls, NEW place \in Handling, Goto(c, place),
           place \in {"lookup", "keep"} => Keyed(c)
    PROVE  HandlersOK'
BY DEF HandlersOK, Goto, Places

LEMMA SendType ==
    ASSUME HandlersOK, NEW c \in Calls, NEW outcome \in Outcomes, Send(c, outcome)
    PROVE  HandlersOK'
BY DEF HandlersOK, Send, Places

LEMMA SendPersistType ==
    ASSUME HandlersOK, NEW c \in Calls, NEW outcome \in Outcomes, SendPersist(c, outcome)
    PROVE  HandlersOK'
<1>1. CASE Send(c, outcome)
  BY <1>1, SendType
<1>2. CASE Keyed(c)
  BY <1>2 DEF SendPersist, HandlersOK, Places, Handling
<1> QED BY <1>1, <1>2 DEF SendPersist

LEMMA AccountType == ASSUME TypeInv, NEW c \in Calls, Account(c) PROVE TypeInv'
<1> USE DEF Outcomes, Handling
<1>e. EmailOf[c] \in Emails /\ HandlersOK
  BY ServerConstants DEF TypeInv
<1>1. HandlersOK'
  <2>1. CASE Goto(c, "hash")
    BY <1>e, <2>1, GotoType
  <2>2. CASE \E outcome \in {"ok", "refused", "failed"} : Send(c, outcome)
    BY <1>e, <2>2, SendType
  <2>3. CASE UNCHANGED <<pc, status, answer>>
    BY <1>e, <2>3 DEF HandlersOK
  <2> QED BY <2>1, <2>2, <2>3 DEF Account, CheckEmail, Register, FindCustomer, Login, Expire
<1>2. TablesOK'
  BY <1>e
  DEF TypeInv, TablesOK, tables, Account, CheckEmail, Register, FindCustomer, Login, Expire,
      SessionStates
<1> QED BY <1>1, <1>2 DEF TypeInv, Account, CheckEmail, Register, FindCustomer, Login, Expire

LEMMA AuthenticateType == ASSUME TypeInv, NEW c \in Calls, Authenticate(c) PROVE TypeInv'
<1> USE DEF Outcomes, Handling
<1>1. HandlersOK'
  <2>1. CASE \E place \in {"lookup", "work"} : Goto(c, place) /\ (place = "lookup" => Keyed(c))
    BY <2>1, GotoType DEF TypeInv
  <2>2. CASE Send(c, "refused")
    BY <2>2, SendType DEF TypeInv
  <2> QED BY <2>1, <2>2 DEF Authenticate
<1> QED BY <1>1 DEF TypeInv, TablesOK, tables, Authenticate

LEMMA KeyedSlot == ASSUME NEW c \in Calls, Keyed(c) PROVE Slot(c) \in Slots
BY ServerConstants DEF Keyed, Slot, Slots

LEMMA PostType == ASSUME TypeInv, NEW c \in Calls, Post(c) PROVE TypeInv'
<1> USE DEF Outcomes, Handling
<1>0. HandlersOK /\ TablesOK
  BY DEF TypeInv
<1>1. CASE Lookup(c)
  <2>1. Slot(c) \in Slots
    BY <1>1, <1>0, KeyedSlot DEF Lookup, HandlersOK
  <2>2. CASE Goto(c, "work")
    <3>1. HandlersOK'
      BY <1>0, <2>2, GotoType
    <3> QED BY <1>1, <2>1, <3>1 DEF Lookup, tables, TypeInv, TablesOK
  <2>3. CASE KeptFor(c) # NoCall
    <3>1. KeptFor(c) \in Calls \cup {NoCall}
      BY <2>1, <1>0 DEF KeptFor, TablesOK
    <3>2. HandlersOK'
      BY <1>0, <1>1, <2>3, <3>1 DEF Lookup, HandlersOK, Places
    <3> QED BY <1>1, <2>3, <3>2 DEF Lookup, tables, TypeInv, TablesOK
  <2> QED BY <1>1, <2>2, <2>3 DEF Lookup
<1>2. CASE Logout(c)
  <2>1. HandlersOK'
    BY <1>0, <1>2, SendType DEF Logout
  <2> QED BY <1>2, <2>1 DEF Logout, TypeInv, TablesOK, SessionStates
<1>3. CASE Keep(c)
  <2>1. Slot(c) \in Slots
    BY <1>3, <1>0, KeyedSlot DEF Keep, HandlersOK
  <2>2. HandlersOK'
    BY <1>0, <1>3, SendType DEF Keep, HandlersOK
  <2>3. kept' \in [Slots -> Calls \cup {NoCall}]
    BY <1>0, <1>3, <2>1 DEF Keep, Record, TablesOK
  <2> QED BY <1>3, <2>2, <2>3 DEF Keep, TypeInv, TablesOK
<1>4. CASE \/ Refuse(c) \/ CreateRequest(c) \/ AskRail(c) \/ WriteOrder(c) \/ WriteEvent(c)
           \/ RunUnkept(c)
  <2>1. HandlersOK'
    <3>1. CASE \E place \in {"write", "event"} : Goto(c, place)
      BY <1>0, <3>1, GotoType
    <3>2. CASE \E outcome \in {"ok", "refused", "failed"} : Send(c, outcome) \/ SendPersist(c, outcome)
      BY <1>0, <3>2, SendType, SendPersistType
    <3> QED BY <1>4, <3>1, <3>2 DEF Refuse, CreateRequest, AskRail, WriteOrder, WriteEvent, RunUnkept
  <2>2. effects' \in {effects, effects \cup {c}} /\ UNCHANGED <<customers, session, kept, bearer, blurred, mishaps>>
    BY <1>4 DEF Refuse, CreateRequest, AskRail, WriteOrder, WriteEvent, RunUnkept, Commit, tables
  <2> QED BY <2>1, <2>2 DEF TypeInv, TablesOK
<1> QED BY <1>1, <1>2, <1>3, <1>4 DEF Post

LEMMA MishapType ==
    ASSUME TypeInv, (\E c \in Calls : StatementFails(c)) \/ Crash
    PROVE  TypeInv'
<1>1. mishaps' \in 0 .. MaxMishaps
  <2>1. mishaps < MaxMishaps /\ mishaps' = mishaps + 1
    BY DEF StatementFails, Crash, Mishap
  <2>2. MaxMishaps \in Nat /\ mishaps \in 0 .. MaxMishaps
    BY ServerConstants DEF TypeInv
  <2> QED BY <2>1, <2>2
<1>2. blurred' \subseteq Slots
  BY KeyedSlot DEF TypeInv, StatementFails, Crash, Blur
<1>3. HandlersOK'
  <2>1. ASSUME NEW c \in Calls, StatementFails(c) PROVE HandlersOK'
    <3>1. (IF pc[c] = "keep" THEN status[c] ELSE "failed") \in Outcomes
      BY DEF TypeInv, HandlersOK, Outcomes
    <3> QED BY <2>1, <3>1, SendType DEF TypeInv, StatementFails
  <2>2. CASE Crash
    BY <2>2 DEF TypeInv, HandlersOK, Crash, Places
  <2> QED BY <2>1, <2>2
<1> QED BY <1>1, <1>2, <1>3 DEF TypeInv, TablesOK, tables, StatementFails, Crash

LEMMA NextType == ASSUME TypeInv, [Next]_vars PROVE TypeInv'
<1>1. CASE UNCHANGED vars
  BY <1>1 DEF vars, TypeInv, HandlersOK, TablesOK
<1> QED BY <1>1, AccountType, AuthenticateType, PostType, MishapType DEF Next

\* Every statement of every handler, an error and a crash leave the tables and the
\* handlers of their types.
THEOREM ServerTypeCorrect == Spec => []TypeOK
BY InitType, NextType, TypesHold, PTL DEF Spec

-----------------------------------------------------------------------------
(* Stored answers. *)

\* A record is of a call under the key it is recorded for.
RecordsAreOwn ==
    \A s \in Slots : kept[s] # NoCall => Keyed(kept[s]) /\ Slot(kept[s]) = s

\* A handler past its own write has committed.
WrittenIsCommitted == \A c \in Calls : pc[c] = "event" => c \in effects

AnswersInv == RecordsAreOwn /\ WrittenIsCommitted /\ StoredAnswersAreTrue

LEMMA AnswersInit == Init => AnswersInv
BY DEF Init, AnswersInv, RecordsAreOwn, WrittenIsCommitted, StoredAnswersAreTrue

\* The call c gives its own answer, or none yet, and tells of success only after its
\* write.
LEMMA OwnAnswerIsTrue ==
    ASSUME TypeInv, AnswersInv, NEW c \in Calls, NEW place \in Places, NEW outcome,
           pc' = [pc EXCEPT ![c] = place],
           status' = [status EXCEPT ![c] = outcome] \/ UNCHANGED status,
           answer' = [answer EXCEPT ![c] = c] \/ UNCHANGED answer,
           effects \subseteq effects', UNCHANGED kept,
           place = "event" => c \in effects',
           status'[c] = "ok" /\ KindOf[c] \in Posts => c \in effects'
    PROVE  AnswersInv'
BY DEF TypeInv, HandlersOK, TablesOK, AnswersInv, RecordsAreOwn, WrittenIsCommitted,
       StoredAnswersAreTrue

LEMMA AnswersNext == ASSUME TypeInv, AnswersInv, [Next]_vars PROVE AnswersInv'
<1> USE DEF tables, Places, Handling, Posts
<1>1. CASE UNCHANGED vars
  BY <1>1 DEF vars, AnswersInv, RecordsAreOwn, WrittenIsCommitted, StoredAnswersAreTrue
<1>2. ASSUME NEW c \in Calls, Account(c) PROVE AnswersInv'
  <2>1. CASE Expire(c)
    BY <2>1 DEF Expire, AnswersInv, RecordsAreOwn, WrittenIsCommitted, StoredAnswersAreTrue
  <2>2. CASE ~Expire(c)
    <3>1. PICK place \in {"hash", "answered"} : pc' = [pc EXCEPT ![c] = place]
      BY <1>2, <2>2 DEF Account, CheckEmail, Register, FindCustomer, Login, Goto, Send
    <3>2. UNCHANGED <<kept, effects>> /\ KindOf[c] \in {"register", "login"}
      BY <1>2, <2>2 DEF Account, CheckEmail, Register, FindCustomer, Login
    <3>3. /\ \E outcome : status' = [status EXCEPT ![c] = outcome] \/ UNCHANGED status
          /\ answer' = [answer EXCEPT ![c] = c] \/ UNCHANGED answer
      BY <1>2, <2>2 DEF Account, CheckEmail, Register, FindCustomer, Login, Goto, Send
    <3> QED BY <3>1, <3>2, <3>3, OwnAnswerIsTrue
  <2> QED BY <2>1, <2>2
<1>3. ASSUME NEW c \in Calls, Authenticate(c) PROVE AnswersInv'
  <2>1. CASE \E place \in {"lookup", "work"} : Goto(c, place)
    BY <1>3, <2>1, OwnAnswerIsTrue DEF Authenticate, Goto, TypeInv, AnswersInv, StoredAnswersAreTrue
  <2>2. CASE Send(c, "refused")
    BY <1>3, <2>2, OwnAnswerIsTrue DEF Authenticate, Send, TypeInv, HandlersOK
  <2> QED BY <1>3, <2>1, <2>2 DEF Authenticate
<1>4. ASSUME NEW c \in Calls, Lookup(c) PROVE AnswersInv'
  <2>1. Keyed(c) /\ Slot(c) \in Slots
    BY <1>4, KeyedSlot DEF Lookup, TypeInv, HandlersOK
  <2>2. CASE KeptFor(c) # NoCall
    BY <1>4, <2>1, <2>2
    DEF Lookup, KeptFor, TypeInv, HandlersOK, TablesOK, AnswersInv, RecordsAreOwn, WrittenIsCommitted,
        StoredAnswersAreTrue
  <2>3. CASE Goto(c, "work")
    BY <1>4, <2>3, OwnAnswerIsTrue DEF Lookup, Goto, AnswersInv, StoredAnswersAreTrue
  <2> QED BY <1>4, <2>2, <2>3 DEF Lookup
<1>5. ASSUME NEW c \in Calls, Logout(c) PROVE AnswersInv'
  BY <1>5, OwnAnswerIsTrue DEF Logout, Send
<1>6. ASSUME NEW c \in Calls, Keep(c) PROVE AnswersInv'
  <2>1. Keyed(c) /\ Slot(c) \in Slots
    BY <1>6, KeyedSlot DEF Keep, TypeInv, HandlersOK
  <2>2. RecordsAreOwn'
    BY <1>6, <2>1 DEF Keep, Record, TypeInv, TablesOK, AnswersInv, RecordsAreOwn
  <2> QED BY <1>6, <2>2
      DEF Keep, Send, TypeInv, HandlersOK, AnswersInv, WrittenIsCommitted, StoredAnswersAreTrue
<1>7. ASSUME NEW c \in Calls,
             \/ Refuse(c) \/ CreateRequest(c) \/ AskRail(c) \/ WriteOrder(c) \/ WriteEvent(c)
             \/ RunUnkept(c)
      PROVE  AnswersInv'
  <2>1. PICK place \in {"write", "event", "keep", "answered"} : pc' = [pc EXCEPT ![c] = place]
    BY <1>7
    DEF Refuse, CreateRequest, AskRail, WriteOrder, WriteEvent, RunUnkept, Goto, Send, SendPersist
  <2>2. /\ effects \subseteq effects' /\ UNCHANGED kept
        /\ place = "event" => c \in effects'
    BY <1>7, <2>1
    DEF Refuse, CreateRequest, AskRail, WriteOrder, WriteEvent, RunUnkept, Commit, Goto, Send,
        SendPersist, TypeInv, HandlersOK
  <2>3. PICK outcome \in {"ok", "refused", "failed"} :
           /\ status' = [status EXCEPT ![c] = outcome] \/ UNCHANGED status
           /\ outcome = "ok" => c \in effects'
    BY <1>7
    DEF Refuse, CreateRequest, AskRail, WriteOrder, WriteEvent, RunUnkept, Commit, Goto, Send,
        SendPersist, AnswersInv, WrittenIsCommitted
  <2>4. status'[c] = "ok" /\ KindOf[c] \in Posts => c \in effects'
    BY <2>2, <2>3 DEF TypeInv, HandlersOK, AnswersInv, StoredAnswersAreTrue
  <2>5. answer' = [answer EXCEPT ![c] = c] \/ UNCHANGED answer
    BY <1>7
    DEF Refuse, CreateRequest, AskRail, WriteOrder, WriteEvent, RunUnkept, Goto, Send, SendPersist
  <2> QED BY <2>1, <2>2, <2>3, <2>4, <2>5, OwnAnswerIsTrue
<1>8. ASSUME NEW c \in Calls, StatementFails(c) PROVE AnswersInv'
  BY <1>8, OwnAnswerIsTrue DEF StatementFails, Send, TypeInv, HandlersOK, AnswersInv, StoredAnswersAreTrue
<1>9. CASE Crash
  BY <1>9 DEF Crash, TypeInv, HandlersOK, AnswersInv, RecordsAreOwn, WrittenIsCommitted, StoredAnswersAreTrue
<1> QED BY <1>1, <1>2, <1>3, <1>4, <1>5, <1>6, <1>7, <1>8, <1>9 DEF Next, Post

\* However calls overlap, fail or are cut off: a call that is given another's answer is
\* given that of a call of its customer with its key, and who is told "ok" by a post is
\* told of something committed.
THEOREM AnswersAreTrue == Spec => []StoredAnswersAreTrue
<1>1. AnswersInv => StoredAnswersAreTrue
  BY DEF AnswersInv
<1> QED BY <1>1, InitType, NextType, AnswersInit, AnswersNext, PTL DEF Spec

-----------------------------------------------------------------------------
(* One effect in sequence. *)

Same(s) == {c \in Calls : Keyed(c) /\ Slot(c) = s}

\* A key whose calls did not overlap, whose records were written, and whose routes
\* record their answers.
Orderly(s) == s \notin blurred /\ \A c \in Same(s) : KindOf[c] # "unkept"

\* Between the look-up and the record of an answer.
UnderWay == {"work", "write", "event", "keep"}

\* One call of an orderly key is under way, and only while there is no record; a call
\* that took effect is about to be recorded, or there is a record, its own or another's;
\* so the next one is never taken to its handler.
OneAtATime ==
    \A s \in Slots : Orderly(s) => \A c \in Same(s) :
        /\ pc[c] \in UnderWay =>
               kept[s] = NoCall /\ \A d \in Same(s) : pc[d] \in UnderWay => d = c
        /\ c \in effects => pc[c] \in {"event", "keep"} \/ kept[s] # NoCall
        /\ c \in effects => \A d \in Same(s) : d \in effects => d = c

LEMMA OneAtATimeInit == Init => OneAtATime
BY DEF Init, OneAtATime, UnderWay, Same

\* A statement of c that neither commits nor records, and enters no handler.
LEMMA StepKeepsOrder ==
    ASSUME TypeInv, OneAtATime, NEW c \in Calls, NEW place \in Places,
           pc' = [pc EXCEPT ![c] = place], UNCHANGED <<kept, effects>>, blurred \subseteq blurred',
           place \in UnderWay => pc[c] \in UnderWay \/ ~Keyed(c),
           Keyed(c) /\ c \in effects /\ pc[c] \in {"event", "keep"} /\ place \notin {"event", "keep"} =>
               Slot(c) \in blurred'
    PROVE  OneAtATime'
BY DEF TypeInv, HandlersOK, OneAtATime, Orderly, Same

\* The handler c commits: no other call of its key has, as there is no record.
LEMMA CommitKeepsOrder ==
    ASSUME TypeInv, OneAtATime, NEW c \in Calls, NEW place \in {"event", "keep", "answered"},
           pc' = [pc EXCEPT ![c] = place], effects' = effects \cup {c}, UNCHANGED <<kept, blurred>>,
           pc[c] \in UnderWay, Keyed(c) /\ KindOf[c] # "unkept" => place # "answered"
    PROVE  OneAtATime'
<1> SUFFICES ASSUME NEW s \in Slots, Orderly(s), NEW d \in Same(s)
             PROVE  /\ pc'[d] \in UnderWay =>
                           kept[s] = NoCall /\ \A e \in Same(s) : pc'[e] \in UnderWay => e = d
                    /\ d \in effects' => pc'[d] \in {"event", "keep"} \/ kept[s] # NoCall
                    /\ d \in effects' => \A e \in Same(s) : e \in effects' => e = d
  BY DEF OneAtATime, Orderly, Same
<1>1. CASE c \notin Same(s)
  BY <1>1 DEF OneAtATime, Same, TypeInv, HandlersOK
<1>2. CASE c \in Same(s)
  <2>1. place # "answered"
    BY <1>2 DEF Orderly, Same
  <2>2. /\ kept[s] = NoCall
        /\ \A e \in Same(s) : pc[e] \in UnderWay => e = c
    BY <1>2 DEF OneAtATime
  <2>3. \A e \in Same(s) : e \in effects => e = c
    BY <2>2 DEF OneAtATime, UnderWay
  <2>4. pc'[c] = place /\ \A e \in Same(s) : e # c => pc'[e] = pc[e]
    BY DEF TypeInv, HandlersOK, Same
  <2> QED BY <1>2, <2>1, <2>2, <2>3, <2>4
<1> QED BY <1>1, <1>2

LEMMA OneAtATimeNext == ASSUME TypeInv, OneAtATime, [Next]_vars PROVE OneAtATime'
<1> USE DEF tables, Places, Handling, Posts, UnderWay
<1>1. CASE UNCHANGED vars
  BY <1>1 DEF vars, OneAtATime, Orderly, Same
<1>2. ASSUME NEW c \in Calls, Account(c) PROVE OneAtATime'
  <2>1. CASE Expire(c)
    BY <2>1 DEF Expire, OneAtATime, Orderly, Same
  <2>2. CASE ~Expire(c)
    <3>1. PICK place \in {"hash", "answered"} : pc' = [pc EXCEPT ![c] = place]
      BY <1>2, <2>2 DEF Account, CheckEmail, Register, FindCustomer, Login, Goto, Send
    <3>2. UNCHANGED <<kept, effects, blurred>> /\ pc[c] \in {"idle", "hash"}
      BY <1>2, <2>2 DEF Account, CheckEmail, Register, FindCustomer, Login
    <3> QED BY <3>1, <3>2, StepKeepsOrder
  <2> QED BY <2>1, <2>2
<1>3. ASSUME NEW c \in Calls, Authenticate(c) PROVE OneAtATime'
  <2>1. PICK place \in {"lookup", "work", "answered"} :
            pc' = [pc EXCEPT ![c] = place] /\ (place = "work" => ~Keyed(c))
    BY <1>3 DEF Authenticate, Goto, Send
  <2> QED BY <1>3, <2>1, StepKeepsOrder DEF Authenticate
<1>4. ASSUME NEW c \in Calls, Lookup(c) PROVE OneAtATime'
  <2>1. Keyed(c) /\ Slot(c) \in Slots /\ pc[c] = "lookup" /\ UNCHANGED <<kept, effects>>
    BY <1>4, KeyedSlot DEF Lookup, TypeInv, HandlersOK
  <2>2. CASE KeptFor(c) # NoCall
    BY <1>4, <2>1, <2>2, StepKeepsOrder DEF Lookup
  <2>3. CASE KeptFor(c) = NoCall
    <3>1. /\ pc' = [pc EXCEPT ![c] = "work"] /\ kept[Slot(c)] = NoCall
          /\ blurred \subseteq blurred'
          /\ Slot(c) \notin blurred' => ~Overlapped(c)
      BY <1>4, <2>3 DEF Lookup, Goto, KeptFor
    <3> SUFFICES ASSUME NEW s \in Slots, Orderly(s)', NEW d \in Same(s)
                 PROVE  /\ pc'[d] \in UnderWay =>
                               kept[s] = NoCall /\ \A e \in Same(s) : pc'[e] \in UnderWay => e = d
                        /\ d \in effects => pc'[d] \in {"event", "keep"} \/ kept[s] # NoCall
                        /\ d \in effects => \A e \in Same(s) : e \in effects => e = d
      BY <2>1 DEF OneAtATime, Orderly, Same
    <3>2. Orderly(s)
      BY <3>1 DEF Orderly, Same
    <3>3. pc'[c] = "work" /\ \A e \in Same(s) : e # c => pc'[e] = pc[e]
      BY <3>1 DEF TypeInv, HandlersOK, Same
    <3>4. CASE c \notin Same(s)
      BY <3>2, <3>3, <3>4 DEF OneAtATime
    <3>5. CASE c \in Same(s)
      <4>1. s = Slot(c) /\ kept[s] = NoCall /\ ~Overlapped(c)
        BY <3>1, <3>5 DEF Orderly, Same
      <4>2. \A e \in Same(s) : e # c => pc[e] \notin UnderWay
        BY <4>1 DEF Overlapped, Same
      <4>3. \A e \in Same(s) : e \notin effects
        BY <4>1, <4>2, <2>1, <3>2 DEF OneAtATime
      <4> QED BY <3>3, <4>1, <4>2, <4>3
    <3> QED BY <3>4, <3>5
  <2> QED BY <2>2, <2>3
<1>5. ASSUME NEW c \in Calls, Logout(c) PROVE OneAtATime'
  BY <1>5, StepKeepsOrder DEF Logout, Send
<1>6. ASSUME NEW c \in Calls, Keep(c) PROVE OneAtATime'
  <2>1. /\ Keyed(c) /\ Slot(c) \in Slots /\ pc[c] = "keep" /\ UNCHANGED <<effects, blurred>>
        /\ pc' = [pc EXCEPT ![c] = "answered"]
    BY <1>6, KeyedSlot DEF Keep, Send, TypeInv, HandlersOK
  <2>2. /\ \A s \in Slots : s # Slot(c) => kept'[s] = kept[s]
        /\ kept'[Slot(c)] # NoCall
    BY <1>6, <2>1, ServerConstants DEF Keep, Record, TypeInv, TablesOK
  <2> SUFFICES ASSUME NEW s \in Slots, Orderly(s), NEW d \in Same(s)
               PROVE  /\ pc'[d] \in UnderWay =>
                             kept'[s] = NoCall /\ \A e \in Same(s) : pc'[e] \in UnderWay => e = d
                      /\ d \in effects => pc'[d] \in {"event", "keep"} \/ kept'[s] # NoCall
                      /\ d \in effects => \A e \in Same(s) : e \in effects => e = d
    BY <2>1 DEF OneAtATime, Orderly, Same
  <2>3. pc'[c] = "answered" /\ \A e \in Same(s) : e # c => pc'[e] = pc[e]
    BY <2>1 DEF TypeInv, HandlersOK, Same
  <2>4. CASE s # Slot(c)
    BY <2>2, <2>3, <2>4 DEF OneAtATime, Same
  <2>5. CASE s = Slot(c)
    <3>1. \A e \in Same(s) : pc'[e] \notin UnderWay
      BY <2>1, <2>3, <2>5 DEF OneAtATime, Same
    <3> QED BY <2>2, <2>5, <3>1 DEF OneAtATime
  <2> QED BY <2>4, <2>5
<1>7. ASSUME NEW c \in Calls, Refuse(c) \/ AskRail(c) \/ WriteEvent(c) PROVE OneAtATime'
  <2>1. UNCHANGED <<kept, effects, blurred>> /\ pc[c] \in {"work", "event"}
    BY <1>7 DEF Refuse, AskRail, WriteEvent
  <2>2. PICK place \in {"write", "keep", "answered"} :
            /\ pc' = [pc EXCEPT ![c] = place]
            /\ pc[c] = "event" /\ Keyed(c) => place = "keep"
    BY <1>7 DEF Refuse, AskRail, WriteEvent, Goto, Send, SendPersist
  <2> QED BY <2>1, <2>2, StepKeepsOrder
<1>8. ASSUME NEW c \in Calls, CreateRequest(c) \/ WriteOrder(c) \/ RunUnkept(c) PROVE OneAtATime'
  <2>1. effects' = effects \cup {c} /\ UNCHANGED <<kept, blurred>> /\ pc[c] \in {"work", "write"}
    BY <1>8 DEF CreateRequest, WriteOrder, RunUnkept, Commit
  <2>2. PICK place \in {"event", "keep", "answered"} :
            /\ pc' = [pc EXCEPT ![c] = place]
            /\ Keyed(c) /\ KindOf[c] # "unkept" => place # "answered"
    BY <1>8 DEF CreateRequest, WriteOrder, RunUnkept, Goto, Send, SendPersist
  <2> QED BY <2>1, <2>2, CommitKeepsOrder
<1>9. ASSUME NEW c \in Calls, StatementFails(c) PROVE OneAtATime'
  <2>1. pc' = [pc EXCEPT ![c] = "answered"] /\ UNCHANGED <<kept, effects>>
    BY <1>9 DEF StatementFails, Send
  <2>2. blurred \subseteq blurred' /\ (Keyed(c) /\ c \in effects => Slot(c) \in blurred')
    BY <1>9 DEF StatementFails, Blur
  <2> QED BY <2>1, <2>2, StepKeepsOrder
<1>10. CASE Crash
  <2>1. /\ blurred \subseteq blurred' /\ UNCHANGED <<kept, effects>>
        /\ \A c \in Calls : pc'[c] = IF pc[c] \in Handling THEN "cut" ELSE pc[c]
        /\ \A c \in Calls : pc[c] \in Handling /\ Keyed(c) /\ c \in effects => Slot(c) \in blurred'
    BY <1>10 DEF Crash, Blur
  <2> QED BY <2>1 DEF OneAtATime, Orderly, Same
<1> QED
  BY <1>1, <1>2, <1>3, <1>4, <1>5, <1>6, <1>7, <1>8, <1>9, <1>10 DEF Next, Post

\* A set without two elements has at most one.
LEMMA AtMostOne ==
    ASSUME NEW S, IsFiniteSet(S), \A x, y \in S : x = y
    PROVE  Cardinality(S) <= 1
<1>1. CASE S = {}
  BY <1>1, FS_EmptySet
<1>2. CASE S # {}
  <2>1. PICK x \in S : TRUE
    BY <1>2
  <2>2. S = {x}
    BY <2>1
  <2> QED BY <2>2, FS_Singleton
<1> QED BY <1>1, <1>2

\* Calls with one key that do not overlap take effect once: as long as its record was
\* written, a retry finds it, whatever happened to the answer.
THEOREM OnceUnderAKey == Spec => []OnceInSequence
<1>1. OneAtATime => OnceInSequence
  <2> SUFFICES ASSUME OneAtATime, NEW s \in Slots, Orderly(s)
               PROVE  Cardinality(Same(s) \cap effects) <= 1
    BY DEF OnceInSequence, Orderly, Same
  <2>1. IsFiniteSet(Same(s) \cap effects)
    BY ServerConstants, FS_Subset DEF Same
  <2>2. \A c, d \in Same(s) \cap effects : c = d
    BY DEF OneAtATime
  <2> QED BY <2>1, <2>2, AtMostOne
<1> QED BY <1>1, InitType, NextType, OneAtATimeInit, OneAtATimeNext, PTL DEF Spec
=============================================================================
