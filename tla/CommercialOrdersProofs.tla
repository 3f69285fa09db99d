----------------------- MODULE CommercialOrdersProofs -----------------------
(***************************************************************************)
(* Theorems about CommercialOrders for every number of requests, orders    *)
(* and events, every content of the events and every set of mishaps.       *)
(***************************************************************************)
EXTENDS CommercialOrders, FiniteSetTheorems, TLAPS

-----------------------------------------------------------------------------
(* Type correctness.  What a handler is about fits the place it is at.     *)

\* A webhook that has found the order of its event.
OrderFound(h) ==
    \/ pc[h] \in {"write", "enqueue", "unqueued"}
    \/ pc[h] = "commit" /\ copy[h].state # "ABSENT"

SubjectFits ==
    \A h \in Handlers : /\ pc[h] \in InWebhook => subject[h] \in Events
                        /\ pc[h] = "accept" => subject[h] \in Offers
                        /\ pc[h] = "rail" => subject[h] \in Orders
                        /\ pc[h] = "retain" => ~Known(subject[h])
                        /\ OrderFound(h) => OrderOf[subject[h]] \in Orders

TypeInv == TypeOK /\ SubjectFits

USE DEF Applying, InWebhook, Places

LEMMA AppliedType ==
    ASSUME NEW row \in Row, NEW e \in Events
    PROVE  Applied(row, e) \in Row
<1>1. NextState(row, e) \in OrderStates \cup {"ABSENT"}
  BY DEF NextState, StateAfter, OrderStates, OpenStates, Row
<1>. QED  BY <1>1 DEF Applied, Row

LEMMA NoRowType == NoRow \in Row
BY DEF NoRow, Row

LEMMA AnswerType ==
    ASSUME TypeInv, NEW h \in Handlers, Answer(h)
    PROVE  /\ pc' \in [Handlers -> Places]
           /\ subject' \in [Handlers -> Events \cup Orders \cup Offers \cup {None}]
           /\ copy' \in [Handlers -> Row]
           /\ SubjectFits'
BY NoRowType DEF TypeInv, TypeOK, SubjectFits, OrderFound, Answer, Goto

LEMMA GotoType ==
    ASSUME TypeInv, NEW h \in Handlers, NEW place \in Places, Goto(h, place),
           UNCHANGED subject,
           \A k \in Handlers \ {h} : copy'[k] = copy[k],
           place \in InWebhook => subject[h] \in Events,
           place \notin {"accept", "rail"},
           place = "retain" => ~Known(subject[h]),
           OrderFound(h)' => OrderOf[subject[h]] \in Orders
    PROVE  /\ pc' \in [Handlers -> Places]
           /\ SubjectFits'
BY DEF TypeInv, TypeOK, SubjectFits, OrderFound, Goto

LEMMA MishapType ==
    ASSUME TypeOK, UNCHANGED mishaps \/ \E kind \in FaultKinds : Mishap(kind)
    PROVE  mishaps' \in Nat
BY DEF TypeOK, Mishap

LEMMA TypeInit == Init => TypeInv
BY NoRowType DEF Init, TypeInv, TypeOK, SubjectFits, OrderFound

LEMMA TypeStripe ==
    ASSUME TypeInv, NEW e \in Events, Emit(e)
    PROVE  TypeInv'
BY DEF Emit, tables, TypeInv, TypeOK, SubjectFits, OrderFound

LEMMA TypeDeliver ==
    ASSUME TypeInv, NEW h \in Handlers, NEW e \in Events, Deliver(h, e)
    PROVE  TypeInv'
<1>1. events[e] \in {"none", "IGNORED", "PROCESSED"}
  BY DEF TypeInv, TypeOK
<1>2. CASE events[e] = "PROCESSED"
  BY <1>2 DEF Deliver, tables, TypeInv, TypeOK, SubjectFits, OrderFound
<1>3. CASE events[e] = "IGNORED"
  BY <1>3 DEF Deliver, Goto, tables, TypeInv, TypeOK, SubjectFits, OrderFound
<1>4. CASE events[e] = "none"
  BY <1>4 DEF Deliver, Goto, tables, TypeInv, TypeOK, SubjectFits, OrderFound
<1>. QED  BY <1>1, <1>2, <1>3, <1>4

LEMMA TypeWebhook ==
    ASSUME TypeInv, NEW h \in Handlers, Webhook(h)
    PROVE  TypeInv'
<1>1. CASE InsertEvent(h)
  <2>1. CASE events[subject[h]] = "none"
    BY <1>1, <2>1, GotoType DEF InsertEvent, OrderFound, Goto, tables, stripe, TypeInv, TypeOK, SubjectFits
  <2>2. CASE events[subject[h]] # "none"
    BY <1>1, <2>2, AnswerType DEF InsertEvent, tables, stripe, TypeInv, TypeOK
  <2>. QED  BY <2>1, <2>2
<1>2. CASE ReadOrder(h)
  <2>. DEFINE e == subject[h]
              row == IF OrderOf[e] = None THEN NoRow ELSE orders[OrderOf[e]]
              place == IF Kind[e] = "unknown" THEN "retain"
                       ELSE IF row.state = "ABSENT" THEN "commit" ELSE "write"
  <2>1. e \in Events
    BY <1>2 DEF ReadOrder, TypeInv, SubjectFits
  <2>2. row \in Row
    BY <2>1, NoRowType, ConstantsAssumption DEF TypeInv, TypeOK
  <2>3. place \in {"retain", "commit", "write"}
    OBVIOUS
  <2>4. copy' = [copy EXCEPT ![h] = row] /\ Goto(h, place)
    BY <1>2 DEF ReadOrder
  <2>5. copy' \in [Handlers -> Row]
    BY <2>2, <2>4 DEF TypeInv, TypeOK
  <2>6. UNCHANGED <<tables, stripe, subject, mishaps>>
    BY <1>2 DEF ReadOrder
  <2>7. pc' \in [Handlers -> Places] /\ SubjectFits'
    <3>. HIDE DEF place
    <3>1. OrderFound(h)' => OrderOf[e] \in Orders
      <4>1. OrderOf[e] = None => copy'[h].state = "ABSENT" /\ place # "write"
        BY <2>4 DEF TypeInv, TypeOK, NoRow, place
      <4>2. pc'[h] = place
        BY <2>4 DEF Goto, TypeInv, TypeOK
      <4>. QED  BY <2>1, <2>3, <4>1, <4>2, ConstantsAssumption DEF OrderFound
    <3>2. \A k \in Handlers \ {h} : copy'[k] = copy[k]
      BY <2>4 DEF TypeInv, TypeOK
    <3>3. place = "retain" => ~Known(e)
      BY DEF place, Known
    <3>. QED  BY <2>1, <2>3, <2>4, <2>6, <3>1, <3>2, <3>3, GotoType
  <2>. QED  BY <2>5, <2>6, <2>7 DEF tables, stripe, TypeInv, TypeOK
<1>3. CASE Retain(h)
  BY <1>3, AnswerType, MishapType
     DEF Retain, TypeInv, TypeOK, SubjectFits, FaultKinds
<1>4. CASE WriteOrder(h)
  <2>1. subject[h] \in Events
    BY <1>4 DEF WriteOrder, TypeInv, SubjectFits
  <2>2. copy' \in [Handlers -> Row]
    BY <1>4, <2>1, AppliedType DEF WriteOrder, TypeInv, TypeOK
  <2>3. OrderOf[subject[h]] \in Orders
    BY <1>4 DEF WriteOrder, TypeInv, SubjectFits, OrderFound
  <2>4. \A k \in Handlers \ {h} : copy'[k] = copy[k]
    BY <1>4 DEF WriteOrder, TypeInv, TypeOK
  <2>. QED
    BY <1>4, <2>1, <2>2, <2>3, <2>4, GotoType DEF WriteOrder, tables, stripe, TypeInv, TypeOK
<1>5. CASE EnqueueJob(h)
  <2>1. subject[h] \in Events
    BY <1>5 DEF EnqueueJob, TypeInv, SubjectFits
  <2>2. OrderOf[subject[h]] \in Orders
    BY <1>5 DEF EnqueueJob, TypeInv, SubjectFits, OrderFound
  <2>. QED
    BY <1>5, <2>1, <2>2, GotoType, MishapType DEF EnqueueJob, tables, stripe, TypeInv, TypeOK, FaultKinds
<1>6. CASE AbortUnqueued(h)
  BY <1>6, AnswerType DEF AbortUnqueued, tables, stripe, TypeInv, TypeOK
<1>7. CASE Commit(h)
  <2>1. subject[h] \in Events /\ copy[h] \in Row
    BY <1>7 DEF Commit, TypeInv, TypeOK, SubjectFits
  <2>2. orders' \in [Orders -> Row] /\ granted' \in [Orders -> Nat] /\ held' \subseteq Orders
    <3>1. CASE copy[h].state = "ABSENT"
      BY <1>7, <3>1 DEF Commit, TypeInv, TypeOK
    <3>2. CASE copy[h].state # "ABSENT"
      <4>1. OrderOf[subject[h]] \in Orders
        BY <1>7, <3>2 DEF Commit, TypeInv, SubjectFits, OrderFound
      <4>. QED
        BY <1>7, <2>1, <3>2, <4>1 DEF Commit, PersistOrder, TypeInv, TypeOK
    <3>. QED  BY <3>1, <3>2
  <2>3. /\ events' \in [Events -> {"none", "IGNORED", "PROCESSED"}]
        /\ ledger' \in [Events -> Nat]
        /\ acked' \subseteq Events
    BY <1>7, <2>1 DEF Commit, TypeInv, TypeOK
  <2>4. mishaps' \in Nat
    BY <1>7, MishapType DEF Commit, TypeInv, FaultKinds
  <2>. QED
    BY <1>7, <2>2, <2>3, <2>4, AnswerType DEF Commit, TypeInv, TypeOK
<1>. QED  BY <1>1, <1>2, <1>3, <1>4, <1>5, <1>6, <1>7 DEF Webhook

LEMMA TypeFindOpenOrder ==
    ASSUME TypeInv, NEW h \in Handlers, NEW f \in Offers, FindOpenOrder(h, f)
    PROVE  TypeInv'
BY DEF FindOpenOrder, Goto, tables, stripe, TypeInv, TypeOK, SubjectFits, OrderFound

LEMMA TypeBeginCheckout ==
    ASSUME TypeInv, NEW h \in Handlers, NEW o \in Orders, BeginCheckout(h, o)
    PROVE  TypeInv'
BY DEF BeginCheckout, Goto, tables, stripe, TypeInv, TypeOK, SubjectFits, OrderFound

LEMMA TypeOrdering ==
    ASSUME TypeInv, NEW h \in Handlers, Ordering(h)
    PROVE  TypeInv'
<1>1. CASE InsertOrder(h)
  <2>1. [NoRow EXCEPT !.state = "OPEN", !.offer = subject[h]] \in Row
    BY <1>1 DEF InsertOrder, TypeInv, SubjectFits, NoRow, Row, OrderStates, OpenStates
  <2>. QED
    BY <1>1, <2>1, AnswerType DEF InsertOrder, PersistOrder, stripe, TypeInv, TypeOK
<1>2. CASE RailAnswers(h)
  <2>1. CASE Goto(h, "attachStripe") /\ sessions' = sessions \cup {subject[h]}
    BY <1>2, <2>1 DEF RailAnswers, Goto, tables, TypeInv, TypeOK, SubjectFits, OrderFound
  <2>2. CASE Goto(h, "attachLocal") /\ UNCHANGED sessions
    BY <1>2, <2>2 DEF RailAnswers, Goto, tables, TypeInv, TypeOK, SubjectFits, OrderFound
  <2>. QED  BY <1>2, <2>1, <2>2 DEF RailAnswers
<1>3. CASE AttachCheckout(h)
  <2>. DEFINE kind == IF pc[h] = "attachLocal" THEN "local" ELSE "stripe"
  <2>1. [copy[h] EXCEPT !.state = "CHECKOUT_CREATED", !.checkout = kind] \in Row
    BY DEF TypeInv, TypeOK, Row, OrderStates, OpenStates
  <2>. QED
    BY <1>3, <2>1, AnswerType DEF AttachCheckout, PersistOrder, stripe, TypeInv, TypeOK
<1>. QED  BY <1>1, <1>2, <1>3 DEF Ordering

LEMMA TypeRollback ==
    ASSUME TypeInv, NEW h \in Handlers, Rollback(h)
    PROVE  TypeInv'
BY AnswerType, MishapType DEF Rollback, tables, stripe, TypeInv, TypeOK, FaultKinds

LEMMA TypeStutter == TypeInv /\ UNCHANGED vars => TypeInv'
BY DEF vars, TypeInv, TypeOK, SubjectFits, OrderFound

LEMMA TypeStep == TypeInv /\ [Next]_vars => TypeInv'
BY TypeStripe, TypeDeliver, TypeWebhook, TypeFindOpenOrder, TypeBeginCheckout,
   TypeOrdering, TypeRollback, TypeStutter DEF Next

LEMMA Typed == Spec => []TypeInv
BY TypeInit, TypeStep, PTL DEF Spec

\* Every reachable state of the tables, of Stripe and of the handlers has the
\* types of TypeOK.
THEOREM TypeCorrect == Spec => []TypeOK
<1>1. TypeInv => TypeOK
  BY DEF TypeInv
<1>. QED  BY <1>1, Typed, PTL

-----------------------------------------------------------------------------
(* Every event is applied once.  All steps but four leave the events, the  *)
(* ledger and who is past the insertion of an event row as they are.       *)

\* The transactions past the insertion of their event are among those that
\* were, about the same events.
NoneEnters ==
    \A k \in Handlers : pc'[k] \in InWebhook =>
        /\ subject'[k] \in Events
        /\ pc'[k] \in Applying => pc[k] \in Applying /\ subject'[k] = subject[k]

LEMMA ApplyQuiet ==
    ASSUME TypeInv, ApplyInv, NoneEnters, UNCHANGED <<events, ledger>>
    PROVE  ApplyInv'
BY DEF ApplyInv, AppliedOnce, NoneEnters, TypeInv, TypeOK

LEMMA AnswerQuiet ==
    ASSUME TypeInv, NEW h \in Handlers, Answer(h)
    PROVE  NoneEnters
BY DEF Answer, Goto, NoneEnters, TypeInv, TypeOK, SubjectFits

LEMMA ApplyInit == Init => ApplyInv
BY DEF Init, ApplyInv, AppliedOnce

LEMMA ApplyDeliver ==
    ASSUME TypeInv, ApplyInv, NEW h \in Handlers, NEW e \in Events, Deliver(h, e)
    PROVE  ApplyInv'
<1>. events[e] \in {"none", "IGNORED", "PROCESSED"}
  BY DEF TypeInv, TypeOK
<1>0. UNCHANGED <<events, ledger>>
  BY DEF Deliver, tables
<1>1. CASE events[e] = "PROCESSED"
  BY <1>0, <1>1, ApplyQuiet DEF Deliver, NoneEnters, TypeInv, SubjectFits
<1>2. CASE events[e] = "IGNORED"
  <2>1. ~Known(e)
    BY <1>2 DEF ApplyInv
  <2>. QED
    BY <1>0, <1>2, <2>1 DEF Deliver, Goto, ApplyInv, AppliedOnce, Known, TypeInv, TypeOK
<1>3. CASE events[e] = "none"
  <2>1. NoneEnters
    BY <1>3 DEF Deliver, Goto, NoneEnters, TypeInv, TypeOK, SubjectFits
  <2>. QED  BY <1>0, <2>1, ApplyQuiet
<1>. QED  BY <1>1, <1>2, <1>3

LEMMA ApplyInsertEvent ==
    ASSUME TypeInv, ApplyInv, NEW h \in Handlers, InsertEvent(h)
    PROVE  ApplyInv'
<1>. DEFINE e == subject[h]
<1>2. UNCHANGED <<events, ledger>>
  BY DEF InsertEvent, tables
<1>3. CASE events[e] # "none"
  BY <1>2, <1>3, AnswerQuiet, ApplyQuiet DEF InsertEvent
<1>4. CASE events[e] = "none"
  <2>1. pc' = [pc EXCEPT ![h] = "read"] /\ UNCHANGED subject /\ e \in Events
    BY <1>4 DEF InsertEvent, Goto, ApplyInv
  <2>2. \A k \in Handlers \ {h} : pc[k] \in Applying => subject[k] # e
    BY <1>4 DEF InsertEvent, InsertedElsewhere
  <2>. QED
    BY <1>2, <1>4, <2>1, <2>2 DEF ApplyInv, AppliedOnce, Known, TypeInv, TypeOK
<1>. QED  BY <1>3, <1>4

LEMMA ApplyRetain ==
    ASSUME TypeInv, ApplyInv, NEW h \in Handlers, Retain(h)
    PROVE  ApplyInv'
<1>1. \A e \in Events : Known(e) => events'[e] = events[e] /\ ledger'[e] = ledger[e]
  <2>1. ~Known(subject[h])
    BY DEF Retain, TypeInv, SubjectFits
  <2>. QED  BY <2>1 DEF Retain, TypeInv, TypeOK
<1>2. NoneEnters
  BY AnswerQuiet DEF Retain
<1>. QED  BY <1>1, <1>2 DEF ApplyInv, AppliedOnce, NoneEnters, Known

LEMMA ApplyCommit ==
    ASSUME TypeInv, ApplyInv, NEW h \in Handlers, Commit(h)
    PROVE  ApplyInv'
<1>. DEFINE e == subject[h]
<1>1. /\ e \in Events
      /\ events' = [events EXCEPT ![e] = "PROCESSED"]
      /\ ledger' = [ledger EXCEPT ![e] = @ + 1]
  BY DEF Commit, TypeInv, SubjectFits
<1>2. Known(e) => events[e] = "none" /\ ledger[e] = 0
  BY <1>1 DEF Commit, ApplyInv, AppliedOnce
<1>3. NoneEnters /\ pc'[h] = "idle"
  BY AnswerQuiet DEF Commit, Answer, Goto, TypeInv, TypeOK
<1>4. \A k \in Handlers : pc'[k] \in Applying /\ Known(subject'[k]) => subject'[k] # e
  BY <1>3 DEF Commit, NoneEnters, ApplyInv
<1>5. AppliedOnce' /\ \A f \in Events : Known(f) => events'[f] # "IGNORED"
  BY <1>1, <1>2 DEF ApplyInv, AppliedOnce, Known, TypeInv, TypeOK
<1>6. \A k \in Handlers : pc'[k] \in Applying /\ Known(subject'[k]) => events'[subject'[k]] = "none"
  BY <1>1, <1>3, <1>4 DEF ApplyInv, NoneEnters, TypeInv, TypeOK
<1>. QED  BY <1>3, <1>5, <1>6 DEF ApplyInv, NoneEnters, Known

LEMMA ApplyWebhook ==
    ASSUME TypeInv, ApplyInv, NEW h \in Handlers, Webhook(h)
    PROVE  ApplyInv'
<1>1. CASE ReadOrder(h)
  BY <1>1, ApplyQuiet DEF ReadOrder, Goto, tables, NoneEnters, TypeInv, TypeOK, SubjectFits
<1>2. CASE WriteOrder(h)
  BY <1>2, ApplyQuiet DEF WriteOrder, Goto, tables, NoneEnters, TypeInv, TypeOK, SubjectFits
<1>3. CASE EnqueueJob(h)
  BY <1>3, ApplyQuiet DEF EnqueueJob, Goto, tables, NoneEnters, TypeInv, TypeOK, SubjectFits
<1>4. CASE AbortUnqueued(h)
  BY <1>4, AnswerQuiet, ApplyQuiet DEF AbortUnqueued, tables
<1>. QED
  BY <1>1, <1>2, <1>3, <1>4, ApplyInsertEvent, ApplyRetain, ApplyCommit DEF Webhook

LEMMA ApplyElsewhere ==
    ASSUME TypeInv, ApplyInv, NEW h \in Handlers,
           \/ \E f \in Offers : FindOpenOrder(h, f)
           \/ \E o \in Orders : BeginCheckout(h, o)
           \/ Ordering(h)
           \/ Rollback(h)
    PROVE  ApplyInv'
<1>1. CASE \E f \in Offers : FindOpenOrder(h, f)
  BY <1>1, ApplyQuiet DEF FindOpenOrder, Goto, tables, NoneEnters, TypeInv, TypeOK, SubjectFits
<1>2. CASE \E o \in Orders : BeginCheckout(h, o)
  BY <1>2, ApplyQuiet DEF BeginCheckout, Goto, tables, NoneEnters, TypeInv, TypeOK, SubjectFits
<1>3. CASE InsertOrder(h)
  BY <1>3, AnswerQuiet, ApplyQuiet DEF InsertOrder
<1>4. CASE RailAnswers(h)
  BY <1>4, ApplyQuiet DEF RailAnswers, Goto, tables, NoneEnters, TypeInv, TypeOK, SubjectFits
<1>5. CASE AttachCheckout(h)
  BY <1>5, AnswerQuiet, ApplyQuiet DEF AttachCheckout
<1>6. CASE Rollback(h)
  BY <1>6, AnswerQuiet, ApplyQuiet DEF Rollback, tables
<1>. QED  BY <1>1, <1>2, <1>3, <1>4, <1>5, <1>6 DEF Ordering

LEMMA ApplyStill ==
    ASSUME TypeInv, ApplyInv, (\E e \in Events : Emit(e)) \/ UNCHANGED vars
    PROVE  ApplyInv'
BY ApplyQuiet DEF Emit, vars, tables, NoneEnters, TypeInv, SubjectFits

LEMMA ApplyStep == TypeInv /\ ApplyInv /\ [Next]_vars => ApplyInv'
BY ApplyDeliver, ApplyWebhook, ApplyElsewhere, ApplyStill DEF Next

\* What makes AppliedOnce inductive: at most one transaction on an event is
\* past the INSERT of its row, and it is the first.
THEOREM ApplyInvariant == Spec => []ApplyInv
BY Typed, ApplyInit, ApplyStep, PTL DEF Spec

\* An event has exactly one row in the ledger once it is PROCESSED and none
\* before, however its deliveries overlap, fail or are repeated.
THEOREM EventsAppliedOnce == Spec => []AppliedOnce
<1>1. ApplyInv => AppliedOnce
  BY DEF ApplyInv
<1>. QED  BY <1>1, ApplyInvariant, PTL

-----------------------------------------------------------------------------
(* Rights are granted for payments.                                        *)

RightPayments(o) == {e \in Payments(o) : Amount[e] # "mismatch"}

LEMMA RightPaymentsFinite ==
    ASSUME NEW o \in Orders
    PROVE  IsFiniteSet(RightPayments(o)) /\ Cardinality(RightPayments(o)) \in Nat
<1>1. RightPayments(o) \subseteq Events
  BY DEF RightPayments, Payments
<1>. QED  BY <1>1, FS_Subset, FS_CardinalityType, ConstantsAssumption

LEMMA RightsQuiet ==
    ASSUME RightsArePaidFor, UNCHANGED <<granted, held>>,
           \A e \in Events : Kind[e] = "payment" =>
               events'[e] = events[e] /\ ledger'[e] = ledger[e]
    PROVE  RightsArePaidFor'
<1>1. \A o \in Orders : Payments(o)' = Payments(o)
  BY DEF Payments
<1>. QED  BY <1>1 DEF RightsArePaidFor, Payments

LEMMA RightsInit == Init => RightsArePaidFor
<1>1. SUFFICES ASSUME Init, NEW o \in Orders PROVE Payments(o) = {} /\ granted[o] = 0 /\ o \notin held
  <2>1. {e \in {} : Amount[e] # "mismatch"} = {}
    OBVIOUS
  <2>. QED  BY <1>1, <2>1, FS_EmptySet DEF RightsArePaidFor
<1>. QED  BY <1>1 DEF Init, Payments

LEMMA RightsCommit ==
    ASSUME TypeInv, ApplyInv, RightsArePaidFor, NEW h \in Handlers, Commit(h)
    PROVE  RightsArePaidFor'
<1>. DEFINE e == subject[h]
<1>1. /\ e \in Events
      /\ events' = [events EXCEPT ![e] = "PROCESSED"]
      /\ ledger' = [ledger EXCEPT ![e] = @ + 1]
  BY DEF Commit, TypeInv, SubjectFits
<1>2. Kind[e] = "payment" => events[e] = "none" /\ ledger[e] = 0
  BY <1>1 DEF Commit, ApplyInv, AppliedOnce, Known
<1>3. ASSUME NEW o \in Orders
      PROVE  RightPayments(o)' = RightPayments(o) \cup {f \in {e} : Observed(e) /\ OrderOf[e] = o}
  BY <1>1 DEF RightPayments, Payments, Observed, TypeInv, TypeOK
<1>4. ASSUME NEW o \in Orders
      PROVE  /\ granted'[o] <= Cardinality(RightPayments(o)')
             /\ o \in held' => RightPayments(o)' # {}
             /\ \A f \in RightPayments(o)' : ledger'[f] = 1
  <2>1. /\ granted[o] <= Cardinality(RightPayments(o))
        /\ o \in held => RightPayments(o) # {}
        /\ \A f \in RightPayments(o) : ledger[f] = 1
    BY DEF RightsArePaidFor, RightPayments
  <2>2. granted[o] \in Nat
    BY DEF TypeInv, TypeOK
  <2>3. CASE Observed(e) /\ OrderOf[e] = o
    <3>1. RightPayments(o)' = RightPayments(o) \cup {e}
      BY <1>3, <2>3
    <3>2. e \notin RightPayments(o)
      BY <1>2, <2>3 DEF Observed, RightPayments, Payments
    <3>3. Cardinality(RightPayments(o)') = Cardinality(RightPayments(o)) + 1
      BY <3>1, <3>2, RightPaymentsFinite, FS_AddElement
    <3>4. granted'[o] \in {granted[o], granted[o] + 1}
      BY <2>2 DEF Commit, TypeInv, TypeOK
    <3>5. granted'[o] <= Cardinality(RightPayments(o)')
      BY <2>1, <2>2, <3>3, <3>4, RightPaymentsFinite
    <3>6. \A f \in RightPayments(o)' : ledger'[f] = 1
      BY <1>1, <1>2, <2>1, <2>3, <3>1, <3>2 DEF Observed, TypeInv, TypeOK, RightPayments, Payments
    <3>. QED  BY <3>1, <3>5, <3>6
  <2>4. CASE ~(Observed(e) /\ OrderOf[e] = o)
    <3>1. RightPayments(o)' = RightPayments(o)
      BY <1>3, <2>4
    <3>2. granted'[o] = granted[o] /\ (o \in held' => o \in held)
      <4>1. CASE copy[h].state = "ABSENT"
        BY <4>1 DEF Commit
      <4>2. CASE copy[h].state # "ABSENT"
        BY <2>4, <4>2 DEF Commit, Observed, TypeInv, TypeOK
      <4>. QED  BY <4>1, <4>2
    <3>3. \A f \in RightPayments(o) : ledger'[f] = ledger[f]
      <4>1. e \notin RightPayments(o)
        BY <1>2 DEF RightPayments, Payments
      <4>. QED  BY <1>1, <4>1 DEF RightPayments, Payments, TypeInv, TypeOK
    <3>. QED  BY <2>1, <3>1, <3>2, <3>3
  <2>. QED  BY <2>3, <2>4
<1>. QED  BY <1>4 DEF RightsArePaidFor, RightPayments

LEMMA RightsStep == TypeInv /\ ApplyInv /\ RightsArePaidFor /\ [Next]_vars => RightsArePaidFor'
<1>. SUFFICES ASSUME TypeInv, ApplyInv, RightsArePaidFor, [Next]_vars
              PROVE  RightsArePaidFor'
  OBVIOUS
<1>1. CASE \E h \in Handlers : Commit(h)
  BY <1>1, RightsCommit
<1>2. CASE \E h \in Handlers : Retain(h)
  <2>1. PICK h \in Handlers : Retain(h)
    BY <1>2
  <2>2. Kind[subject[h]] = "unknown"
    BY <2>1 DEF Retain, TypeInv, SubjectFits, Known
  <2>. QED  BY <2>1, <2>2, RightsQuiet DEF Retain, TypeInv, TypeOK
<1>3. CASE UNCHANGED <<events, ledger, granted, held>>
  BY <1>3, RightsQuiet
<1>4. \/ \E h \in Handlers : Commit(h) \/ Retain(h)
      \/ UNCHANGED <<events, ledger, granted, held>>
  BY DEF Next, Emit, Deliver, FindOpenOrder, BeginCheckout, Webhook, InsertEvent, ReadOrder,
         WriteOrder, EnqueueJob, AbortUnqueued, Ordering, InsertOrder, RailAnswers,
         AttachCheckout, Rollback, tables, vars
<1>. QED  BY <1>1, <1>2, <1>3, <1>4

\* An order has no more GRANTED rows of rights than processed payments of the
\* right amount, is held for a human only after one, and each of them stands
\* once in the ledger.
THEOREM RightsPaidFor == Spec => []RightsArePaidFor
BY Typed, ApplyInvariant, RightsInit, RightsStep, PTL DEF Spec

-----------------------------------------------------------------------------
(* The row of an order can be explained.  Handlers write rows from memory, *)
(* so what they have in memory must be explained as well: by the processed *)
(* events, and, in a webhook, by the event it is about to commit.          *)

Processed == {e \in Events : events[e] = "PROCESSED"}

Evidenced(done, o, kind) ==
    \E e \in done : OrderOf[e] = o /\ Kind[e] = kind /\ Amount[e] # "mismatch"

StateExplained(state, o, done) ==
    /\ \A k \in DOMAIN StateAfter : state = StateAfter[k] => Evidenced(done, o, k)
    /\ state = "MISMATCH" => \E e \in done : OrderOf[e] = o /\ Amount[e] = "mismatch"

ObjectExplained(object, o, done) == object # None => OrderOf[object] = o /\ object \in done

Explained(row, o, done) ==
    /\ StateExplained(row.state, o, done)
    /\ ObjectExplained(row.object, o, done)
    /\ row.paid => Evidenced(done, o, "payment")
    /\ row.state = "PAYMENT_OBSERVED" => row.paid
    /\ row.state = "CHECKOUT_CREATED" => row.checkout # "none"

\* What a handler has in memory, at the places from where it is written.
CopyExplained(h) ==
    /\ pc[h] = "write" => Explained(copy[h], OrderOf[subject[h]], Processed)
    /\ \/ pc[h] \in {"enqueue", "unqueued"}
       \/ pc[h] = "commit" /\ copy[h].state # "ABSENT"
       => Explained(copy[h], OrderOf[subject[h]], Processed \cup {subject[h]})
    /\ pc[h] \in {"rail", "attachStripe", "attachLocal"}
       => Explained(copy[h], subject[h], Processed)

Applier(h) == pc[h] \in {"write", "enqueue", "unqueued", "commit"} => Known(subject[h])

ExplainedInv ==
    /\ \A o \in Orders : Explained(orders[o], o, Processed)
    /\ \A h \in Handlers : CopyExplained(h) /\ Applier(h)
    /\ \A e \in Processed : Known(e)

LEMMA ExplainedRows ==
    ASSUME \A o \in Orders : Explained(orders[o], o, Processed)
    PROVE  RowIsExplained
<1>. SUFFICES ASSUME NEW o \in Orders
              PROVE  LET row == orders[o]
                         Seen(kinds) == \E e \in Events : /\ OrderOf[e] = o
                                                          /\ events[e] = "PROCESSED"
                                                          /\ Kind[e] \in kinds
                                                          /\ Amount[e] # "mismatch"
                     IN  /\ \A k \in DOMAIN StateAfter : row.state = StateAfter[k] => Seen({k})
                         /\ row.paid => Seen({"payment"})
                         /\ row.state = "PAYMENT_OBSERVED" => row.paid
                         /\ row.object # None => /\ OrderOf[row.object] = o
                                                 /\ events[row.object] = "PROCESSED"
                         /\ row.state = "CHECKOUT_CREATED" => row.checkout # "none"
                         /\ row.state = "MISMATCH" =>
                               \E e \in Events : /\ OrderOf[e] = o
                                                 /\ events[e] = "PROCESSED"
                                                 /\ Amount[e] = "mismatch"
  BY DEF RowIsExplained
<1>1. Explained(orders[o], o, Processed)
  OBVIOUS
<1>. QED  BY <1>1 DEF Explained, StateExplained, ObjectExplained, Evidenced, Processed

LEMMA ExplainedMore ==
    ASSUME NEW row, NEW o, NEW done, NEW more, done \subseteq more, Explained(row, o, done)
    PROVE  Explained(row, o, more)
BY DEF Explained, StateExplained, ObjectExplained, Evidenced

LEMMA ExplainedNew ==
    ASSUME NEW row \in Row, NEW o, NEW done, row.state \in {"ABSENT", "OPEN"},
           row.object = None, ~row.paid
    PROVE  Explained(row, o, done)
BY DEF Explained, StateExplained, ObjectExplained, StateAfter

LEMMA StateExplainedApplied ==
    ASSUME NEW row \in Row, NEW e \in Events, NEW done, StateExplained(row.state, OrderOf[e], done)
    PROVE  StateExplained(NextState(row, e), OrderOf[e], done \cup {e})
<1>1. CASE Amount[e] = "mismatch"
  <2>1. NextState(row, e) = "MISMATCH"
    BY <1>1 DEF NextState
  <2>2. \A k \in DOMAIN StateAfter : StateAfter[k] # "MISMATCH"
    BY DEF StateAfter
  <2>. QED  BY <1>1, <2>1, <2>2 DEF StateExplained
<1>2. CASE Amount[e] # "mismatch" /\ Kind[e] \in DOMAIN StateAfter
  <2>1. NextState(row, e) = StateAfter[Kind[e]]
    BY <1>2 DEF NextState
  <2>2. \A k \in DOMAIN StateAfter : StateAfter[k] = StateAfter[Kind[e]] => k = Kind[e]
    BY <1>2 DEF StateAfter
  <2>3. StateAfter[Kind[e]] # "MISMATCH"
    BY <1>2 DEF StateAfter
  <2>4. Evidenced(done \cup {e}, OrderOf[e], Kind[e])
    BY <1>2 DEF Evidenced
  <2>. QED  BY <2>1, <2>2, <2>3, <2>4 DEF StateExplained
<1>3. CASE Amount[e] # "mismatch" /\ Kind[e] \notin DOMAIN StateAfter
  <2>1. NextState(row, e) = row.state
    BY <1>3 DEF NextState
  <2>. QED  BY <2>1 DEF StateExplained, Evidenced
<1>. QED  BY <1>1, <1>2, <1>3

\* An event explains the row it leaves.
LEMMA ExplainedApplied ==
    ASSUME NEW row \in Row, NEW e \in Events, NEW done, Explained(row, OrderOf[e], done)
    PROVE  Explained(Applied(row, e), OrderOf[e], done \cup {e})
<1>. DEFINE new == Applied(row, e)
            more == done \cup {e}
<1>1. new.state = NextState(row, e) /\ new.checkout = row.checkout
  BY DEF Applied, Row
<1>2. new.object = e \/ new.object = row.object
  BY DEF Applied, Row
<1>3. new.paid <=> row.paid \/ Observed(e)
  BY DEF Applied, Row
<1>4. StateExplained(new.state, OrderOf[e], more)
  BY <1>1, StateExplainedApplied DEF Explained
<1>5. ObjectExplained(new.object, OrderOf[e], more)
  BY <1>2 DEF Explained, ObjectExplained
<1>6. new.paid => Evidenced(more, OrderOf[e], "payment")
  BY <1>3 DEF Explained, Evidenced, Observed
<1>7. NextState(row, e) = "PAYMENT_OBSERVED" => row.state = "PAYMENT_OBSERVED" \/ Observed(e)
  BY DEF NextState, StateAfter, Observed
<1>8. new.state = "PAYMENT_OBSERVED" => new.paid
  BY <1>1, <1>3, <1>7 DEF Explained
<1>9. NextState(row, e) = "CHECKOUT_CREATED" => row.state = "CHECKOUT_CREATED"
  BY DEF NextState, StateAfter
<1>. HIDE DEF new
<1>10. Explained(new, OrderOf[e], more)
  BY <1>1, <1>4, <1>5, <1>6, <1>8, <1>9 DEF Explained
<1>. QED  BY <1>10 DEF new

LEMMA ExplainedInit == Init => ExplainedInv
<1>. SUFFICES ASSUME Init PROVE ExplainedInv
  OBVIOUS
<1>1. \A o \in Orders : Explained(orders[o], o, Processed)
  <2>1. NoRow.state = "ABSENT" /\ NoRow.object = None /\ ~NoRow.paid
    BY DEF NoRow
  <2>. QED  BY <2>1, NoRowType, ExplainedNew DEF Init
<1>2. Processed = {}
  BY DEF Init, Processed
<1>. QED  BY <1>1, <1>2 DEF Init, ExplainedInv, CopyExplained, Applier

\* A step of one handler, given what it leaves in the tables and in its memory.
LEMMA ExplainedByOne ==
    ASSUME TypeInv, ExplainedInv, NEW h \in Handlers,
           Processed \subseteq Processed',
           \A e \in Processed' : Known(e),
           \A o \in Orders : orders'[o] = orders[o] \/ Explained(orders'[o], o, Processed'),
           \A k \in Handlers \ {h} : pc'[k] = pc[k] /\ subject'[k] = subject[k] /\ copy'[k] = copy[k],
           CopyExplained(h)', Applier(h)'
    PROVE  ExplainedInv'
<1>1. ASSUME NEW o \in Orders PROVE Explained(orders'[o], o, Processed')
  <2>1. Explained(orders[o], o, Processed')
    BY ExplainedMore DEF ExplainedInv
  <2>. QED  BY <2>1
<1>2. ASSUME NEW k \in Handlers \ {h} PROVE CopyExplained(k)' /\ Applier(k)'
  <2>1. CopyExplained(k) /\ Applier(k)
    BY DEF ExplainedInv
  <2>2. Processed \cup {subject[k]} \subseteq Processed' \cup {subject[k]}
    OBVIOUS
  <2>3. \A row, o : Explained(row, o, Processed) => Explained(row, o, Processed')
    BY ExplainedMore
  <2>4. \A row, o : Explained(row, o, Processed \cup {subject[k]})
                       => Explained(row, o, Processed' \cup {subject[k]})
    BY <2>2, ExplainedMore
  <2>. QED  BY <2>1, <2>3, <2>4 DEF CopyExplained, Applier
<1>. QED  BY <1>1, <1>2 DEF ExplainedInv

\* The places from where no row of memory is written.
LEMMA ExplainedSilently ==
    ASSUME TypeInv, ExplainedInv, NEW h \in Handlers,
           UNCHANGED events,
           \A o \in Orders : orders'[o] = orders[o] \/ Explained(orders'[o], o, Processed),
           \A k \in Handlers \ {h} : pc'[k] = pc[k] /\ subject'[k] = subject[k] /\ copy'[k] = copy[k],
           pc'[h] \in {"idle", "insert", "read", "retain", "accept"}
    PROVE  ExplainedInv'
<1>1. Processed' = Processed
  BY DEF Processed
<1>2. CopyExplained(h)' /\ Applier(h)'
  BY DEF CopyExplained, Applier
<1>. QED  BY <1>1, <1>2, ExplainedByOne DEF ExplainedInv

LEMMA AnswerOne ==
    ASSUME TypeInv, NEW h \in Handlers, Answer(h)
    PROVE  /\ pc'[h] = "idle"
           /\ \A k \in Handlers \ {h} : pc'[k] = pc[k] /\ subject'[k] = subject[k] /\ copy'[k] = copy[k]
BY DEF Answer, Goto, TypeInv, TypeOK

LEMMA ExplainedReadOrder ==
    ASSUME TypeInv, ExplainedInv, NEW h \in Handlers, ReadOrder(h)
    PROVE  ExplainedInv'
<1>. DEFINE e == subject[h]
            row == IF OrderOf[e] = None THEN NoRow ELSE orders[OrderOf[e]]
            place == IF Kind[e] = "unknown" THEN "retain"
                     ELSE IF row.state = "ABSENT" THEN "commit" ELSE "write"
<1>1. e \in Events
  BY DEF ReadOrder, TypeInv, SubjectFits
<1>2. copy' = [copy EXCEPT ![h] = row] /\ Goto(h, place) /\ UNCHANGED <<orders, events, subject>>
  BY DEF ReadOrder, tables
<1>3. place = "write" => OrderOf[e] \in Orders /\ row = orders[OrderOf[e]]
  BY <1>1, ConstantsAssumption DEF NoRow
<1>4. place = "commit" => row.state = "ABSENT"
  OBVIOUS
<1>5. place # "retain" => Known(e)
  BY DEF Known
<1>6. place \in {"retain", "commit", "write"}
  OBVIOUS
<1>. HIDE DEF row, place
<1>7. pc'[h] = place /\ copy'[h] = row /\ subject'[h] = e
  BY <1>2 DEF Goto, TypeInv, TypeOK
<1>8. Processed' = Processed
  BY <1>2 DEF Processed
<1>9. CopyExplained(h)' /\ Applier(h)'
  <2>1. place = "write" => Explained(row, OrderOf[e], Processed)
    BY <1>3 DEF ExplainedInv
  <2>. QED  BY <1>4, <1>5, <1>6, <1>7, <1>8, <2>1 DEF CopyExplained, Applier
<1>10. \A k \in Handlers \ {h} : pc'[k] = pc[k] /\ subject'[k] = subject[k] /\ copy'[k] = copy[k]
  BY <1>2 DEF Goto, TypeInv, TypeOK
<1>. QED  BY <1>2, <1>8, <1>9, <1>10, ExplainedByOne DEF ExplainedInv

LEMMA ExplainedWriteOrder ==
    ASSUME TypeInv, ExplainedInv, NEW h \in Handlers, WriteOrder(h)
    PROVE  ExplainedInv'
<1>. DEFINE e == subject[h]
<1>1. e \in Events /\ copy[h] \in Row
  BY DEF WriteOrder, TypeInv, TypeOK, SubjectFits
<1>2. /\ pc'[h] = "enqueue" /\ copy'[h] = Applied(copy[h], e) /\ subject'[h] = e
      /\ UNCHANGED <<orders, events>>
  BY DEF WriteOrder, Goto, tables, TypeInv, TypeOK
<1>3. Explained(copy[h], OrderOf[e], Processed) /\ Known(e)
  BY DEF WriteOrder, ExplainedInv, CopyExplained, Applier
<1>4. Explained(Applied(copy[h], e), OrderOf[e], Processed \cup {e})
  BY <1>1, <1>3, ExplainedApplied
<1>5. Processed' = Processed
  BY <1>2 DEF Processed
<1>6. CopyExplained(h)' /\ Applier(h)'
  BY <1>2, <1>3, <1>4, <1>5 DEF CopyExplained, Applier
<1>7. \A k \in Handlers \ {h} : pc'[k] = pc[k] /\ subject'[k] = subject[k] /\ copy'[k] = copy[k]
  BY DEF WriteOrder, Goto, TypeInv, TypeOK
<1>. QED  BY <1>2, <1>5, <1>6, <1>7, ExplainedByOne DEF ExplainedInv

LEMMA ExplainedEnqueueJob ==
    ASSUME TypeInv, ExplainedInv, NEW h \in Handlers, EnqueueJob(h)
    PROVE  ExplainedInv'
<1>1. /\ pc[h] = "enqueue" /\ pc'[h] \in {"commit", "unqueued"}
      /\ UNCHANGED <<orders, events, subject, copy>>
      /\ \A k \in Handlers \ {h} : pc'[k] = pc[k]
  BY DEF EnqueueJob, Goto, tables, TypeInv, TypeOK
<1>2. Processed' = Processed
  BY <1>1 DEF Processed
<1>3. CopyExplained(h) /\ Applier(h)
  BY DEF ExplainedInv
<1>4. CopyExplained(h)' /\ Applier(h)'
  BY <1>1, <1>2, <1>3 DEF CopyExplained, Applier
<1>. QED  BY <1>1, <1>2, <1>4, ExplainedByOne DEF ExplainedInv

LEMMA ExplainedRetain ==
    ASSUME TypeInv, ExplainedInv, NEW h \in Handlers, Retain(h)
    PROVE  ExplainedInv'
<1>1. ~Known(subject[h])
  BY DEF Retain, TypeInv, SubjectFits
<1>2. Processed' = Processed
  BY <1>1 DEF Retain, Processed, ExplainedInv, TypeInv, TypeOK
<1>3. CopyExplained(h)' /\ Applier(h)'
  BY AnswerOne DEF Retain, CopyExplained, Applier
<1>. QED  BY <1>2, <1>3, AnswerOne, ExplainedByOne DEF Retain, ExplainedInv

LEMMA ExplainedCommit ==
    ASSUME TypeInv, ExplainedInv, NEW h \in Handlers, Commit(h)
    PROVE  ExplainedInv'
<1>. DEFINE e == subject[h]
<1>1. e \in Events /\ events' = [events EXCEPT ![e] = "PROCESSED"] /\ Answer(h)
  BY DEF Commit, TypeInv, SubjectFits
<1>2. Processed' = Processed \cup {e}
  BY <1>1 DEF Processed, TypeInv, TypeOK
<1>3. Known(e)
  BY DEF Commit, ExplainedInv, Applier
<1>4. ASSUME NEW o \in Orders
      PROVE  orders'[o] = orders[o] \/ Explained(orders'[o], o, Processed')
  <2>1. CASE copy[h].state = "ABSENT"
    BY <2>1 DEF Commit
  <2>2. CASE copy[h].state # "ABSENT"
    <3>1. Explained(copy[h], OrderOf[e], Processed')
      BY <1>2, <2>2 DEF Commit, ExplainedInv, CopyExplained
    <3>2. orders' = [orders EXCEPT ![OrderOf[e]] = copy[h]]
      BY <2>2 DEF Commit, PersistOrder
    <3>. QED  BY <3>1, <3>2 DEF TypeInv, TypeOK
  <2>. QED  BY <2>1, <2>2
<1>5. CopyExplained(h)' /\ Applier(h)'
  BY <1>1, AnswerOne DEF CopyExplained, Applier
<1>6. \A f \in Processed' : Known(f)
  BY <1>2, <1>3 DEF ExplainedInv
<1>. QED  BY <1>1, <1>2, <1>4, <1>5, <1>6, AnswerOne, ExplainedByOne

LEMMA ExplainedOrdering ==
    ASSUME TypeInv, ExplainedInv, NEW h \in Handlers, Ordering(h)
    PROVE  ExplainedInv'
<1>1. CASE InsertOrder(h)
  <2>. DEFINE row == [NoRow EXCEPT !.state = "OPEN", !.offer = subject[h]]
  <2>1. /\ row \in Row /\ row.state = "OPEN" /\ row.object = None /\ ~row.paid
    BY <1>1 DEF InsertOrder, TypeInv, SubjectFits, NoRow, Row, OrderStates, OpenStates
  <2>2. PICK o \in Orders : orders' = [orders EXCEPT ![o] = row]
    BY <1>1 DEF InsertOrder, PersistOrder
  <2>. HIDE DEF row
  <2>3. Explained(row, o, Processed)
    BY <2>1, ExplainedNew
  <2>4. \A p \in Orders : orders'[p] = orders[p] \/ Explained(orders'[p], p, Processed)
    BY <2>2, <2>3 DEF TypeInv, TypeOK
  <2>. QED  BY <1>1, <2>4, AnswerOne, ExplainedSilently DEF InsertOrder
<1>2. CASE RailAnswers(h)
  <2>1. /\ pc[h] = "rail" /\ pc'[h] \in {"attachStripe", "attachLocal"}
        /\ UNCHANGED <<orders, events, subject, copy>>
        /\ \A k \in Handlers \ {h} : pc'[k] = pc[k]
    BY <1>2 DEF RailAnswers, Goto, tables, TypeInv, TypeOK
  <2>2. Processed' = Processed
    BY <2>1 DEF Processed
  <2>3. CopyExplained(h)
    BY DEF ExplainedInv
  <2>4. CopyExplained(h)' /\ Applier(h)'
    BY <2>1, <2>2, <2>3 DEF CopyExplained, Applier
  <2>. QED  BY <2>1, <2>2, <2>4, ExplainedByOne DEF ExplainedInv
<1>3. CASE AttachCheckout(h)
  <2>. DEFINE kind == IF pc[h] = "attachLocal" THEN "local" ELSE "stripe"
              row == [copy[h] EXCEPT !.state = "CHECKOUT_CREATED", !.checkout = kind]
  <2>1. copy[h] \in Row /\ Explained(copy[h], subject[h], Processed)
    BY <1>3 DEF AttachCheckout, ExplainedInv, CopyExplained, TypeInv, TypeOK
  <2>2. /\ row.state = "CHECKOUT_CREATED" /\ row.checkout # "none"
        /\ row.object = copy[h].object
    BY <2>1 DEF Row
  <2>3. row.paid <=> copy[h].paid
    BY <2>1 DEF Row
  <2>4. orders' = [orders EXCEPT ![subject[h]] = row]
    BY <1>3 DEF AttachCheckout, PersistOrder
  <2>5. UNCHANGED events /\ Answer(h)
    BY <1>3 DEF AttachCheckout
  <2>. HIDE DEF row
  <2>6. StateExplained(row.state, subject[h], Processed)
    BY <2>2 DEF StateExplained, StateAfter
  <2>7. Explained(row, subject[h], Processed)
    BY <2>1, <2>2, <2>3, <2>6 DEF Explained
  <2>8. \A p \in Orders : orders'[p] = orders[p] \/ Explained(orders'[p], p, Processed)
    BY <2>4, <2>7 DEF TypeInv, TypeOK
  <2>. QED  BY <2>5, <2>8, AnswerOne, ExplainedSilently
<1>. QED  BY <1>1, <1>2, <1>3 DEF Ordering

LEMMA ExplainedBeginCheckout ==
    ASSUME TypeInv, ExplainedInv, NEW h \in Handlers, NEW o \in Orders, BeginCheckout(h, o)
    PROVE  ExplainedInv'
<1>1. /\ pc'[h] = "rail" /\ copy'[h] = orders[o] /\ subject'[h] = o
      /\ UNCHANGED <<orders, events>>
      /\ \A k \in Handlers \ {h} : pc'[k] = pc[k] /\ subject'[k] = subject[k] /\ copy'[k] = copy[k]
  BY DEF BeginCheckout, Goto, tables, TypeInv, TypeOK
<1>2. Processed' = Processed
  BY <1>1 DEF Processed
<1>3. CopyExplained(h)' /\ Applier(h)'
  BY <1>1, <1>2 DEF CopyExplained, Applier, ExplainedInv
<1>. QED  BY <1>1, <1>2, <1>3, ExplainedByOne DEF ExplainedInv

\* The steps that write no order and process no event.
LEMMA ExplainedElsewhere ==
    ASSUME TypeInv, ExplainedInv, NEW h \in Handlers,
           \/ \E e \in Events : Deliver(h, e)
           \/ \E f \in Offers : FindOpenOrder(h, f)
           \/ InsertEvent(h) \/ AbortUnqueued(h) \/ Rollback(h)
    PROVE  ExplainedInv'
<1>1. CASE \E e \in Events : Deliver(h, e)
  <2>1. PICK e \in Events : Deliver(h, e)
    BY <1>1
  <2>2. events[e] \in {"none", "IGNORED", "PROCESSED"}
    BY DEF TypeInv, TypeOK
  <2>3. /\ pc'[h] \in {"idle", "read", "insert"}
        /\ \A k \in Handlers \ {h} : pc'[k] = pc[k] /\ subject'[k] = subject[k] /\ copy'[k] = copy[k]
    <3>1. CASE events[e] = "PROCESSED"
      BY <2>1, <3>1 DEF Deliver
    <3>2. CASE events[e] = "IGNORED"
      BY <2>1, <3>2 DEF Deliver, Goto, TypeInv, TypeOK
    <3>3. CASE events[e] = "none"
      BY <2>1, <3>3 DEF Deliver, Goto, TypeInv, TypeOK
    <3>. QED  BY <2>2, <3>1, <3>2, <3>3
  <2>. QED  BY <2>1, <2>3, ExplainedSilently DEF Deliver, tables
<1>2. CASE \E f \in Offers : FindOpenOrder(h, f)
  BY <1>2, ExplainedSilently DEF FindOpenOrder, Goto, tables, TypeInv, TypeOK
<1>3. CASE InsertEvent(h)
  <2>1. CASE events[subject[h]] = "none"
    BY <1>3, <2>1, ExplainedSilently DEF InsertEvent, Goto, tables, TypeInv, TypeOK
  <2>2. CASE events[subject[h]] # "none"
    BY <1>3, <2>2, AnswerOne, ExplainedSilently DEF InsertEvent, tables
  <2>. QED  BY <2>1, <2>2
<1>4. CASE AbortUnqueued(h)
  BY <1>4, AnswerOne, ExplainedSilently DEF AbortUnqueued, tables
<1>5. CASE Rollback(h)
  BY <1>5, AnswerOne, ExplainedSilently DEF Rollback, tables
<1>. QED  BY <1>1, <1>2, <1>3, <1>4, <1>5

LEMMA ExplainedStill ==
    ASSUME ExplainedInv, (\E e \in Events : Emit(e)) \/ UNCHANGED vars
    PROVE  ExplainedInv'
<1>1. UNCHANGED <<orders, events, pc, subject, copy>>
  BY DEF Emit, vars, tables
<1>2. Processed' = Processed
  BY <1>1 DEF Processed
<1>. QED  BY <1>1, <1>2 DEF ExplainedInv, CopyExplained, Applier

LEMMA ExplainedStep == TypeInv /\ ExplainedInv /\ [Next]_vars => ExplainedInv'
BY ExplainedReadOrder, ExplainedWriteOrder, ExplainedEnqueueJob, ExplainedRetain, ExplainedCommit,
   ExplainedOrdering, ExplainedBeginCheckout, ExplainedElsewhere, ExplainedStill DEF Next, Webhook

\* The state, the paid_at and the payment intent of every order come from a
\* processed event of that order that says so, or from a checkout, although
\* handlers write rows that they read before they waited.
THEOREM RowsExplained == Spec => []RowIsExplained
<1>1. ExplainedInv => RowIsExplained
  BY ExplainedRows DEF ExplainedInv
<1>. QED  BY <1>1, Typed, ExplainedInit, ExplainedStep, PTL DEF Spec
=============================================================================
