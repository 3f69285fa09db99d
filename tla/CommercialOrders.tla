-------------------------- MODULE CommercialOrders --------------------------
(***************************************************************************)
(* Commercial orders and payments of ACORN LIVE: live/commercial.mjs over  *)
(* scripts/acorn-commercial-runtime.mjs, acorn-economic-ledger.mjs and     *)
(* acorn-usage-rights.mjs, with PostgreSQL under it and Stripe beside it.  *)
(*                                                                         *)
(* The server handles any number of HTTP requests at a time.  A handler    *)
(* gives way at every await, so an action is one SQL statement or one      *)
(* answer of Stripe.  A webhook is one transaction at the default level,   *)
(* READ COMMITTED: its reads see what is committed at that moment, its     *)
(* writes take row locks and become visible at the commit.                 *)
(***************************************************************************)
EXTENDS Integers, FiniteSets

CONSTANTS
    Handlers,     \* requests the server handles at the same time
    Offers,       \* the priced offers of a project
    Orders,       \* identifiers new orders may get
    Events,       \* Stripe events, by event id
    None,         \* no order, no event, nothing to handle
    Kind,         \* what a Stripe event is about, see Kinds
    OrderOf,      \* the order an event names; None unless it also names the tenant
    Amount,       \* its amount against the order's: "match", "mismatch" or "none"
    MaxRetained,  \* bound on the entries one unknown event may leave in the ledger
    Faults,       \* the mishaps this instance admits, see FaultKinds
    MaxMishaps    \* bound on their number in a behaviour

(***************************************************************************)
(* The event types, as the ledger classifies them.  "payment":             *)
(* payment_intent.succeeded, invoice.paid.  "completed":                   *)
(* checkout.session.completed.  "failed": *.payment_failed.  "other": the  *)
(* other known types, which change no order.  "unknown": all the rest.     *)
(***************************************************************************)
Kinds == {"completed", "payment", "failed", "refund", "dispute", "other", "unknown"}

(***************************************************************************)
(* What can go wrong.  "error": a statement is rejected, or its process is *)
(* killed.  "lostAnswer": a commit takes effect but is taken for failed.   *)
(* "enqueue": the INSERT of a job is rejected.                             *)
(***************************************************************************)
FaultKinds == {"error", "lostAnswer", "enqueue"}

ASSUME ConstantsAssumption ==
    /\ None \notin Handlers \cup Offers \cup Orders \cup Events
    /\ Kind \in [Events -> Kinds]
    /\ OrderOf \in [Events -> Orders \cup {None}]
    /\ Amount \in [Events -> {"match", "mismatch", "none"}]
    /\ IsFiniteSet(Events) /\ IsFiniteSet(Orders) /\ IsFiniteSet(Handlers)
    /\ MaxRetained \in Nat \ {0}
    /\ MaxMishaps \in Nat
    /\ Faults \subseteq FaultKinds

VARIABLES
    orders,    \* table commercial_orders
    events,    \* processing_state in stripe_events
    ledger,    \* number of rows of economic_ledger, by stripe_event_id
    granted,   \* GRANTED rows of usage_rights, by order_id
    held,      \* orders whose project and delivery wait for a human
    sessions,  \* Stripe: orders that have a checkout session
    emitted,   \* Stripe: events that have happened
    acked,     \* Stripe: events answered with 200
    pc,        \* the statement a handler is at
    subject,   \* the event, order or offer it is about
    copy,      \* the order in the handler's memory
    mishaps    \* number of mishaps so far

tables == <<orders, events, ledger, granted, held>>
stripe == <<sessions, emitted, acked>>
vars == <<orders, events, ledger, granted, held, sessions, emitted, acked,
          pc, subject, copy, mishaps>>

-----------------------------------------------------------------------------
OpenStates == {"OPEN", "CHECKOUT_CREATED", "PAYMENT_PENDING"}
OrderStates == OpenStates \cup {"PAYMENT_OBSERVED", "PAYMENT_FAILED", "REFUNDED",
                                "DISPUTED", "MISMATCH"}

\* object: the event whose object id stands in stripe_payment_intent;
\* paid: paid_at is set.
Row == [state : OrderStates \cup {"ABSENT"}, offer : Offers \cup {None},
        checkout : {"none", "local", "stripe"}, object : Events \cup {None},
        paid : BOOLEAN]

NoRow == [state |-> "ABSENT", offer |-> None, checkout |-> "none",
          object |-> None, paid |-> FALSE]

\* A webhook transaction once its event row is its own.
Applying == {"read", "write", "enqueue", "unqueued", "commit"}
InWebhook == Applying \cup {"insert", "retain"}
Places == InWebhook \cup {"idle", "accept", "rail", "attachStripe", "attachLocal"}

TypeOK ==
    /\ orders \in [Orders -> Row]
    /\ events \in [Events -> {"none", "IGNORED", "PROCESSED"}]
    /\ ledger \in [Events -> Nat]
    /\ granted \in [Orders -> Nat]
    /\ held \subseteq Orders
    /\ sessions \subseteq Orders
    /\ emitted \subseteq Events
    /\ acked \subseteq Events
    /\ pc \in [Handlers -> Places]
    /\ subject \in [Handlers -> Events \cup Orders \cup Offers \cup {None}]
    /\ copy \in [Handlers -> Row]
    /\ mishaps \in Nat

Init ==
    /\ orders = [o \in Orders |-> NoRow]
    /\ events = [e \in Events |-> "none"]
    /\ ledger = [e \in Events |-> 0]
    /\ granted = [o \in Orders |-> 0]
    /\ held = {}
    /\ sessions = {}
    /\ emitted = {}
    /\ acked = {}
    /\ pc = [h \in Handlers |-> "idle"]
    /\ subject = [h \in Handlers |-> None]
    /\ copy = [h \in Handlers |-> NoRow]
    /\ mishaps = 0

-----------------------------------------------------------------------------
(* Vocabulary of the actions.                                              *)

Goto(h, place) == pc' = [pc EXCEPT ![h] = place]

\* The request is answered, and what the handler had in memory is gone.
Answer(h) ==
    /\ Goto(h, "idle")
    /\ subject' = [subject EXCEPT ![h] = None]
    /\ copy' = [copy EXCEPT ![h] = NoRow]

Mishap(kind) ==
    /\ kind \in Faults
    /\ mishaps < MaxMishaps
    /\ mishaps' = mishaps + 1

\* Row locks held by the other transactions.
LockedOrder(h, o) ==
    \E k \in Handlers \ {h} : /\ pc[k] \in {"enqueue", "unqueued", "commit"}
                              /\ copy[k].state # "ABSENT"
                              /\ OrderOf[subject[k]] = o

InsertedElsewhere(h, e) ==
    /\ events[e] = "none"
    /\ \E k \in Handlers \ {h} : pc[k] \in Applying \cup {"retain"} /\ subject[k] = e

\* persistOrder: every column that changes comes from memory.
PersistOrder(o, row) == orders' = [orders EXCEPT ![o] = row]

\* The state each kind of event stands for.
StateAfter == [payment |-> "PAYMENT_OBSERVED", completed |-> "PAYMENT_PENDING",
               failed |-> "PAYMENT_FAILED", refund |-> "REFUNDED", dispute |-> "DISPUTED"]

\* A plausible bug: a payment is observed whatever its amount.
ObservedUnreconciled(e) == Kind[e] = "payment"

\* A payment of another amount is a mismatch, not a payment.
Observed(e) == Kind[e] = "payment" /\ Amount[e] # "mismatch"

NextState(row, e) ==
    IF Amount[e] = "mismatch" THEN "MISMATCH"
    ELSE IF Kind[e] \in DOMAIN StateAfter THEN StateAfter[Kind[e]] ELSE row.state

\* applyPaymentObservation: the row an event leaves, whatever state it was in.
Applied(row, e) ==
    [row EXCEPT !.state = NextState(row, e),
                !.object = IF \/ Observed(e)
                              \/ Kind[e] = "completed" /\ Amount[e] # "mismatch"
                           THEN e ELSE @,
                !.paid = @ \/ Observed(e)]

-----------------------------------------------------------------------------
(* Stripe.                                                                 *)

\* Events about an order follow its checkout session; money goes back only
\* after it came.
Emit(e) ==
    /\ e \notin emitted
    /\ OrderOf[e] # None => OrderOf[e] \in sessions
    /\ Kind[e] \in {"refund", "dispute"} =>
          \E p \in emitted : Kind[p] = "payment" /\ OrderOf[p] = OrderOf[e]
    /\ emitted' = emitted \cup {e}
    /\ UNCHANGED <<tables, sessions, acked, pc, subject, copy, mishaps>>

-----------------------------------------------------------------------------
(* POST /billing/webhook.  An event is delivered until it is answered with *)
(* 200, and may be delivered again after that.                             *)

\* BEGIN and SELECT of the event.  RECEIVED is never seen: it is set and
\* replaced in one transaction.
Deliver(h, e) ==
    /\ pc[h] = "idle"
    /\ e \in emitted
    /\ Kind[e] = "unknown" => ledger[e] < MaxRetained
    /\ CASE events[e] = "PROCESSED" -> /\ acked' = acked \cup {e}
                                       /\ UNCHANGED <<pc, subject>>
         [] events[e] = "IGNORED" -> /\ Goto(h, "read")
                                     /\ subject' = [subject EXCEPT ![h] = e]
                                     /\ UNCHANGED acked
         [] events[e] = "none" -> /\ Goto(h, "insert")
                                  /\ subject' = [subject EXCEPT ![h] = e]
                                  /\ UNCHANGED acked
    /\ UNCHANGED <<tables, sessions, emitted, copy, mishaps>>

\* A plausible bug: the row is taken as inserted, ON CONFLICT DO NOTHING.
InsertEventAnyway(h) ==
    /\ pc[h] = "insert"
    /\ ~InsertedElsewhere(h, subject[h])
    /\ Goto(h, "read")
    /\ UNCHANGED <<tables, stripe, subject, copy, mishaps>>

\* INSERT of the event.  It waits for a transaction that has inserted the same
\* key; if that one commits, the key is a duplicate, and a failed statement
\* aborts the transaction: the SELECT of the catch block fails as well.
InsertEvent(h) ==
    /\ pc[h] = "insert"
    /\ ~InsertedElsewhere(h, subject[h])
    /\ IF events[subject[h]] = "none"
       THEN Goto(h, "read") /\ UNCHANGED <<subject, copy>>
       ELSE Answer(h)
    /\ UNCHANGED <<tables, stripe, mishaps>>

\* SELECT of the order, without a lock.
ReadOrder(h) ==
    /\ pc[h] = "read"
    /\ LET e == subject[h]
           row == IF OrderOf[e] = None THEN NoRow ELSE orders[OrderOf[e]]
       IN  /\ copy' = [copy EXCEPT ![h] = row]
           /\ Goto(h, IF Kind[e] = "unknown" THEN "retain"
                      ELSE IF row.state = "ABSENT" THEN "commit" ELSE "write")
    /\ UNCHANGED <<tables, stripe, subject, mishaps>>

\* An unknown event: a ledger row, IGNORED, COMMIT.
Retain(h) ==
    /\ pc[h] = "retain"
    /\ ledger' = [ledger EXCEPT ![subject[h]] = @ + 1]
    /\ events' = [events EXCEPT ![subject[h]] = "IGNORED"]
    /\ \/ /\ acked' = acked \cup {subject[h]}
          /\ UNCHANGED mishaps
       \/ /\ Mishap("lostAnswer")
          /\ UNCHANGED acked
    /\ Answer(h)
    /\ UNCHANGED <<orders, granted, held, sessions, emitted>>

\* A plausible bug: the order is written through the pool, not the transaction.
WriteOrderOutside(h) ==
    /\ pc[h] = "write"
    /\ ~LockedOrder(h, OrderOf[subject[h]])
    /\ copy' = [copy EXCEPT ![h] = Applied(@, subject[h])]
    /\ PersistOrder(OrderOf[subject[h]], copy'[h])
    /\ Goto(h, "enqueue")
    /\ UNCHANGED <<events, ledger, granted, held, stripe, subject, mishaps>>

\* The rows of the ledger, the order, the money claim and the rights, from
\* the order as it was read.  Seen by others at the commit.
WriteOrder(h) ==
    /\ pc[h] = "write"
    /\ ~LockedOrder(h, OrderOf[subject[h]])
    /\ copy' = [copy EXCEPT ![h] = Applied(@, subject[h])]
    /\ Goto(h, "enqueue")
    /\ UNCHANGED <<tables, stripe, subject, mishaps>>

\* enqueueCommercialJob swallows an error of its INSERT.
EnqueueJob(h) ==
    /\ pc[h] = "enqueue"
    /\ \/ Goto(h, "commit") /\ UNCHANGED mishaps
       \/ Goto(h, "unqueued") /\ Mishap("enqueue")
    /\ UNCHANGED <<tables, stripe, subject, copy>>

\* The transaction is aborted all the same: the next statement fails.
AbortUnqueued(h) ==
    /\ pc[h] = "unqueued"
    /\ Answer(h)
    /\ UNCHANGED <<tables, stripe, mishaps>>

\* The states after a payment (persistAfterPayment), PROCESSED, COMMIT.
Commit(h) ==
    /\ pc[h] = "commit"
    /\ LET e == subject[h]
           o == OrderOf[e]
       IN  /\ events' = [events EXCEPT ![e] = "PROCESSED"]
           /\ ledger' = [ledger EXCEPT ![e] = @ + 1]
           /\ IF copy[h].state = "ABSENT"
              THEN UNCHANGED <<orders, granted, held>>
              ELSE /\ PersistOrder(o, copy[h])
                   /\ granted' = IF Observed(e) THEN [granted EXCEPT ![o] = @ + 1] ELSE granted
                   /\ held' = IF Kind[e] = "payment" /\ Amount[e] = "match"
                              THEN held \cup {o} ELSE held
           /\ \/ /\ acked' = acked \cup {e}
                 /\ UNCHANGED mishaps
              \/ /\ Mishap("lostAnswer")
                 /\ UNCHANGED acked
    /\ Answer(h)
    /\ UNCHANGED <<sessions, emitted>>

\* A plausible bug: a webhook that fails is answered with 200.
RollbackAcked(h) ==
    /\ pc[h] # "idle"
    /\ Mishap("error")
    /\ acked' = acked \cup ({subject[h]} \cap Events)
    /\ Answer(h)
    /\ UNCHANGED <<tables, sessions, emitted>>

\* A rejected statement or a killed process: ROLLBACK, and no answer of 200.
Rollback(h) ==
    /\ pc[h] # "idle"
    /\ Mishap("error")
    /\ Answer(h)
    /\ UNCHANGED <<tables, stripe>>

-----------------------------------------------------------------------------
(* POST /orders.                                                           *)

\* Offers are reused while an order of theirs is open.  Orders not yet in the
\* table are fresh identifiers; one is kept for every handler that needs it.
FindOpenOrder(h, offer) ==
    /\ pc[h] = "idle"
    /\ ~\E o \in Orders : orders[o].offer = offer /\ orders[o].state \in OpenStates
    /\ Cardinality({o \in Orders : orders[o].state = "ABSENT"})
          > Cardinality({k \in Handlers : pc[k] = "accept"})
    /\ Goto(h, "accept")
    /\ subject' = [subject EXCEPT ![h] = offer]
    /\ UNCHANGED <<tables, stripe, copy, mishaps>>

\* acceptOffer and the transaction that stores the order, a PENDING right and
\* a job.  The PENDING row is of no later use: a grant inserts another row.
InsertOrder(h) ==
    /\ pc[h] = "accept"
    /\ \E o \in Orders :
          /\ orders[o].state = "ABSENT"
          /\ PersistOrder(o, [NoRow EXCEPT !.state = "OPEN", !.offer = subject[h]])
    /\ Answer(h)
    /\ UNCHANGED <<events, ledger, granted, held, stripe, mishaps>>

-----------------------------------------------------------------------------
(* POST /checkout: no transaction.                                         *)

CheckoutAllowed(row) == row.state \notin {"ABSENT", "PAYMENT_OBSERVED"}

BeginCheckout(h, o) ==
    /\ pc[h] = "idle"
    /\ CheckoutAllowed(orders[o])
    /\ copy' = [copy EXCEPT ![h] = orders[o]]
    /\ subject' = [subject EXCEPT ![h] = o]
    /\ Goto(h, "rail")
    /\ UNCHANGED <<tables, stripe, mishaps>>

\* The rail answers.  Its idempotency key makes a second call return the
\* session of the first.  Without a key of Stripe the checkout is local.
RailAnswers(h) ==
    /\ pc[h] = "rail"
    /\ \/ /\ sessions' = sessions \cup {subject[h]}
          /\ Goto(h, "attachStripe")
       \/ /\ Goto(h, "attachLocal")
          /\ UNCHANGED sessions
    /\ UNCHANGED <<tables, emitted, acked, subject, copy, mishaps>>

\* attachCheckout and persistOrder, from the order as it was read before.
AttachCheckout(h) ==
    /\ pc[h] \in {"attachStripe", "attachLocal"}
    /\ ~LockedOrder(h, subject[h])
    /\ PersistOrder(subject[h],
                    [copy[h] EXCEPT !.state = "CHECKOUT_CREATED",
                                    !.checkout = IF pc[h] = "attachLocal" THEN "local" ELSE "stripe"])
    /\ Answer(h)
    /\ UNCHANGED <<events, ledger, granted, held, stripe, mishaps>>

-----------------------------------------------------------------------------
Webhook(h) == InsertEvent(h) \/ ReadOrder(h) \/ Retain(h) \/ WriteOrder(h)
              \/ EnqueueJob(h) \/ AbortUnqueued(h) \/ Commit(h)

Ordering(h) == InsertOrder(h) \/ RailAnswers(h) \/ AttachCheckout(h)

Next ==
    \/ \E e \in Events : Emit(e)
    \/ \E h \in Handlers, e \in Events : Deliver(h, e)
    \/ \E h \in Handlers, f \in Offers : FindOpenOrder(h, f)
    \/ \E h \in Handlers, o \in Orders : BeginCheckout(h, o)
    \/ \E h \in Handlers : Webhook(h) \/ Ordering(h) \/ Rollback(h)

Spec == Init /\ [][Next]_vars

\* Stripe delivers an event until it is answered with 200, however many other
\* requests there are, and the event loop of the server keeps turning.
Redeliver(e) == e \notin acked /\ \E h \in Handlers : Deliver(h, e)
Fairness ==
    /\ \A e \in Events : SF_vars(Redeliver(e))
    /\ \A h \in Handlers : WF_vars(Webhook(h) \/ Ordering(h))

FairSpec == Spec /\ Fairness

-----------------------------------------------------------------------------
(* Properties.                                                             *)

Known(e) == Kind[e] # "unknown"

\* However often an event of a known type is delivered, and however many of
\* its deliveries overlap, it has exactly one row in the ledger once it is
\* PROCESSED and none before.
AppliedOnce ==
    \A e \in Events : Known(e) => ledger[e] = IF events[e] = "PROCESSED" THEN 1 ELSE 0

\* What makes AppliedOnce inductive: of all transactions on an event at most
\* one is past the insertion of its row, and it is the first to be.
ApplyInv ==
    /\ AppliedOnce
    /\ \A e \in Events : Known(e) => events[e] # "IGNORED"
    /\ \A h \in Handlers : pc[h] \in InWebhook => subject[h] \in Events
    /\ \A h \in Handlers :
          pc[h] \in Applying /\ Known(subject[h]) => events[subject[h]] = "none"
    /\ \A h, k \in Handlers :
          /\ pc[h] \in Applying /\ pc[k] \in Applying
          /\ subject[h] = subject[k] /\ Known(subject[h])
          => h = k

Payments(o) == {e \in Events : OrderOf[e] = o /\ events[e] = "PROCESSED" /\ Kind[e] = "payment"}

\* Rights are granted for payments and only for them: an order has no more
\* GRANTED rows than processed payments of the right amount, its project is
\* held for a human only for such a payment, and each of them is in the ledger.
RightsArePaidFor ==
    \A o \in Orders :
        LET right == {e \in Payments(o) : Amount[e] # "mismatch"}
        IN  /\ granted[o] <= Cardinality(right)
            /\ o \in held => right # {}
            /\ \A e \in right : ledger[e] = 1

\* The row of an order can be explained: its state, its paid_at and its
\* stripe_payment_intent come from a processed event of that order that says
\* so, or from a checkout.
RowIsExplained ==
    \A o \in Orders :
        LET row == orders[o]
            Seen(kinds) == \E e \in Events : /\ OrderOf[e] = o
                                             /\ events[e] = "PROCESSED"
                                             /\ Kind[e] \in kinds
                                             /\ Amount[e] # "mismatch"
        IN  /\ \A k \in DOMAIN StateAfter : row.state = StateAfter[k] => Seen({k})
            /\ row.paid => Seen({"payment"})
            /\ row.state = "PAYMENT_OBSERVED" => row.paid
            /\ row.object # None => /\ OrderOf[row.object] = o
                                    /\ events[row.object] = "PROCESSED"
            /\ row.state = "CHECKOUT_CREATED" => row.checkout # "none"
            /\ row.state = "MISMATCH" =>
                  \E e \in Events : /\ OrderOf[e] = o
                                    /\ events[e] = "PROCESSED"
                                    /\ Amount[e] = "mismatch"

\* An order whose payment is observed leaves that state only for an event that
\* takes the money back or contradicts it, and keeps its paid_at.
\* Not kept by the code: a checkout writes back the order that it read before
\* it awaited Stripe.
PaymentStaysObserved ==
    [][\A o \in Orders : orders[o].state = "PAYMENT_OBSERVED" =>
          /\ orders'[o].paid
          /\ orders'[o].state \notin OpenStates]_vars

\* An event-id is idempotent: it leaves one row in the ledger, known or not.
\* Not kept by the code: an IGNORED event is retained again at each delivery.
EventIdIdempotent == \A e \in Events : ledger[e] <= 1

\* Ordering an offer again while an order for it is open gives that order.
\* Not kept by the code: the look-up and the INSERT are two transactions.
OneOpenOrder ==
    \A o, p \in Orders :
        /\ orders[o].state \in OpenStates /\ orders[p].state \in OpenStates
        /\ orders[o].offer = orders[p].offer
        => o = p

\* Every event of a known type that happened is applied in the end.
EventsAreApplied ==
    \A e \in Events : Known(e) /\ e \in emitted ~> events[e] = "PROCESSED"
=============================================================================
